------------------------ MODULE GalachCodegenFrames ------------------------
(***************************************************************************)
(* SlotsDisjoint is an invariant of the code generator, for every value of *)
(* its constants.                                                          *)
(*                                                                         *)
(* The inductive invariant is Layout, on top of SourceTypes /\ Shape:      *)
(* variables in scope are pairwise apart, those of the frame at or above   *)
(* the last offset given out, so the next one down is free; parameters are *)
(* laid out upwards from 16, before any variable.  Scopes that close only  *)
(* make the set of variables smaller, and offset_counter never goes back   *)
(* before the function ends.                                               *)
(***************************************************************************)
EXTENDS GalachCodegenTypes

-----------------------------------------------------------------------------
(* What a step inside a function does to the scopes.                       *)

\* A variable in scope after the step was in scope before it, in the same place.
NothingNew ==
    \A k \in 1..Len(scopes') : \A i \in 1..Len(scopes'[k]) :
        IsVar(k, i)' => /\ k \in 1..Len(scopes)
                        /\ i \in 1..Len(scopes[k])
                        /\ scopes'[k][i] = scopes[k][i]

LEMMA SameScopes == ASSUME UNCHANGED scopes PROVE NothingNew
  BY DEF NothingNew, IsVar

LEMMA OpenedScope ==
    ASSUME SourceTypes, OpenScope
    PROVE  NothingNew
<1>1. scopes \in Seq(Seq(Locals)) /\ Len(scopes) \in Nat
  BY DEF SourceTypes
<1>2. <<>> \in Seq(Locals) /\ Len(<<>>) = 0
  OBVIOUS
<1>3. /\ Len(scopes') = Len(scopes) + 1
      /\ \A k \in 1..Len(scopes) : scopes'[k] = scopes[k]
      /\ scopes'[Len(scopes) + 1] = <<>>
  BY <1>1, <1>2, AppendProperties DEF OpenScope
<1>4. ASSUME NEW k \in 1..Len(scopes'), NEW i \in 1..Len(scopes'[k])
      PROVE  k \in 1..Len(scopes) /\ scopes'[k] = scopes[k]
  <2>1. CASE k \in 1..Len(scopes)
    BY <1>3, <2>1
  <2>2. CASE k \notin 1..Len(scopes)
    <3>1. k = Len(scopes) + 1
      BY <1>1, <1>3, <2>2
    <3>2. Len(scopes'[k]) = 0
      BY <1>2, <1>3, <3>1
    <3> QED BY <3>2
  <2> QED BY <2>1, <2>2
<1> QED BY <1>4 DEF NothingNew

LEMMA ClosedScope ==
    ASSUME SourceTypes, Shape, EndScope
    PROVE  NothingNew
<1>1. Top.step = "endscope" /\ Top.step \notin {"decls", "endfun"}
  BY DEF EndScope, At
<1>2. Top.n \in 3..Len(scopes)
  BY <1>1, TopInFunction, Zenon DEF Nested
<1>3. scopes \in Seq(Seq(Locals)) /\ Len(scopes) \in Nat
  BY DEF SourceTypes
<1>4. /\ Len(scopes') = Top.n - 1
      /\ \A k \in 1..(Top.n - 1) : scopes'[k] = scopes[k]
  <2>1. Top.n - 1 \in Nat /\ Top.n - 1 <= Len(scopes)
    BY <1>2, <1>3
  <2> QED BY <1>3, <2>1, PrefixType, Zenon DEF EndScope
<1>5. \A k \in 1..Len(scopes') : k \in 1..Len(scopes) /\ scopes'[k] = scopes[k]
  <2>1. 1..(Top.n - 1) \subseteq 1..Len(scopes)
    BY <1>2, <1>3
  <2> QED BY <1>4, <2>1, Zenon
<1> QED BY <1>5, Zenon DEF NothingNew

\* Only gh_emit_var adds a variable, and only it moves offset_counter.
LEMMA StatementScopes ==
    ASSUME SourceTypes, Shape, Statement \/ Expression
    PROVE  /\ Inside
           /\ EndVar \/ (NothingNew /\ UNCHANGED offset_counter)
<1> DEFINE Quiet == UNCHANGED <<scopes, offset_counter>>
           Opens == OpenScope /\ UNCHANGED offset_counter
<1>1. ASSUME Quiet PROVE NothingNew /\ UNCHANGED offset_counter
  BY <1>1, SameScopes
<1>2. ASSUME Opens PROVE NothingNew /\ UNCHANGED offset_counter
  BY <1>2, OpenedScope
<1>3. ASSUME EndScope PROVE Inside /\ NothingNew /\ UNCHANGED offset_counter
  BY <1>3, ClosedScope DEF EndScope, At, Inside
<1>4. EndStmts => Inside /\ Quiet
  BY DEF EndStmts, At, Inside
<1>5. EndReturn \/ EndIf \/ EndWhile => Inside /\ Quiet
  BY DEF EndReturn, EndIf, EndWhile, Fail, At, Inside
<1>6. EmitIf \/ EmitWhile \/ EmitMatch \/ EmitExprStmt => Inside /\ Quiet
  BY DEF EmitIf, EmitWhile, EmitMatch, EmitExprStmt, At, Inside
<1>7. IfJz => Inside /\ (Quiet \/ Opens)
  BY DEF IfJz, Fail, At, Inside
<1>8. WhileJz => Inside /\ (Quiet \/ Opens)
  BY DEF WhileJz, Fail, At, Inside
<1>9. EmitBlock => Inside /\ Opens
  BY DEF EmitBlock, At, Inside
<1>10. ASSUME NEW name \in VarNames, NEW t \in VarTypes, NEW init \in BOOLEAN,
              EmitVar(name, t, init)
       PROVE  Inside /\ Quiet
  <2>1. Top.step = "stmts" /\ scopes' = scopes /\ offset_counter' = offset_counter
    BY <1>10, SMTT(30) DEF EmitVar, At
  <2> QED BY <2>1 DEF Inside
<1>11. ASSUME NEW else \in {"none", "elseif", "else"}, IfJmp(else)
       PROVE  Inside /\ (Quiet \/ Opens)
  BY <1>11 DEF IfJmp, At, Inside
<1>12. ASSUME NEW expr \in BOOLEAN, EmitReturn(expr) PROVE Inside /\ Quiet
  BY <1>12 DEF EmitReturn, At, Inside
<1>13. EndVar => Inside
  BY DEF EndVar, At, Inside
<1>14. ASSUME NEW id \in {"int", "float", "string"}, NEW v \in Literals \cup FloatImages,
              Literal(id, v)
       PROVE  Inside /\ Quiet
  BY <1>14 DEF Literal, Fail, At, Inside
<1>15. Arg \/ EndArg \/ EndCall => Inside /\ Quiet
  BY DEF Arg, EndArg, EndCall, Fail, At, Inside
<1>16. EndUnary \/ Push \/ EndBinary => Inside /\ Quiet
  BY DEF EndUnary, Push, EndBinary, Fail, At, Inside
<1>17. Store \/ EndAssgn => Inside /\ Quiet
  BY DEF Store, EndAssgn, Fail, At, Inside
<1>18. ASSUME NEW name \in UsedNames, Ident(name) PROVE Inside /\ Quiet
  BY <1>18 DEF Ident, Fail, At, Inside
<1>19. ASSUME NEW name \in UsedNames, NEW n \in 0..MaxArgs, Call(name, n) PROVE Inside /\ Quiet
  BY <1>19 DEF Call, At, Inside
<1>20. ASSUME NEW op \in UnOps, EmitUnary(op) PROVE Inside /\ Quiet
  BY <1>20 DEF EmitUnary, At, Inside
<1>21. ASSUME NEW op \in BinOps, EmitBinary(op) PROVE Inside /\ Quiet
  BY <1>21 DEF EmitBinary, At, Inside
<1>22. ASSUME NEW name \in UsedNames, NEW op \in AssignOps, Assign(name, op)
       PROVE  Inside /\ Quiet
  BY <1>22 DEF Assign, At, Inside
<1> HIDE DEF Quiet, Opens
<1>23. CASE Statement
  BY <1>1, <1>2, <1>3, <1>4, <1>5, <1>6, <1>7, <1>8, <1>9, <1>10, <1>11, <1>12, <1>13, <1>23,
     Zenon DEF Statement
<1>24. CASE Expression
  BY <1>1, <1>14, <1>15, <1>16, <1>17, <1>18, <1>19, <1>20, <1>21, <1>22, <1>24, Zenon
     DEF Expression
<1> QED BY <1>23, <1>24, Zenon

-----------------------------------------------------------------------------
(* Layout is inductive.                                                    *)

\* The variables in scope and their fields.
LEMMA VarFields ==
    ASSUME SourceTypes, NEW k \in 1..Len(scopes), NEW i \in 1..Len(scopes[k])
    PROVE  /\ scopes[k][i] \in Locals
           /\ scopes[k][i].type \in Types
           /\ scopes[k][i].offset \in Int
           /\ TypeSize(scopes[k][i].type) \in Nat
<1>1. scopes \in Seq(Seq(Locals))
  BY DEF SourceTypes
<1>2. scopes[k] \in Seq(Locals)
  BY <1>1, ElementOfSeq, Zenon
<1>3. scopes[k][i] \in Locals
  BY <1>2, ElementOfSeq, Zenon
<1>4. scopes[k][i].type \in Types /\ scopes[k][i].offset \in Int
  BY <1>3, LocalField, Zenon
<1> QED BY <1>3, <1>4, SizeOfType, Zenon

LEMMA QuietLayout ==
    ASSUME SourceTypes, Layout, SourceTypes', NothingNew, UNCHANGED offset_counter,
           Top'.step # "params", Len(work') > 1
    PROVE  Layout'
<1>1. NoGlobals'
  <2>1. 1 \in 1..Len(scopes')
    BY DEF SourceTypes
  <2> QED BY <2>1 DEF Layout, NoGlobals, NothingNew, IsVar
<1>2. VarsPlaced'
  BY DEF Layout, VarsPlaced, NothingNew, IsVar, Placed
<1>3. VarsApart'
  <2>1. ASSUME NEW k \in 1..Len(scopes'), NEW m \in 1..Len(scopes'),
               NEW i \in 1..Len(scopes'[k]), NEW j \in 1..Len(scopes'[m]),
               IsVar(k, i)', IsVar(m, j)', <<m, j>> # <<k, i>>
        PROVE  Apart(scopes'[k][i], scopes'[m][j])
    <3>1. /\ k \in 1..Len(scopes) /\ i \in 1..Len(scopes[k]) /\ scopes'[k][i] = scopes[k][i]
          /\ m \in 1..Len(scopes) /\ j \in 1..Len(scopes[m]) /\ scopes'[m][j] = scopes[m][j]
      BY <2>1 DEF NothingNew
    <3>2. IsVar(k, i) /\ IsVar(m, j)
      BY <2>1, <3>1 DEF IsVar
    <3>3. Apart(scopes[k][i], scopes[m][j])
      BY <2>1, <3>1, <3>2, Zenon DEF Layout, VarsApart
    <3> QED BY <3>1, <3>3
  <2> QED BY <2>1 DEF VarsApart, Apart
<1>4. FrameBelow'
  <2>1. ~(Len(work') <= 1) /\ offset_counter' <= 0
    <3>1. Len(work') \in Nat
      BY DEF SourceTypes
    <3> QED BY <3>1 DEF Layout, FrameBelow
  <2> QED BY <2>1 DEF FrameBelow
<1>5. ParamsUpwards'
  BY DEF ParamsUpwards
<1> QED BY <1>1, <1>2, <1>3, <1>4, <1>5 DEF Layout

\* The slot of a new variable is the next one down, below all the others.
LEMMA EndVarLayout ==
    ASSUME SourceTypes, Shape, Layout, EndVar, SourceTypes', Top'.step # "params", Len(work') > 1
    PROVE  Layout'
<1> DEFINE size   == TypeSize(Cell)
           offset == offset_counter - size
           local  == Local("var", Top.word, Cell, <<>>, offset)
           K      == Len(scopes)
           L      == Len(scopes[K])
<1>1. Top.step \in CellSteps /\ Top.step \notin {"decls", "endfun"}
  BY DEF EndVar, At, CellSteps
<1>2. /\ Cell \in Types /\ size \in Nat /\ (size = 0 <=> Cell = "unit")
      /\ offset_counter \in Int /\ offset_counter <= 0 /\ offset \in Int
      /\ offset_counter' = offset
  BY <1>1, CellType, SizeOfType DEF SourceTypes, EndVar, Layout, FrameBelow
<1>3. K >= 2 /\ K \in Nat /\ scopes \in Seq(Seq(Locals))
  BY <1>1, TopInFunction DEF SourceTypes
<1>4. CASE size = 0
  <2>1. UNCHANGED <<scopes, offset_counter>>
    BY <1>2, <1>4 DEF EndVar
  <2> QED BY <2>1, SameScopes, QuietLayout
<1>5. CASE size # 0
  <2>1. scopes' = [scopes EXCEPT ![K] = Append(@, local)]
    BY <1>5 DEF EndVar, AddLocal
  <2>2. local.id = "var" /\ local.type = Cell /\ local.offset = offset
    BY DEF Local
  <2> HIDE DEF local, offset, size, K
  <2>3. scopes[K] \in Seq(Locals) /\ L \in Nat /\ K \in 1..Len(scopes)
    BY <1>3 DEF K
  <2> HIDE DEF L
  <2>4. /\ Len(scopes') = K
        /\ \A k \in 1..K : k # K => scopes'[k] = scopes[k]
        /\ scopes'[K] = Append(scopes[K], local)
    BY <1>3, <2>1 DEF K
  <2>5. /\ Len(scopes'[K]) = L + 1
        /\ \A i \in 1..L : scopes'[K][i] = scopes[K][i]
        /\ scopes'[K][L + 1] = local
    BY <2>3, <2>4 DEF L
  <2>6. ASSUME NEW k \in 1..Len(scopes'), NEW i \in 1..Len(scopes'[k])
        PROVE  \/ /\ k \in 1..Len(scopes) /\ i \in 1..Len(scopes[k])
                  /\ scopes'[k][i] = scopes[k][i]
               \/ k = K /\ i = L + 1 /\ scopes'[k][i] = local
    <3>1. CASE k # K
      BY <2>4, <3>1 DEF K
    <3>2. CASE k = K /\ i \in 1..L
      BY <2>3, <2>5, <3>2 DEF L
    <3>3. CASE k = K /\ i \notin 1..L
      BY <2>3, <2>5, <3>3
    <3> QED BY <3>1, <3>2, <3>3
  <2>7. offset + size = offset_counter /\ offset <= offset_counter
    BY <1>2 DEF offset
  <2>8. /\ local.type # "unit" /\ local.offset >= offset_counter'
        /\ local.offset + TypeSize(local.type) <= 0
    BY <1>2, <1>5, <2>2, <2>7 DEF size
  <2>9. ASSUME NEW k \in 1..Len(scopes), NEW i \in 1..Len(scopes[k]), IsVar(k, i)
        PROVE  /\ \/ scopes[k][i].offset >= 16
                  \/ /\ scopes[k][i].offset >= offset_counter'
                     /\ scopes[k][i].offset + TypeSize(scopes[k][i].type) <= 0
               /\ scopes[k][i].type # "unit"
               /\ Apart(scopes[k][i], local) /\ Apart(local, scopes[k][i])
    <3>1. Placed(scopes[k][i])
      BY <2>9, Zenon DEF Layout, VarsPlaced
    <3>2. scopes[k][i].offset \in Int /\ TypeSize(scopes[k][i].type) \in Nat
      BY VarFields, Zenon
    <3>3. scopes[k][i].type # "unit"
      BY <3>1 DEF Placed
    <3>4. scopes[k][i].offset >= 16 \/ (scopes[k][i].offset >= offset_counter
                        /\ scopes[k][i].offset + TypeSize(scopes[k][i].type) <= 0)
      BY <3>1 DEF Placed
    <3>5. local.offset + TypeSize(local.type) <= scopes[k][i].offset
      BY <1>2, <2>2, <2>7, <3>2, <3>4 DEF size
    <3>6. Apart(scopes[k][i], local) /\ Apart(local, scopes[k][i])
      BY <3>5 DEF Apart
    <3>7. offset_counter' <= offset_counter /\ offset_counter' \in Int
      BY <1>2, <2>7
    <3> QED BY <1>2, <3>2, <3>3, <3>4, <3>6, <3>7
  <2>10. NoGlobals'
    <3>1. scopes'[1] = scopes[1]
      BY <1>3, <2>4
    <3> QED BY <3>1 DEF Layout, NoGlobals, IsVar
  <2>11. VarsPlaced'
    <3>1. ASSUME NEW k \in 1..Len(scopes'), NEW i \in 1..Len(scopes'[k]), IsVar(k, i)'
          PROVE  Placed(scopes[k][i])'
      <4>1. CASE scopes'[k][i] = local
        BY <2>8, <4>1 DEF Placed
      <4>2. CASE k \in 1..Len(scopes) /\ i \in 1..Len(scopes[k]) /\ scopes'[k][i] = scopes[k][i]
        <5>1. IsVar(k, i)
          BY <3>1, <4>2 DEF IsVar
        <5> QED BY <2>9, <4>2, <5>1 DEF Placed
      <4> QED BY <2>6, <4>1, <4>2
    <3> QED BY <3>1 DEF VarsPlaced
  <2>12. VarsApart'
    <3>1. ASSUME NEW k \in 1..Len(scopes'), NEW m \in 1..Len(scopes'),
                 NEW i \in 1..Len(scopes'[k]), NEW j \in 1..Len(scopes'[m]),
                 IsVar(k, i)', IsVar(m, j)', <<m, j>> # <<k, i>>
          PROVE  Apart(scopes'[k][i], scopes'[m][j])
      <4> DEFINE Old(a, b) == /\ a \in 1..Len(scopes) /\ b \in 1..Len(scopes[a])
                              /\ scopes'[a][b] = scopes[a][b]
                 New(a, b) == a = K /\ b = L + 1 /\ scopes'[a][b] = local
      <4>1. (Old(k, i) \/ New(k, i)) /\ (Old(m, j) \/ New(m, j))
        BY <2>6
      <4>2. (Old(k, i) => IsVar(k, i)) /\ (Old(m, j) => IsVar(m, j))
        BY <3>1 DEF IsVar
      <4>3. CASE Old(k, i) /\ Old(m, j)
        <5>1. Apart(scopes[k][i], scopes[m][j])
          BY <3>1, <4>2, <4>3, Zenon DEF Layout, VarsApart
        <5> QED BY <4>3, <5>1
      <4>4. CASE Old(k, i) /\ New(m, j)
        BY <2>9, <4>2, <4>4
      <4>5. CASE New(k, i) /\ Old(m, j)
        BY <2>9, <4>2, <4>5
      <4>6. CASE New(k, i) /\ New(m, j)
        BY <3>1, <4>6
      <4> QED BY <4>1, <4>3, <4>4, <4>5, <4>6
    <3> QED BY <3>1 DEF VarsApart, Apart
  <2>13. FrameBelow'
    <3>1. Len(work') \in Nat
      BY DEF SourceTypes
    <3> QED BY <1>2, <2>7, <3>1 DEF FrameBelow
  <2>14. ParamsUpwards'
    BY DEF ParamsUpwards
  <2> QED BY <2>10, <2>11, <2>12, <2>13, <2>14 DEF Layout
<1> QED BY <1>4, <1>5

\* A step that leaves the frame and the stack alone.
LEMMA SameLayout ==
    ASSUME Layout, UNCHANGED <<scopes, offset_counter, work>>
    PROVE  Layout'
<1>1. Top' = Top
  BY DEF Top
<1>2. NoGlobals'
  BY DEF Layout, NoGlobals, IsVar
<1>3. VarsPlaced'
  <2>1. SUFFICES ASSUME NEW k \in 1..Len(scopes), NEW i \in 1..Len(scopes[k]), IsVar(k, i)
                 PROVE  Placed(scopes[k][i])'
    BY DEF VarsPlaced, IsVar
  <2>2. Placed(scopes[k][i])
    BY <2>1 DEF Layout, VarsPlaced
  <2> QED BY <2>2 DEF Placed
<1>4. VarsApart'
  <2>1. ASSUME NEW k \in 1..Len(scopes), NEW m \in 1..Len(scopes),
               NEW i \in 1..Len(scopes[k]), NEW j \in 1..Len(scopes[m]),
               IsVar(k, i), IsVar(m, j), <<m, j>> # <<k, i>>
        PROVE  Apart(scopes[k][i], scopes[m][j])
    BY <2>1 DEF Layout, VarsApart
  <2>2. \A k, m \in 1..Len(scopes) : \A i \in 1..Len(scopes[k]), j \in 1..Len(scopes[m]) :
            IsVar(k, i) /\ IsVar(m, j) /\ <<m, j>> # <<k, i>>
                => Apart(scopes[k][i], scopes[m][j])'
    BY <2>1 DEF Apart
  <2>3. \A k, i : IsVar(k, i)' <=> IsVar(k, i)
    BY DEF IsVar
  <2> HIDE DEF Apart, IsVar
  <2> QED BY <2>2, <2>3 DEF VarsApart
<1>5. FrameBelow'
  BY <1>1 DEF Layout, FrameBelow
<1>6. ParamsUpwards'
  BY <1>1 DEF Layout, ParamsUpwards, IsVar
<1> QED BY <1>2, <1>3, <1>4, <1>5, <1>6 DEF Layout

LEMMA DeclareFunLayout ==
    ASSUME SourceTypes, Shape, Layout, NEW h \in FunHeads, DeclareFun(h), SourceTypes'
    PROVE  Layout'
<1> DEFINE local == Local("fun", h.name, h.type, <<>>, 0)
           s     == Append(scopes[1], local)
<1>1. Top.step = "decls"
  BY DEF DeclareFun, At
<1>2. CASE Declared(h.name)
  BY <1>2, SameLayout DEF DeclareFun, Fail
<1>3. CASE ~Declared(h.name)
  <2> DEFINE it1    == Item("endfun")
             it2    == Item("params")
             endfun == [it1 EXCEPT !.word = h.name]
             params == [it2 EXCEPT !.offset = 16]
             two    == <<endfun, params>>
  <2>1. scopes' = <<s, <<>>>> /\ work' = work \o two /\ UNCHANGED offset_counter
    BY <1>3 DEF DeclareFun
  <2>2. /\ work \in Seq(Items) /\ Len(work) <= 1
        /\ scopes \in Seq(Seq(Locals)) /\ Len(scopes) = 1 /\ scopes[1] \in Seq(Locals)
    <3>1. /\ work \in Seq(Items) /\ Len(work) <= 1
          /\ scopes \in Seq(Seq(Locals)) /\ Len(scopes) = 1
      BY <1>1, TopOutside, Zenon
    <3>2. 1 \in 1..Len(scopes)
      BY <3>1
    <3> QED BY <3>1, <3>2, ElementOfSeq, Zenon
  <2>3. offset_counter <= 0
    BY <2>2 DEF Layout, FrameBelow
  <2>4. local \in Locals /\ local.id = "fun"
    <3>1. "fun" \in {"var", "fun", "sysfun"} /\ <<>> \in Seq(Types) /\ 0 \in Int
      OBVIOUS
    <3>2. h.name \in Names /\ h.type \in Types
      BY SourceAssumption DEF Names
    <3>3. local \in Locals
      BY <3>1, <3>2, LocalType, Zenon
    <3> QED BY <3>3 DEF Local
  <2> HIDE DEF local
  <2>5. ASSUME NEW i \in 1..Len(s) PROVE s[i].id # "var"
    <3>1. /\ Len(s) = Len(scopes[1]) + 1
          /\ \A j \in 1..Len(scopes[1]) : s[j] = scopes[1][j]
          /\ s[Len(scopes[1]) + 1] = local
      BY <2>2, <2>4, AppendProperties
    <3>2. CASE i \in 1..Len(scopes[1])
      BY <3>1, <3>2 DEF Layout, NoGlobals, IsVar
    <3>3. CASE i \notin 1..Len(scopes[1])
      <4>1. i = Len(scopes[1]) + 1
        BY <2>2, <3>1, <3>3
      <4> QED BY <2>4, <3>1, <4>1
    <3> QED BY <3>2, <3>3
  <2> HIDE DEF s
  <2>6. /\ Len(scopes') = 2 /\ scopes'[1] = s /\ scopes'[2] = <<>>
    BY <2>1
  <2>7. ASSUME NEW k \in 1..Len(scopes'), NEW i \in 1..Len(scopes'[k]) PROVE ~IsVar(k, i)'
    BY <2>5, <2>6 DEF IsVar
  <2>8. NoGlobals' /\ VarsPlaced' /\ VarsApart'
    <3>1. 1 \in 1..Len(scopes')
      BY <2>6
    <3> QED BY <2>7, <3>1, Zenon DEF NoGlobals, VarsPlaced, VarsApart
  <2>9. Top' = params
    <3>1. it1 \in Items /\ it2 \in Items
      <4>1. "endfun" \in Steps /\ "params" \in Steps
        BY DEF Steps
      <4> QED BY <4>1, ItemType, Zenon
    <3>2. h.name \in Names
      BY SourceAssumption DEF Names
    <3> HIDE DEF it1, it2
    <3>3. endfun \in Items /\ params \in Items
      BY <3>1, <3>2 DEF Items
    <3> HIDE DEF endfun, params
    <3>4. two \in Seq(Items) /\ Len(two) = 2 /\ two[2] = params
      BY <3>3
    <3> HIDE DEF two
    <3>5. /\ Len(work \o two) = Len(work) + Len(two)
          /\ \A i \in 1 .. Len(work) + Len(two) :
                 (work \o two)[i] = IF i <= Len(work) THEN work[i] ELSE two[i - Len(work)]
      BY <2>2, <3>4, ConcatProperties, Zenon
    <3> DEFINE new == work \o two
    <3>6. work' = new /\ Len(new) = Len(work) + 2 /\ Len(work) \in Nat
      BY <2>1, <2>2, <3>4, <3>5
    <3>7. new[Len(work) + 2] = two[2]
      BY <3>4, <3>5, <3>6
    <3> HIDE DEF new
    <3>8. Top' = new[Len(new)]
      BY <3>6 DEF Top, Last
    <3> QED BY <3>4, <3>6, <3>7, <3>8
  <2>10. Top'.offset = 16
    <3>1. "params" \in Steps
      BY DEF Steps
    <3>2. it2 \in Items
      BY <3>1, ItemType, Zenon
    <3> HIDE DEF it2
    <3>3. params.offset = 16
      BY <3>2 DEF Items
    <3> QED BY <2>9, <3>3
  <2>11. FrameBelow'
    BY <2>1, <2>3 DEF FrameBelow
  <2>12. ParamsUpwards'
    BY <2>6, <2>10 DEF ParamsUpwards
  <2> QED BY <2>8, <2>11, <2>12 DEF Layout
<1> QED BY <1>2, <1>3

\* Parameters are laid out one above the other.
LEMMA AddParamLayout ==
    ASSUME SourceTypes, Shape, Layout, NEW p \in Params, AddParam(p), SourceTypes'
    PROVE  Layout'
<1>1. Top.step = "params"
  BY DEF AddParam, At
<1>2. CASE p.type = "unit"
  BY <1>2, SameLayout DEF AddParam, Fail
<1>3. CASE p.type # "unit"
  <2> DEFINE it    == Top
             next  == [it EXCEPT !.n = @ + 1, !.offset = @ + TypeSize(p.type)]
             local == Local("var", p.name, p.type, <<>>, it.offset)
             ls    == scopes[1]
             m     == Len(ls)
             t     == p.type
             s1    == [ls EXCEPT ![m].params = Append(@, t)]
             s2    == Append(scopes[2], local)
             L     == Len(scopes[2])
  <2>1. /\ scopes' = [scopes EXCEPT ![1][m].params = Append(@, p.type), ![2] = Append(@, local)]
        /\ Become(<<next>>)
        /\ UNCHANGED offset_counter
    BY <1>3 DEF AddParam
  <2>2. /\ it \in Items /\ it.step = "params"
        /\ scopes \in Seq(Seq(Locals)) /\ Len(scopes) = 2
    BY <1>1, TopOutside, Zenon
  <2>3. p.name \in Names /\ t \in Types /\ TypeSize(t) \in Nat
    BY SourceAssumption, SizeOfType DEF Names
  <2>4. ls \in Seq(Locals) /\ scopes[2] \in Seq(Locals) /\ m \in Nat /\ m >= 1 /\ m \in 1..Len(ls)
    <3>1. 1 \in 1..Len(scopes) /\ 2 \in 1..Len(scopes)
      BY <2>2
    <3>2. scopes[1] \in Seq(Locals) /\ scopes[2] \in Seq(Locals)
      BY <2>2, <3>1, ElementOfSeq, Zenon
    <3>3. Len(scopes[1]) \in Nat /\ Len(scopes[1]) >= 1
      BY <3>2 DEF Shape, Nesting
    <3> QED BY <3>2, <3>3
  <2>5. scopes' = [scopes EXCEPT ![1] = s1, ![2] = s2]
    BY <2>1, <2>2
  <2>6. /\ offset_counter <= 0 /\ it.offset >= 16 /\ it.offset \in Int
        /\ \A i \in 1..L : LET q == scopes[2][i]
                           IN  IsVar(2, i) => q.offset >= 16 /\ q.offset + TypeSize(q.type) <= it.offset
    <3>1. Top.offset \in Int
      BY <2>2 DEF Items
    <3> QED BY <1>1, <3>1 DEF Layout, FrameBelow, ParamsUpwards
  <2> HIDE DEF it
  <2>7. next \in Items /\ next.step = "params" /\ next.offset = it.offset + TypeSize(t)
    <3>1. next = [it EXCEPT !.n = it.n + 1, !.offset = it.offset + TypeSize(p.type)]
      BY <2>2 DEF Items
    <3>2. it.n + 1 \in Nat /\ it.offset + TypeSize(p.type) \in Int
      BY <2>2, <2>3, <2>6 DEF Items
    <3> QED BY <2>2, <3>1, <3>2 DEF Items
  <2> HIDE DEF next
  <2>8. Len(work') = 3 /\ Top' = next
    BY <1>1, <2>1, <2>7, ParamsBecome, Zenon
  <2>9. /\ local \in Locals /\ local.type = t /\ local.offset = it.offset
    <3>1. "var" \in {"var", "fun", "sysfun"} /\ <<>> \in Seq(Types)
      OBVIOUS
    <3>2. local \in Locals
      BY <2>3, <2>6, <3>1, LocalType, Zenon
    <3> QED BY <3>2 DEF Local
  <2> HIDE DEF local, t
  <2>10. Len(s1) = m /\ \A i \in 1..m : s1[i].id = ls[i].id
    <3>1. ls \in Seq(Locals) /\ m \in 1..Len(ls) /\ t \in Types /\ m = Len(ls)
      BY <2>3, <2>4
    <3>2. s1 = [ls EXCEPT ![m].params = Append(@, t)]
      OBVIOUS
    <3> HIDE DEF s1, ls, m
    <3> QED BY <3>1, <3>2, ParamsType
  <2> HIDE DEF s1
  <2>11. /\ Len(s2) = L + 1 /\ L \in Nat
         /\ \A i \in 1..L : s2[i] = scopes[2][i]
         /\ s2[L + 1] = local
    BY <2>4, <2>9, AppendProperties
  <2> HIDE DEF s2
  <2>12. Len(scopes') = 2 /\ scopes'[1] = s1 /\ scopes'[2] = s2
    BY <2>2, <2>5
  <2> HIDE DEF m, ls, L
  <2>13. \A i \in 1..m : s1[i].id # "var"
    BY <2>10 DEF Layout, NoGlobals, IsVar, m, ls
  <2>14. ASSUME NEW i \in 1..Len(s2), s2[i].id = "var"
         PROVE  /\ s2[i].offset >= 16
                /\ s2[i].offset + TypeSize(s2[i].type) <= next.offset
                /\ s2[i].type # "unit"
                /\ s2[i].offset \in Int /\ TypeSize(s2[i].type) \in Nat
                /\ i # L + 1 => /\ i \in 1..L /\ IsVar(2, i) /\ s2[i] = scopes[2][i]
                                /\ s2[i].offset + TypeSize(s2[i].type) <= it.offset
    <3>1. CASE i = L + 1
      BY <1>3, <2>3, <2>6, <2>7, <2>9, <2>11, <3>1 DEF t
    <3>2. CASE i # L + 1
      <4>1. i \in 1..L /\ s2[i] = scopes[2][i] /\ 2 \in 1..Len(scopes) /\ i \in 1..Len(scopes[2])
        BY <2>2, <2>11, <3>2 DEF L
      <4>2. IsVar(2, i)
        BY <2>14, <4>1 DEF IsVar
      <4>3. s2[i].offset \in Int /\ TypeSize(s2[i].type) \in Nat
        BY <4>1, VarFields
      <4>4. s2[i].type # "unit"
        BY <4>1, <4>2 DEF Layout, VarsPlaced, Placed
      <4>5. s2[i].offset >= 16 /\ s2[i].offset + TypeSize(s2[i].type) <= it.offset
        BY <2>6, <4>1, <4>2
      <4> QED BY <2>3, <2>6, <2>7, <4>1, <4>2, <4>3, <4>4, <4>5
    <3> QED BY <3>1, <3>2
  <2>15. ASSUME NEW k \in 1..Len(scopes'), NEW i \in 1..Len(scopes'[k]), IsVar(k, i)'
         PROVE  k = 2 /\ i \in 1..Len(s2) /\ s2[i].id = "var" /\ scopes'[k][i] = s2[i]
    <3>1. k = 1 \/ k = 2
      BY <2>12
    <3>2. k # 1
      BY <2>10, <2>12, <2>13, <2>15 DEF IsVar
    <3> QED BY <2>12, <2>15, <3>1, <3>2 DEF IsVar
  <2>16. NoGlobals'
    BY <2>10, <2>12, <2>13 DEF NoGlobals, IsVar
  <2>17. VarsPlaced'
    <3>1. ASSUME NEW k \in 1..Len(scopes'), NEW i \in 1..Len(scopes'[k]), IsVar(k, i)'
          PROVE  Placed(scopes[k][i])'
      BY <2>14, <2>15, <3>1 DEF Placed
    <3> QED BY <3>1 DEF VarsPlaced
  <2>18. VarsApart'
    <3>1. ASSUME NEW k \in 1..Len(scopes'), NEW j \in 1..Len(scopes'),
                 NEW i \in 1..Len(scopes'[k]), NEW l \in 1..Len(scopes'[j]),
                 IsVar(k, i)', IsVar(j, l)', <<j, l>> # <<k, i>>
          PROVE  Apart(scopes'[k][i], scopes'[j][l])
      <4>1. /\ k = 2 /\ j = 2 /\ i \in 1..Len(s2) /\ l \in 1..Len(s2) /\ i # l
            /\ s2[i].id = "var" /\ s2[l].id = "var"
            /\ scopes'[k][i] = s2[i] /\ scopes'[j][l] = s2[l]
        BY <2>15, <3>1
      <4>2. CASE i # L + 1 /\ l # L + 1
        <5>1. /\ i \in 1..L /\ IsVar(2, i) /\ s2[i] = scopes[2][i]
              /\ l \in 1..L /\ IsVar(2, l) /\ s2[l] = scopes[2][l]
          BY <2>14, <4>1, <4>2
        <5>2. 2 \in 1..Len(scopes) /\ <<2, l>> # <<2, i>>
          BY <2>2, <4>1
        <5>3. Apart(scopes[2][i], scopes[2][l])
          BY <5>1, <5>2, Zenon DEF Layout, VarsApart, L
        <5> QED BY <4>1, <5>1, <5>3
      <4>3. CASE i = L + 1
        <5>1. s2[l].offset + TypeSize(s2[l].type) <= s2[i].offset
          BY <2>9, <2>11, <2>14, <4>1, <4>3
        <5> QED BY <4>1, <5>1 DEF Apart
      <4>4. CASE l = L + 1
        <5>1. s2[i].offset + TypeSize(s2[i].type) <= s2[l].offset
          BY <2>9, <2>11, <2>14, <4>1, <4>4
        <5> QED BY <4>1, <5>1 DEF Apart
      <4> QED BY <4>2, <4>3, <4>4
    <3> QED BY <3>1 DEF VarsApart, Apart
  <2>19. FrameBelow'
    BY <2>1, <2>6 DEF FrameBelow
  <2>20. ParamsUpwards'
    <3>1. next.offset >= 16
      BY <2>3, <2>6, <2>7
    <3> QED BY <2>8, <2>12, <2>14, <3>1 DEF ParamsUpwards, IsVar
  <2> QED BY <2>16, <2>17, <2>18, <2>19, <2>20 DEF Layout
<1> QED BY <1>2, <1>3

LEMMA PrologueLayout ==
    ASSUME SourceTypes, Shape, Layout, Prologue, SourceTypes'
    PROVE  Layout'
<1> DEFINE it    == Item("stmts")
           stmts == [it EXCEPT !.n = 1]
<1>1. Top.step = "params" /\ Become(<<stmts>>) /\ UNCHANGED <<scopes, offset_counter>>
  BY DEF Prologue, At
<1>2. stmts \in Items /\ stmts.step = "stmts"
  <2>1. "stmts" \in Steps
    BY DEF Steps
  <2>2. it \in Items /\ it.step = "stmts"
    BY <2>1, ItemType, Zenon
  <2> HIDE DEF it
  <2> QED BY <2>2 DEF Items
<1> HIDE DEF stmts
<1>3. Len(work') = 3 /\ Top' = stmts
  BY <1>1, <1>2, ParamsBecome, Zenon
<1>4. Top'.step # "params" /\ Len(work') > 1
  BY <1>2, <1>3
<1> QED BY <1>1, <1>4, SameScopes, QuietLayout

\* No variable outlives its function.
LEMMA EndFunLayout ==
    ASSUME SourceTypes, Shape, Layout, EndFun, SourceTypes'
    PROVE  Layout'
<1>1. Top.step = "endfun"
  BY DEF EndFun, At
<1>2. offset_counter' = 0 /\ scopes' = <<scopes[1]>> /\ work' = Front(work)
  BY DEF EndFun
<1>3. work \in Seq(Items) /\ Len(work) = 2
  BY <1>1, TopOutside, Zenon
<1>4. Top'.step # "params"
  <2>1. Len(work) >= 1 /\ Len(work) > 1
    BY <1>3
  <2>2. /\ work' \in Seq(Items) /\ Len(work') = Len(work) - 1
        /\ \A i \in 1..(Len(work) - 1) : work'[i] = work[i]
    BY <1>2, <1>3, <2>1, FrontType, Zenon DEF Front
  <2>3. Top' = work[1]
    BY <1>3, <2>2 DEF Top, Last
  <2>4. work[1].step = "decls"
    BY DEF Shape, Handlers
  <2> QED BY <2>3, <2>4
<1>5. Len(scopes') = 1 /\ scopes'[1] = scopes[1]
  BY <1>2
<1>6. ASSUME NEW k \in 1..Len(scopes'), NEW i \in 1..Len(scopes'[k]) PROVE ~IsVar(k, i)'
  <2>1. k = 1
    BY <1>5
  <2> QED BY <1>5, <2>1 DEF Layout, NoGlobals, IsVar
<1>7. NoGlobals' /\ VarsPlaced' /\ VarsApart'
  <2>1. 1 \in 1..Len(scopes')
    BY <1>5
  <2> QED BY <1>6, <2>1, Zenon DEF NoGlobals, VarsPlaced, VarsApart
<1>8. FrameBelow' /\ ParamsUpwards'
  BY <1>2, <1>4 DEF FrameBelow, ParamsUpwards
<1> QED BY <1>7, <1>8 DEF Layout

LEMMA InitialLayout == Afresh => Layout
<1> SUFFICES ASSUME Afresh PROVE Layout
  OBVIOUS
<1>1. \A i \in 1..Len(SysFuns) : SysFuns[i].id = "sysfun"
  <2>1. \A i \in 1..4 : SysFuns[i].id = "sysfun"
    <3>1. /\ SysFuns[1].id = "sysfun" /\ SysFuns[2].id = "sysfun"
          /\ SysFuns[3].id = "sysfun" /\ SysFuns[4].id = "sysfun"
      BY DEF SysFuns, Local
    <3> QED BY <3>1
  <2>2. Len(SysFuns) = 4
    BY DEF SysFuns
  <2> QED BY <2>1, <2>2
<1>2. Len(scopes) = 1 /\ scopes[1] = SysFuns
  <2> HIDE DEF SysFuns
  <2> QED BY DEF Afresh
<1>3. ASSUME NEW k \in 1..Len(scopes), NEW i \in 1..Len(scopes[k]) PROVE ~IsVar(k, i)
  <2>1. k = 1
    BY <1>2
  <2>2. scopes[1][i].id = "sysfun"
    BY <1>1, <1>2, <2>1
  <2> QED BY <2>1, <2>2 DEF IsVar
<1>4. NoGlobals /\ VarsPlaced /\ VarsApart
  <2>1. 1 \in 1..Len(scopes)
    BY <1>2
  <2> QED BY <1>3, <2>1, Zenon DEF NoGlobals, VarsPlaced, VarsApart
<1>5. Top.step = "decls"
  <2>1. "decls" \in Steps
    BY DEF Steps
  <2> DEFINE it == Item("decls")
  <2>2. it.step = "decls"
    BY <2>1, ItemType, Zenon
  <2>3. work = <<it>>
    BY DEF Afresh
  <2> HIDE DEF it
  <2> QED BY <2>2, <2>3 DEF Top, Last
<1>6. FrameBelow /\ ParamsUpwards
  BY <1>5 DEF Afresh, FrameBelow, ParamsUpwards
<1> QED BY <1>4, <1>6 DEF Layout

LEMMA LayoutStep ==
    ASSUME SourceTypes, Shape, Layout, [Next]_vars
    PROVE  Layout'
<1>1. Kept /\ SourceTypes'
  BY ShapeStep DEF Kept
<1>2. CASE UNCHANGED vars
  BY <1>2, SameLayout DEF vars
<1>3. CASE Statement \/ Expression
  <2>1. Top'.step # "params" /\ Len(work') > 1
    BY <1>1, <1>3, StatementScopes DEF Kept
  <2>2. CASE EndVar
    BY <1>1, <2>1, <2>2, EndVarLayout, Zenon
  <2>3. CASE NothingNew /\ UNCHANGED offset_counter
    BY <1>1, <2>1, <2>3, QuietLayout
  <2> QED BY <1>3, <2>2, <2>3, StatementScopes, Zenon
<1>4. CASE Declaration
  <2>1. DeclareVar \/ EndProgram => Layout'
    BY SameLayout DEF DeclareVar, Fail, EndProgram
  <2> QED BY <1>1, <1>4, <2>1, DeclareFunLayout, AddParamLayout, PrologueLayout, EndFunLayout,
             Zenon DEF Declaration
<1> QED BY <1>2, <1>3, <1>4 DEF Next, Compiled

-----------------------------------------------------------------------------
(* The theorem.                                                            *)

LEMMA LayoutDisjoint ==
    ASSUME SourceTypes, Layout
    PROVE  SlotsDisjoint
<1>1. ASSUME NEW k \in 1..Len(scopes), NEW i \in 1..Len(scopes[k]), IsVar(k, i)
      PROVE  /\ Slot(scopes[k][i]) \cap Links = {}
             /\ scopes[k][i].offset < 16 => Slot(scopes[k][i]) \subseteq 0..(-offset_counter - 1)
  <2> DEFINE o == scopes[k][i].offset
             z == TypeSize(scopes[k][i].type)
  <2>1. o \in Int /\ z \in Nat /\ offset_counter \in Int
    BY VarFields DEF SourceTypes
  <2>2. o >= 16 \/ (o >= offset_counter /\ o + z <= 0)
    BY <1>1 DEF Layout, VarsPlaced, Placed
  <2>3. Slot(scopes[k][i]) = (-o - z)..(-o - 1)
    BY DEF Slot
  <2> HIDE DEF o, z
  <2>4. ((-o - z)..(-o - 1)) \cap (-16..-1) = {}
    BY <2>1, <2>2
  <2>5. o < 16 => (-o - z)..(-o - 1) \subseteq 0..(-offset_counter - 1)
    BY <2>1, <2>2
  <2> QED BY <2>3, <2>4, <2>5 DEF Links, o
<1>2. ASSUME NEW k \in 1..Len(scopes), NEW i \in 1..Len(scopes[k]), IsVar(k, i),
             NEW m \in 1..Len(scopes), NEW j \in 1..Len(scopes[m]), IsVar(m, j),
             <<m, j>> # <<k, i>>
      PROVE  Slot(scopes[k][i]) \cap Slot(scopes[m][j]) = {}
  <2> DEFINE o1 == scopes[k][i].offset
             z1 == TypeSize(scopes[k][i].type)
             o2 == scopes[m][j].offset
             z2 == TypeSize(scopes[m][j].type)
  <2>1. o1 \in Int /\ z1 \in Nat /\ o2 \in Int /\ z2 \in Nat
    BY VarFields
  <2>2. Apart(scopes[k][i], scopes[m][j])
    BY <1>2, Zenon DEF Layout, VarsApart
  <2>3. o1 + z1 <= o2 \/ o2 + z2 <= o1
    BY <2>2 DEF Apart
  <2>4. /\ Slot(scopes[k][i]) = (-o1 - z1)..(-o1 - 1)
        /\ Slot(scopes[m][j]) = (-o2 - z2)..(-o2 - 1)
    BY DEF Slot
  <2> HIDE DEF o1, o2, z1, z2
  <2>5. ((-o1 - z1)..(-o1 - 1)) \cap ((-o2 - z2)..(-o2 - 1)) = {}
    BY <2>1, <2>3
  <2> QED BY <2>4, <2>5, Zenon
<1> QED BY <1>1, <1>2 DEF SlotsDisjoint

\* However scopes are opened, closed and shadowed, two variables in scope never
\* share a byte of the frame, none lies on the return address or the saved base
\* pointer, and none lies beyond what the prologue will reserve: what gh_emit_var,
\* gh_emit_block and the parameter loop of gh_emit_fun achieve together with the
\* one offset_counter.
THEOREM FramesDisjoint == Spec => []SlotsDisjoint
<1>1. Init => SourceTypes /\ Shape /\ Layout
  BY InitialSource, InitialShape, InitialLayout
<1>2. SourceTypes /\ Shape /\ Layout /\ [Next]_vars => (SourceTypes /\ Shape /\ Layout)'
  BY ShapeStep, LayoutStep DEF Kept
<1>3. SourceTypes /\ Layout => SlotsDisjoint
  BY LayoutDisjoint
<1> QED BY <1>1, <1>2, <1>3, PTL DEF Spec

=============================================================================
