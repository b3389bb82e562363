----------------------- MODULE GalachCodegenBranches ------------------------
(***************************************************************************)
(* JumpsLand is an invariant of the code generator, for every value of its *)
(* constants.                                                              *)
(*                                                                         *)
(* The inductive invariant is Branches, on top of SourceTypes /\ Shape:    *)
(* the code of complete functions lies below the one being emitted and is  *)
(* not written any more, and in that one every jump goes to an instruction *)
(* of the body already, or is waited for by a handler that will patch it.  *)
(* When the function ends no handler is left, so none is.                  *)
(***************************************************************************)
EXTENDS GalachCodegenFrames

-----------------------------------------------------------------------------
(* What emitting and patching leave.                                       *)

\* c has the instructions of b, and behind them some of S.
Extends(b, c, S) ==
    /\ BytesOK(c)
    /\ b.used <= c.used
    /\ DOMAIN b.code \subseteq DOMAIN c.code
    /\ \A x \in DOMAIN b.code : c.code[x] = b.code[x]
    /\ \A x \in DOMAIN c.code : x \in DOMAIN b.code \/ (x >= b.used /\ c.code[x] \in S)
    /\ b.used \in DOMAIN c.code \cup {c.used}

LEMMA EmitExtends ==
    ASSUME NEW b, BytesOK(b), NEW S, NEW i \in S, i \in InstrRecords
    PROVE  /\ Extends(b, Emit(b, i), S)
           /\ b.used \in DOMAIN Emit(b, i).code /\ Emit(b, i).code[b.used] = i
           /\ Emit(b, i).used = b.used + Length(i)
<1> DEFINE c == Emit(b, i)
<1>1. BytesOK(c) /\ c.used >= b.used /\ b.used \in Nat /\ c.used \in Nat
  BY EmitType DEF BytesOK
<1>2. /\ c.code = [x \in DOMAIN b.code \cup {b.used} |-> IF x = b.used THEN i ELSE b.code[x]]
      /\ c.used = b.used + Length(i)
  BY DEF Emit
<1>3. b.used \notin DOMAIN b.code
  BY <1>1 DEF BytesOK
<1> HIDE DEF c
<1>4. /\ DOMAIN c.code = DOMAIN b.code \cup {b.used}
      /\ \A x \in DOMAIN b.code : c.code[x] = b.code[x]
      /\ c.code[b.used] = i
  BY <1>2, <1>3
<1> QED BY <1>1, <1>2, <1>4 DEF Extends, c

LEMMA ExtendsTransitive ==
    ASSUME NEW S, NEW b, NEW c, NEW d, BytesOK(b), Extends(b, c, S), Extends(c, d, S)
    PROVE  Extends(b, d, S)
<1>1. b.used \in Nat /\ c.used \in Nat /\ d.used \in Nat
  BY DEF Extends, BytesOK
<1>2. BytesOK(d) /\ b.used <= d.used /\ DOMAIN b.code \subseteq DOMAIN d.code
  BY <1>1 DEF Extends
<1>3. \A x \in DOMAIN b.code : d.code[x] = b.code[x]
  BY DEF Extends
<1>4. ASSUME NEW x \in DOMAIN d.code
      PROVE  x \in DOMAIN b.code \/ (x >= b.used /\ d.code[x] \in S)
  <2>1. x \in Nat
    BY DEF Extends, BytesOK
  <2> QED BY <1>1, <2>1 DEF Extends
<1>5. b.used \in DOMAIN d.code \cup {d.used}
  BY DEF Extends
<1> QED BY <1>2, <1>3, <1>4, <1>5 DEF Extends

LEMMA ExtendsReflexive ==
    ASSUME NEW S, NEW b, BytesOK(b)
    PROVE  Extends(b, b, S)
  BY DEF Extends, BytesOK

\* EmitAll adds its instructions behind the code; the first is where the code ended.
LEMMA EmitAllExtends ==
    ASSUME NEW b, BytesOK(b), NEW S, S \subseteq InstrRecords, NEW s \in Seq(S)
    PROVE  /\ Extends(b, EmitAll(b, s), S)
           /\ s # <<>> => /\ b.used \in DOMAIN EmitAll(b, s).code
                          /\ EmitAll(b, s).code[b.used] = s[1]
<1> DEFINE step(c, k) == IF k <= Len(s) THEN Emit(c, s[k]) ELSE c
<1>1. ASSUME NEW c, BytesOK(c), NEW k \in 1..5
      PROVE  BytesOK(step(c, k)) /\ Extends(c, step(c, k), S)
  <2>1. CASE k <= Len(s)
    <3>1. s[k] \in S /\ s[k] \in InstrRecords
      BY <2>1
    <3>2. Extends(c, Emit(c, s[k]), S)
      BY <1>1, <3>1, EmitExtends
    <3> QED BY <2>1, <3>2 DEF Extends
  <2>2. CASE ~(k <= Len(s))
    BY <1>1, <2>2, ExtendsReflexive
  <2> QED BY <2>1, <2>2
<1> DEFINE c1 == step(b, 1)
           c2 == step(c1, 2)
           c3 == step(c2, 3)
           c4 == step(c3, 4)
           c5 == step(c4, 5)
<1>2. EmitAll(b, s) = c5
  BY DEF EmitAll
<1>3. s # <<>> => b.used \in DOMAIN c1.code /\ c1.code[b.used] = s[1]
  <2>1. SUFFICES ASSUME s # <<>> PROVE b.used \in DOMAIN c1.code /\ c1.code[b.used] = s[1]
    OBVIOUS
  <2>2. 1 <= Len(s) /\ s[1] \in S /\ s[1] \in InstrRecords
    BY <2>1
  <2>3. c1 = Emit(b, s[1])
    BY <2>2
  <2> HIDE DEF c1
  <2> QED BY <2>2, <2>3, EmitExtends
<1> HIDE DEF step
<1>4. BytesOK(c1) /\ Extends(b, c1, S)
  BY <1>1
<1>5. BytesOK(c2) /\ Extends(c1, c2, S)
  BY <1>1, <1>4
<1>6. BytesOK(c3) /\ Extends(c2, c3, S)
  BY <1>1, <1>5
<1>7. BytesOK(c4) /\ Extends(c3, c4, S)
  BY <1>1, <1>6
<1>8. BytesOK(c5) /\ Extends(c4, c5, S)
  BY <1>1, <1>7
<1> HIDE DEF c1, c2, c3, c4, c5
<1>9. Extends(c1, c5, S)
  BY <1>4, <1>5, <1>6, <1>7, <1>8, ExtendsTransitive
<1>10. Extends(b, c5, S)
  BY <1>4, <1>9, ExtendsTransitive
<1> QED BY <1>2, <1>3, <1>9, <1>10 DEF Extends

\* A patch changes one operand.
LEMMA PatchChanges ==
    ASSUME NEW b, BytesOK(b), NEW x, NEW arg \in Int
    PROVE  LET c == Patch(b, x, arg) IN
           /\ BytesOK(c)
           /\ c.used = b.used
           /\ DOMAIN c.code = DOMAIN b.code
           /\ \A y \in DOMAIN b.code : /\ c.code[y].op = b.code[y].op
                                       /\ c.code[y].w = b.code[y].w
                                       /\ y # x => c.code[y] = b.code[y]
                                       /\ y = x => c.code[y].arg = arg
<1> DEFINE c == Patch(b, x, arg)
<1>1. BytesOK(c) /\ c.used = b.used
  BY PatchType
<1>2. c.code = [b.code EXCEPT ![x] = [b.code[x] EXCEPT !.arg = arg]]
  BY DEF BytesOK, Patch
<1>3. DOMAIN c.code = DOMAIN b.code
  <2> HIDE DEF c
  <2> QED BY <1>2
<1>4. ASSUME NEW y \in DOMAIN b.code
      PROVE  /\ c.code[y].op = b.code[y].op
             /\ c.code[y].w = b.code[y].w
             /\ y # x => c.code[y] = b.code[y]
             /\ y = x => c.code[y].arg = arg
  <2> HIDE DEF c
  <2>1. b.code[y] \in InstrRecords
    BY DEF BytesOK
  <2>2. CASE y = x
    <3>1. c.code[y] = [b.code[y] EXCEPT !.arg = arg]
      BY <1>2, <2>2
    <3> QED BY <2>1, <2>2, <3>1 DEF InstrRecords
  <2>3. CASE y # x
    BY <1>2, <2>3
  <2> QED BY <2>2, <2>3
<1> QED BY <1>1, <1>3, <1>4

-----------------------------------------------------------------------------
(* What the handlers emit and leave.                                       *)

\* Instructions that neither branch nor access the frame, and those that do not
\* branch.
Mute == {i \in InstrRecords : i.op \notin Jumps \cup Accesses}
Calm == {i \in InstrRecords : i.op \notin Jumps}

Emits(S) == \E s \in Seq(S) : bytes' = EmitAll(bytes, s)

\* Handlers that have a branch, and a store, before them.
Branching == {"whilejz", "ifjmp", "endif", "endwhile"}
Storing   == {"store", "endassgn"}
Pending   == Branching \cup Storing

\* The stack but for its top stays, and no handler of the steps T comes upon it.
Leaves(T) ==
    /\ Len(work') \in Nat /\ Len(work') >= Len(work) - 1
    /\ \A i \in 1..(Len(work) - 1) : work'[i] = work[i]
    /\ \A i \in Len(work)..Len(work') : work'[i].step \notin T

LEMMA EmitsNone == ASSUME SourceTypes, UNCHANGED bytes, NEW S, S \subseteq InstrRecords PROVE Emits(S)
<1>1. EmitAll(bytes, <<>>) = bytes
  <2>1. Len(<<>>) = 0
    OBVIOUS
  <2> QED BY <2>1 DEF EmitAll
<1>2. <<>> \in Seq(S)
  OBVIOUS
<1> QED BY <1>1, <1>2 DEF Emits

LEMMA MuteInstr ==
    ASSUME NEW op \in Ops, op \notin Jumps \cup Accesses, NEW w \in Widths \cup {0}, NEW arg \in Int
    PROVE  Instr(op, w, arg) \in Mute
<1>1. Instr(op, w, arg) \in InstrRecords
  BY InstrType
<1> QED BY <1>1 DEF Mute, Instr

LEMMA MuteOps ==
    \A op \in ArithOps \cup SetOps \cup UnaryOps
               \cup {"mov_imm", "leave", "ret", "push", "cmp", "call", "sysfun", "add_sp"} :
        op \in Ops /\ op \notin Jumps \cup Accesses
  BY DEF Ops, ArithOps, SetOps, UnaryOps, WithOperand, Jumps, Accesses

LEMMA MuteShort ==
    ASSUME NEW op \in {"leave", "ret"} \cup SetOps
    PROVE  Instr(op, 0, 0) \in Mute
<1>1. op \in Ops /\ op \notin Jumps \cup Accesses
  BY MuteOps
<1>2. 0 \in Widths \cup {0} /\ 0 \in Int
  OBVIOUS
<1> QED BY <1>1, <1>2, MuteInstr, Zenon

LEMMA CalmInstr ==
    ASSUME NEW op \in Ops, op \notin Jumps, NEW w \in Widths \cup {0}, NEW arg \in Int
    PROVE  Instr(op, w, arg) \in Calm
<1>1. Instr(op, w, arg) \in InstrRecords
  BY InstrType
<1> QED BY <1>1 DEF Calm, Instr

LEMMA MuteCast ==
    ASSUME NEW from \in Types, NEW to \in Types, ~CastFails(from, to)
    PROVE  CastCode(from, to) \in Seq(Mute)
<1> DEFINE lo == WidthIdx(TypeSize(from))
           n  == WidthIdx(TypeSize(to)) - lo
           op(k) == IF IsSigned(to) /\ (k > 1 \/ IsSigned(from)) THEN "sext" ELSE "zext"
           s  == CastCode(from, to)
<1>1. s \in Seq(InstrRecords)
  BY CastType
<1>2. s = [k \in 1..n |-> Instr(op(k), Widths4[lo + k - 1], 0)]
  BY DEF CastCode
<1> HIDE DEF s, n, lo
<1>3. ASSUME NEW k \in 1..Len(s) PROVE s[k] \in Mute
  <2>1. s[k] \in InstrRecords /\ k \in DOMAIN s
    BY <1>1
  <2>2. s[k] = Instr(op(k), Widths4[lo + k - 1], 0)
    BY <1>2, <2>1
  <2>3. s[k].op \in {"sext", "zext"}
    BY <2>2 DEF Instr
  <2> QED BY <2>1, <2>3 DEF Mute, Jumps, Accesses
<1>4. s \in Seq(Mute)
  BY <1>1, <1>3
<1> QED BY <1>4 DEF s

LEMMA LeavesNone ==
    ASSUME SourceTypes, work' = Front(work), NEW T
    PROVE  Leaves(T)
<1>1. work \in Seq(Items) /\ Len(work) >= 1 /\ Len(work) \in Nat
  BY DEF SourceTypes
<1>2. /\ Len(work') = Len(work) - 1
      /\ \A i \in 1..(Len(work) - 1) : work'[i] = work[i]
  BY <1>1, FrontType, Zenon DEF Front
<1> QED BY <1>1, <1>2 DEF Leaves

LEMMA LeavesSame ==
    ASSUME SourceTypes, UNCHANGED work, NEW T, Top.step \notin T
    PROVE  Leaves(T)
<1>1. work \in Seq(Items) /\ Len(work) >= 1 /\ Len(work) \in Nat /\ Top = work[Len(work)]
  BY DEF SourceTypes, Top, Last
<1> QED BY <1>1 DEF Leaves

LEMMA LeavesItems ==
    ASSUME SourceTypes, NEW items \in Seq(Items), Become(items), NEW T,
           \A j \in 1..Len(items) : items[j].step \notin T
    PROVE  Leaves(T)
<1>1. work \in Seq(Items) /\ Len(work) >= 1 /\ Len(work) \in Nat
  BY DEF SourceTypes
<1> DEFINE n == Len(work)
           m == Len(work')
           l == Len(items)
<1>2. /\ m \in Nat /\ l \in Nat /\ m = n - 1 + l
      /\ \A i \in 1..m : work'[i] = IF i < n THEN work[i] ELSE items[i - (n - 1)]
  BY <1>1, BecomeSeq
<1>3. n \in Nat /\ n >= 1
  BY <1>1
<1> HIDE DEF n, m, l
<1>4. \A i \in 1..(n - 1) : work'[i] = work[i]
  BY <1>2, <1>3
<1>5. ASSUME NEW i \in n..m PROVE work'[i].step \notin T
  <2>1. i - (n - 1) \in 1..l /\ work'[i] = items[i - (n - 1)]
    BY <1>2, <1>3
  <2> QED BY <2>1 DEF l
<1> QED BY <1>2, <1>3, <1>4, <1>5 DEF Leaves, n, m

\* The items a handler leaves, one by one.
LEMMA LeavesOne ==
    ASSUME SourceTypes, NEW T, NEW a \in Items, Become(<<a>>), a.step \notin T
    PROVE  Leaves(T)
<1> DEFINE s == <<a>>
<1>1. s \in Seq(Items) /\ \A j \in 1..Len(s) : s[j].step \notin T
  OBVIOUS
<1> QED BY <1>1, LeavesItems

LEMMA LeavesTwo ==
    ASSUME SourceTypes, NEW T, NEW a \in Items, NEW b \in Items, Become(<<a, b>>),
           a.step \notin T, b.step \notin T
    PROVE  Leaves(T)
<1> DEFINE s == <<a, b>>
<1>1. s \in Seq(Items) /\ \A j \in 1..Len(s) : s[j].step \notin T
  OBVIOUS
<1> QED BY <1>1, LeavesItems

LEMMA LeavesThree ==
    ASSUME SourceTypes, NEW T, NEW a \in Items, NEW b \in Items, NEW c \in Items,
           Become(<<a, b, c>>), a.step \notin T, b.step \notin T, c.step \notin T
    PROVE  Leaves(T)
<1> DEFINE s == <<a, b, c>>
<1>1. s \in Seq(Items) /\ \A j \in 1..Len(s) : s[j].step \notin T
  OBVIOUS
<1> QED BY <1>1, LeavesItems

LEMMA LeavesFour ==
    ASSUME SourceTypes, NEW T, NEW a \in Items, NEW b \in Items, NEW c \in Items, NEW d \in Items,
           Become(<<a, b, c, d>>),
           a.step \notin T, b.step \notin T, c.step \notin T, d.step \notin T
    PROVE  Leaves(T)
<1> DEFINE s == <<a, b, c, d>>
<1>1. s \in Seq(Items) /\ \A j \in 1..Len(s) : s[j].step \notin T
  OBVIOUS
<1> QED BY <1>1, LeavesItems

LEMMA EmitsOne ==
    ASSUME NEW S, NEW i \in S, bytes' = EmitAll(bytes, <<i>>)
    PROVE  Emits(S)
<1>1. <<i>> \in Seq(S)
  OBVIOUS
<1> QED BY <1>1 DEF Emits

LEMMA EmitsTwo ==
    ASSUME NEW S, NEW i \in S, NEW j \in S, bytes' = EmitAll(bytes, <<i, j>>)
    PROVE  Emits(S)
<1>1. <<i, j>> \in Seq(S)
  OBVIOUS
<1> QED BY <1>1 DEF Emits

LEMMA EmitsBoth ==
    ASSUME NEW S, NEW s \in Seq(S), NEW t \in Seq(S), bytes' = EmitAll(bytes, s \o t)
    PROVE  Emits(S)
<1>1. s \o t \in Seq(S)
  OBVIOUS
<1> QED BY <1>1 DEF Emits

-----------------------------------------------------------------------------
(* The handlers that neither branch nor access the frame.                  *)

Quiet == Emits(Mute) /\ Leaves(Pending)

LEMMA MuteInstrs == Mute \subseteq InstrRecords /\ Calm \subseteq InstrRecords /\ Mute \subseteq Calm
  BY DEF Mute, Calm

LEMMA QuietSame ==
    ASSUME SourceTypes, UNCHANGED bytes
    PROVE  Emits(Mute) /\ Emits(Calm)
  BY EmitsNone, MuteInstrs

LEMMA PendingSteps ==
    \A step \in {"stmts", "endscope", "endvar", "ifjz", "endreturn", "expr", "args", "endarg",
                 "endunary", "push", "endbin"} : step \in Steps /\ step \notin Pending
  BY DEF Steps, Pending, Branching, Storing

LEMMA NumberedItem ==
    ASSUME NEW it \in Items, NEW n \in Nat
    PROVE  [it EXCEPT !.n = n] \in Items /\ [it EXCEPT !.n = n].step = it.step
  BY DEF Items

LEMMA NamedItem ==
    ASSUME NEW it \in Items, NEW word \in Names \cup Operators
    PROVE  [it EXCEPT !.word = word] \in Items /\ [it EXCEPT !.word = word].step = it.step
  BY DEF Items

\* What is left of a list of statements, and one in a scope of its own.
LEMMA MoreItem ==
    ASSUME SourceTypes, Shape, Top.step = "stmts"
    PROVE  More \in Items /\ More.step \notin Pending
<1>1. Top \in Items
  BY TopInFunction, Zenon
<1>2. [Top EXCEPT !.n = 1] \in Items /\ [Top EXCEPT !.n = 1].step = Top.step
  <2>1. 1 \in Nat
    OBVIOUS
  <2> QED BY <1>1, <2>1, NumberedItem, Zenon
<1> QED BY <1>2, PendingSteps DEF More

LEMMA BodyItems ==
    ASSUME SourceTypes
    PROVE  /\ CloseScope \in Items /\ CloseScope.step \notin Pending
           /\ Item("stmts") \in Items /\ Item("stmts").step \notin Pending
<1> DEFINE n  == Len(scopes) + 1
           it == Item("endscope")
<1>1. n \in Nat
  BY DEF SourceTypes
<1>2. it \in Items /\ it.step = "endscope"
  BY ItemType, PendingSteps
<1> HIDE DEF it
<1>3. [it EXCEPT !.n = n] \in Items /\ [it EXCEPT !.n = n].step = it.step
  BY <1>1, <1>2, NumberedItem, Zenon
<1> QED BY <1>2, <1>3, ItemType, PendingSteps DEF CloseScope, it

\* An item with a type pointer.
LEMMA CellItems ==
    ASSUME NEW step \in {"ifjz", "endreturn", "expr"}, NEW c \in Nat
    PROVE  ItemWith(step, c) \in Items /\ ItemWith(step, c).step \notin Pending
<1>1. step \in Steps /\ step \notin Pending
  BY PendingSteps
<1> QED BY <1>1, CellItem

LEMMA NamedItems ==
    ASSUME NEW step \in {"endvar", "endunary", "push"}, NEW c \in Nat,
           NEW word \in Names \cup Operators
    PROVE  LET it == [ItemWith(step, c) EXCEPT !.word = word]
           IN  it \in Items /\ it.step \notin Pending
<1> DEFINE it == ItemWith(step, c)
<1>1. step \in Steps /\ step \notin Pending
  BY PendingSteps
<1>2. it \in Items /\ it.step = step
  BY <1>1, CellItem
<1> HIDE DEF it
<1>3. [it EXCEPT !.word = word] \in Items /\ [it EXCEPT !.word = word].step = it.step
  BY <1>2, NamedItem, Zenon
<1> QED BY <1>1, <1>2, <1>3 DEF it

LEMMA QuietStatements ==
    ASSUME SourceTypes, Shape,
           EndStmts \/ EndScope \/ EndReturn \/ EmitIf \/ EmitBlock \/ EmitMatch \/ EmitExprStmt
    PROVE  Fail \/ Quiet
<1>1. CASE EndStmts
  BY <1>1, QuietSame, LeavesNone DEF EndStmts, Quiet
<1>2. CASE EndScope
  BY <1>2, QuietSame, LeavesNone DEF EndScope, Quiet
<1>3. CASE EndReturn
  <2>1. SUFFICES ASSUME ~Fail PROVE Quiet
    OBVIOUS
  <2> DEFINE cast == CastCode(Cell, fun_ret_type)
             tail == <<Instr("leave", 0, 0), Instr("ret", 0, 0)>>
  <2>2. /\ ~CastFails(Cell, fun_ret_type)
        /\ bytes' = EmitAll(bytes, cast \o tail)
        /\ work' = Front(work)
    BY <1>3, <2>1 DEF EndReturn
  <2>3. Top.step \in CellSteps
    BY <1>3 DEF EndReturn, At, CellSteps
  <2>4. cast \in Seq(Mute)
    BY <2>2, <2>3, CellType, MuteCast DEF SourceTypes
  <2>5. Instr("leave", 0, 0) \in Mute /\ Instr("ret", 0, 0) \in Mute
    BY MuteShort, Zenon
  <2>6. tail \in Seq(Mute)
    <3> HIDE DEF cast
    <3> QED BY <2>5
  <2> HIDE DEF cast, tail
  <2> QED BY <2>2, <2>4, <2>6, EmitsBoth, LeavesNone DEF Quiet
<1>4. CASE EmitIf
  <2>1. Top.step = "stmts" /\ NewCell \in Nat
    BY <1>4 DEF EmitIf, At, NewCell, SourceTypes
  <2>2. UNCHANGED bytes
    BY <1>4 DEF EmitIf
  <2>3. Become(<<More, ItemWith("ifjz", NewCell), ItemWith("expr", NewCell)>>)
    BY <1>4 DEF EmitIf
  <2> QED BY <2>1, <2>2, <2>3, MoreItem, CellItems, LeavesThree, QuietSame, Zenon DEF Quiet
<1>5. CASE EmitBlock
  <2>1. Top.step = "stmts" /\ UNCHANGED bytes
    BY <1>5 DEF EmitBlock, At
  <2>2. Become(<<More, CloseScope, Item("stmts")>>)
    BY <1>5 DEF EmitBlock
  <2> QED BY <2>1, <2>2, MoreItem, BodyItems, LeavesThree, QuietSame, Zenon DEF Quiet
<1>6. CASE EmitMatch
  <2>1. Top.step = "stmts" /\ UNCHANGED bytes
    BY <1>6 DEF EmitMatch, At
  <2>2. Become(<<More>>)
    BY <1>6 DEF EmitMatch
  <2> QED BY <2>1, <2>2, MoreItem, LeavesOne, QuietSame, Zenon DEF Quiet
<1>7. CASE EmitExprStmt
  <2>1. Top.step = "stmts" /\ UNCHANGED bytes /\ NewCell \in Nat
    BY <1>7 DEF EmitExprStmt, At, NewCell, SourceTypes
  <2>2. Become(<<More, ItemWith("expr", NewCell)>>)
    BY <1>7 DEF EmitExprStmt
  <2> QED BY <2>1, <2>2, MoreItem, CellItems, LeavesTwo, QuietSame, Zenon DEF Quiet
<1> QED BY <1>1, <1>2, <1>3, <1>4, <1>5, <1>6, <1>7

LEMMA EmitVarQuiet ==
    ASSUME SourceTypes, Shape, NEW name \in VarNames, NEW t \in VarTypes, NEW init \in BOOLEAN,
           EmitVar(name, t, init)
    PROVE  Quiet
<1> DEFINE end == [ItemWith("endvar", NewCell) EXCEPT !.word = name]
           ex  == ItemWith("expr", NewCell)
<1>1. Top.step = "stmts" /\ NewCell \in Nat
  BY DEF EmitVar, At, NewCell, SourceTypes
<1>2. More \in Items /\ More.step \notin Pending
  BY <1>1, MoreItem, Zenon
<1>3. name \in Names \cup Operators
  BY SourceAssumption DEF Names
<1>4. end \in Items /\ end.step \notin Pending
  BY <1>1, <1>3, NamedItems, Zenon
<1>5. ex \in Items /\ ex.step \notin Pending
  BY <1>1, CellItems, Zenon
<1>6. CASE init
  <2>1. UNCHANGED bytes /\ Become(<<More, end, ex>>)
    BY <1>6 DEF EmitVar
  <2> HIDE DEF end, ex
  <2> QED BY <1>2, <1>4, <1>5, <2>1, LeavesThree, QuietSame, Zenon DEF Quiet
<1>7. CASE ~init
  <2>1. bytes' = EmitAll(bytes, <<Instr("mov_imm", 8, 0)>>) /\ Become(<<More, end>>)
    BY <1>7 DEF EmitVar
  <2>2. Instr("mov_imm", 8, 0) \in Mute
    <3>1. "mov_imm" \in Ops /\ "mov_imm" \notin Jumps \cup Accesses
      BY MuteOps
    <3>2. 8 \in Widths \cup {0} /\ 0 \in Int
      BY DEF Widths
    <3> QED BY <3>1, <3>2, MuteInstr, Zenon
  <2> HIDE DEF end, ex
  <2> QED BY <1>2, <1>4, <2>1, <2>2, LeavesTwo, EmitsOne, Zenon DEF Quiet
<1> QED BY <1>6, <1>7

LEMMA EmitReturnQuiet ==
    ASSUME SourceTypes, Shape, NEW expr \in BOOLEAN, EmitReturn(expr)
    PROVE  Quiet
<1>1. Top.step = "stmts" /\ NewCell \in Nat
  BY DEF EmitReturn, At, NewCell, SourceTypes
<1>2. More \in Items /\ More.step \notin Pending
  BY <1>1, MoreItem, Zenon
<1>3. CASE expr
  <2>1. UNCHANGED bytes
    BY <1>3 DEF EmitReturn
  <2>2. Become(<<More, ItemWith("endreturn", NewCell), ItemWith("expr", NewCell)>>)
    BY <1>3 DEF EmitReturn
  <2> QED BY <1>1, <1>2, <2>1, <2>2, CellItems, LeavesThree, QuietSame, Zenon DEF Quiet
<1>4. CASE ~expr
  <2>1. /\ bytes' = EmitAll(bytes, <<Instr("leave", 0, 0), Instr("ret", 0, 0)>>)
        /\ Become(<<More>>)
    BY <1>4 DEF EmitReturn
  <2> QED BY <1>2, <2>1, MuteShort, LeavesOne, EmitsTwo, Zenon DEF Quiet
<1> QED BY <1>3, <1>4

\* One instruction of the width of a type.
LEMMA MuteWide ==
    ASSUME NEW op \in ArithOps \cup UnaryOps \cup {"mov_imm", "push", "cmp"},
           NEW t \in Types, NEW arg \in Int
    PROVE  Instr(op, TypeSize(t), arg) \in Mute
<1>1. op \in Ops /\ op \notin Jumps \cup Accesses
  BY MuteOps
<1>2. TypeSize(t) \in Widths \cup {0}
  BY SizeOfType, Zenon
<1> QED BY <1>1, <1>2, MuteInstr, Zenon

LEMMA LiteralQuiet ==
    ASSUME SourceTypes, Shape, NEW id \in {"int", "float", "string"},
           NEW v \in Literals \cup FloatImages, Literal(id, v)
    PROVE  Fail \/ Quiet
<1> DEFINE t == Infer(IF id = "float" THEN "f32" ELSE "i32")
           w == TypeSize(t)
<1>1. Top.step = "expr"
  BY DEF Literal, At
<1>2. t \in Types /\ t # "unit"
  <2>1. (IF id = "float" THEN "f32" ELSE "i32") \in Types \ {"unit"}
    BY DEF Types, FloatTypes, IntTypes
  <2> QED BY <1>1, <2>1, ExprCell DEF Infer
<1>3. \/ Fail
      \/ bytes' = EmitAll(bytes, <<Instr("mov_imm", w, v % Cap(w))>>) /\ work' = Front(work)
  BY DEF Literal
<1>4. Instr("mov_imm", w, v % Cap(w)) \in Mute
  <2>1. w \in Widths
    BY <1>2, SizeOfType
  <2> HIDE DEF t
  <2>2. v % Cap(w) \in Int
    <3> HIDE DEF w
    <3> QED BY <2>1, ImmediateType, SourceAssumption
  <2> QED BY <1>2, <2>2, MuteWide, Zenon
<1> HIDE DEF t, w
<1> QED BY <1>3, <1>4, EmitsOne, LeavesNone, Zenon DEF Quiet

LEMMA CallQuiet ==
    ASSUME SourceTypes, Shape, NEW name \in UsedNames, NEW nargs \in 0..MaxArgs, Call(name, nargs)
    PROVE  Quiet \/ UNCHANGED <<bytes, work>>
<1> DEFINE local == Find(name)
           it    == Item("args")
           args  == [it EXCEPT !.n = nargs, !.fun = local]
<1>1. nargs \in Nat
  BY SourceAssumption
<1>2. SUFFICES ASSUME ~UNCHANGED <<bytes, work>> PROVE Quiet
  OBVIOUS
<1>3. Declared(name) /\ Become(<<args>>) /\ UNCHANGED bytes
  BY <1>2 DEF Call
<1>4. local \in Locals
  BY <1>3, FindType, Zenon DEF SourceTypes
<1>5. it \in Items /\ it.step = "args"
  BY PendingSteps, ItemType
<1> HIDE DEF local, it
<1>6. args \in Items /\ args.step = "args"
  BY <1>1, <1>4, <1>5 DEF Items
<1> HIDE DEF args
<1> QED BY <1>3, <1>6, PendingSteps, LeavesOne, QuietSame, Zenon DEF Quiet

LEMMA ArgQuiet ==
    ASSUME SourceTypes, Shape, Arg
    PROVE  Quiet
<1> DEFINE it  == Top
           end == [it EXCEPT !.step = "endarg", !.cell = NewCell]
<1>1. Top.step = "args" /\ NewCell \in Nat
  BY DEF Arg, At, NewCell, SourceTypes
<1>2. it \in Items
  BY <1>1, TopInFunction, Zenon
<1>3. Become(<<end, ItemWith("expr", NewCell)>>) /\ UNCHANGED bytes
  BY DEF Arg
<1> HIDE DEF it
<1>4. end \in Items /\ end.step = "endarg"
  <2>1. "endarg" \in Steps
    BY PendingSteps
  <2> QED BY <1>1, <1>2, <2>1 DEF Items
<1> HIDE DEF end
<1> QED BY <1>1, <1>3, <1>4, PendingSteps, CellItems, LeavesTwo, QuietSame, Zenon DEF Quiet

LEMMA EndArgQuiet ==
    ASSUME SourceTypes, Shape, EndArg
    PROVE  Fail \/ Quiet
<1> DEFINE it   == Top
           size == TypeSize(Cell)
           args == [it EXCEPT !.step = "args", !.n = it.n - 1, !.pop = it.pop + size]
<1>1. it.step = "endarg" /\ Top.step \in CellSteps
  BY DEF EndArg, At, CellSteps
<1>2. it \in Items /\ Nested(it, Len(types), Len(scopes))
  BY <1>1, TopInFunction, Zenon
<1>3. Cell \in Types /\ size \in Nat
  BY <1>1, CellType, Zenon
<1>4. \/ Fail
      \/ bytes' = EmitAll(bytes, <<Instr("push", size, 0)>>) /\ Become(<<args>>)
  BY <1>2 DEF EndArg, Items
<1>5. Instr("push", size, 0) \in Mute
  <2>1. "push" \in ArithOps \cup UnaryOps \cup {"mov_imm", "push", "cmp"} /\ 0 \in Int
    OBVIOUS
  <2> QED BY <1>3, <2>1, MuteWide, Zenon
<1> HIDE DEF it, size
<1>6. args \in Items /\ args.step = "args"
  <2>1. it.n - 1 \in Nat
    <3>1. it.n \in 1..Len(it.fun.params)
      BY <1>1, <1>2, Zenon DEF Nested, it
    <3> QED BY <3>1
  <2>2. it.pop + size \in Nat
    BY <1>2, <1>3 DEF Items
  <2>3. "args" \in Steps
    BY PendingSteps
  <2> QED BY <1>2, <2>1, <2>2, <2>3 DEF Items
<1> HIDE DEF args
<1> QED BY <1>4, <1>5, <1>6, PendingSteps, EmitsOne, LeavesOne, Zenon DEF Quiet

LEMMA EndCallQuiet ==
    ASSUME SourceTypes, Shape, EndCall
    PROVE  Quiet
<1> DEFINE fun  == Top.fun
           pop  == Top.pop
           call == <<IF fun.id = "sysfun" THEN Instr("sysfun", 0, SysFunIdx(fun))
                                          ELSE Instr("call", 0, fun.offset)>>
           tail == IF pop = 0 THEN <<>> ELSE <<Instr("add_sp", 0, pop)>>
<1>1. Top.step = "args" /\ Top.step \notin {"decls", "endfun", "params"}
  BY DEF EndCall, At
<1>2. Top \in Items
  BY <1>1, TopInFunction, Zenon
<1>3. fun \in Locals /\ pop \in Int
  BY <1>2 DEF Items
<1>4. CallCode(Top.fun, Top.pop) = call \o tail
  BY DEF CallCode
<1> HIDE DEF fun, pop
<1>5. /\ \A op \in {"sysfun", "call", "add_sp"} : op \in Ops /\ op \notin Jumps \cup Accesses
      /\ 0 \in Widths \cup {0}
  BY MuteOps
<1>6. call \in Seq(Mute)
  <2>1. SysFunIdx(fun) \in Int
    BY DEF SysFunIdx
  <2>2. fun.offset \in Int
    BY <1>3, LocalField, Zenon
  <2>3. Instr("sysfun", 0, SysFunIdx(fun)) \in Mute /\ Instr("call", 0, fun.offset) \in Mute
    BY <1>5, <2>1, <2>2, MuteInstr, Zenon
  <2> QED BY <2>3
<1>7. tail \in Seq(Mute)
  <2>1. Instr("add_sp", 0, pop) \in Mute
    BY <1>3, <1>5, MuteInstr, Zenon
  <2> QED BY <2>1
<1>8. bytes' = EmitAll(bytes, call \o tail) /\ work' = Front(work)
  BY <1>4 DEF EndCall
<1> HIDE DEF call, tail
<1> QED BY <1>6, <1>7, <1>8, EmitsBoth, LeavesNone, Zenon DEF Quiet

LEMMA EmitUnaryQuiet ==
    ASSUME SourceTypes, Shape, NEW op \in UnOps, EmitUnary(op)
    PROVE  Quiet
<1> DEFINE end == [ItemWith("endunary", Top.cell) EXCEPT !.word = op]
<1>1. Top.step = "expr" /\ UNCHANGED bytes /\ Become(<<end, ItemWith("expr", Top.cell)>>)
  BY DEF EmitUnary, At
<1>2. Top.cell \in Nat
  BY <1>1, ExprCell, Zenon
<1>3. op \in Names \cup Operators
  BY SourceAssumption DEF Operators
<1>4. end \in Items /\ end.step \notin Pending
  BY <1>2, <1>3, NamedItems, Zenon
<1> HIDE DEF end
<1> QED BY <1>1, <1>2, <1>4, CellItems, LeavesTwo, QuietSame, Zenon DEF Quiet

LEMMA EmitBinaryQuiet ==
    ASSUME SourceTypes, Shape, NEW op \in BinOps, EmitBinary(op)
    PROVE  Quiet
<1> DEFINE push == [ItemWith("push", Top.cell) EXCEPT !.word = op]
<1>1. Top.step = "expr" /\ UNCHANGED bytes /\ Become(<<push, ItemWith("expr", Top.cell)>>)
  BY DEF EmitBinary, At
<1>2. Top.cell \in Nat
  BY <1>1, ExprCell, Zenon
<1>3. op \in Names \cup Operators
  BY SourceAssumption DEF Operators
<1>4. push \in Items /\ push.step \notin Pending
  BY <1>2, <1>3, NamedItems, Zenon
<1> HIDE DEF push
<1> QED BY <1>1, <1>2, <1>4, CellItems, LeavesTwo, QuietSame, Zenon DEF Quiet

LEMMA OperatorQuiet ==
    ASSUME SourceTypes, Shape, EndUnary \/ Push \/ EndBinary
    PROVE  Fail \/ Quiet
<1>1. Top.step \in CellSteps
  BY DEF EndUnary, Push, EndBinary, At, CellSteps
<1>2. Cell \in Types /\ 0 \in Int
  BY <1>1, CellType
<1>3. CASE EndUnary
  <2>1. \/ Fail
        \/ bytes' = EmitAll(bytes, <<Instr(Top.word, TypeSize(Cell), 0)>>) /\ work' = Front(work)
    BY <1>3 DEF EndUnary
  <2>2. Top.word \in UnaryOps
    BY <1>3, TopWord DEF EndUnary, At
  <2>3. Instr(Top.word, TypeSize(Cell), 0) \in Mute
    BY <1>2, <2>2, MuteWide, Zenon
  <2> QED BY <2>1, <2>3, EmitsOne, LeavesNone, Zenon DEF Quiet
<1>4. CASE Push
  <2> DEFINE it  == Top
             end == [it EXCEPT !.step = "endbin"]
  <2>1. \/ Fail
        \/ /\ bytes' = EmitAll(bytes, <<Instr("push", TypeSize(Cell), 0)>>)
           /\ Become(<<end, ItemWith("expr", it.cell)>>)
    BY <1>4 DEF Push
  <2>2. "push" \in ArithOps \cup UnaryOps \cup {"mov_imm", "push", "cmp"}
    OBVIOUS
  <2>3. Instr("push", TypeSize(Cell), 0) \in Mute
    BY <1>2, <2>2, MuteWide, Zenon
  <2>4. it \in Items
    BY <1>4, TopInFunction, Zenon DEF Push, At
  <2> HIDE DEF it
  <2>5. end \in Items /\ end.step \notin Pending
    BY <2>4, PendingSteps DEF Items
  <2>6. it.cell \in Nat
    BY <2>4 DEF Items
  <2> HIDE DEF end
  <2> QED BY <2>1, <2>3, <2>5, <2>6, CellItems, EmitsOne, LeavesTwo, Zenon DEF Quiet
<1>5. CASE EndBinary
  <2>1. bytes' = EmitAll(bytes, BinCode(Top.word, TypeSize(Cell))) /\ work' = Front(work)
    BY <1>5 DEF EndBinary
  <2>2. Top.word \in ArithOps \cup SetOps
    BY <1>5, TopWord DEF EndBinary, At
  <2>3. CASE Top.word \in SetOps
    <3>1. bytes' = EmitAll(bytes, <<Instr("cmp", TypeSize(Cell), 0), Instr(Top.word, 0, 0)>>)
      BY <2>1, <2>3 DEF BinCode
    <3>2. "cmp" \in ArithOps \cup UnaryOps \cup {"mov_imm", "push", "cmp"}
      OBVIOUS
    <3>3. Instr("cmp", TypeSize(Cell), 0) \in Mute
      BY <1>2, <3>2, MuteWide, Zenon
    <3>4. Instr(Top.word, 0, 0) \in Mute
      BY <2>3, MuteShort, Zenon
    <3> QED BY <2>1, <3>1, <3>3, <3>4, EmitsTwo, LeavesNone, Zenon DEF Quiet
  <2>4. CASE Top.word \notin SetOps
    <3>1. bytes' = EmitAll(bytes, <<Instr(Top.word, TypeSize(Cell), 0)>>)
      BY <2>1, <2>4 DEF BinCode
    <3>2. Instr(Top.word, TypeSize(Cell), 0) \in Mute
      BY <1>2, <2>2, <2>4, MuteWide, Zenon
    <3> QED BY <2>1, <3>1, <3>2, EmitsOne, LeavesNone, Zenon DEF Quiet
  <2> QED BY <2>3, <2>4
<1> QED BY <1>3, <1>4, <1>5

-----------------------------------------------------------------------------
(* Steps inside a function.                                                *)

\* Code is only added, but for operands above Limit.
Grows ==
    /\ bytes.used \in Nat /\ bytes'.used \in Nat /\ bytes.used <= bytes'.used
    /\ DOMAIN bytes.code \subseteq DOMAIN bytes'.code
    /\ \A x \in DOMAIN bytes'.code : x \in DOMAIN bytes.code \/ x >= bytes.used
    /\ bytes.used \in DOMAIN bytes'.code \cup {bytes'.used}
    /\ \A x \in DOMAIN bytes.code : bytes'.code[x].op = bytes.code[x].op

\* The items below the top stay.
Rests == /\ Len(work') \in Nat /\ Len(work') >= Len(work) - 1
         /\ \A i \in 1..(Len(work) - 1) : work'[i] = work[i]

\* A jump is as it was and nobody was to patch it now, or it goes where it
\* should, or a handler that was just put on the stack will see to it.
Settled(x) ==
    \/ x \in DOMAIN bytes.code /\ bytes'.code[x].arg = bytes.code[x].arg /\ ~Waits(Top, x)
    \/ Lands(bytes.code[x].arg)'
    \/ \E i \in Len(work)..Len(work') : Waits(work'[i], x)

\* Where a handler of a branch sends it: to where the code ended before or after
\* the step, or to the place the handler remembers.
Near(y) ==
    \/ Top.step \in Branching \cup {"stmts"} /\ y \in {bytes.used, bytes'.used}
    \/ Top.step \in {"whilejz", "endif", "endwhile"} /\ y = Top.to

\* Branches only come to go where a handler of theirs sends them.
Directed ==
    /\ Rests
    /\ \A i \in Len(work)..Len(work') :
           work'[i].step \in {"whilejz", "endif", "endwhile"} => Near(work'[i].to)
    /\ \A x \in DOMAIN bytes'.code : bytes'.code[x].op \in Jumps =>
           \/ x \in DOMAIN bytes.code /\ bytes'.code[x].arg = bytes.code[x].arg /\ ~Waits(Top, x)
           \/ Near(bytes'.code[x].arg)
           \/ \E i \in Len(work)..Len(work') : Waits(work'[i], x)

LEMMA FunFields ==
    ASSUME SourceTypes
    PROVE  /\ Len(funs) \in Nat
           /\ \A k \in 1..Len(funs) :
                  funs[k] \in Funs /\ funs[k].offset \in Nat /\ funs[k].nbytes \in Nat
           /\ funs # <<>> => /\ Len(funs) >= 1 /\ Last(funs) = funs[Len(funs)]
                             /\ Home \in Nat /\ Home = funs[Len(funs)].offset
<1>1. funs \in Seq(Funs) /\ Len(funs) \in Nat
  BY DEF SourceTypes
<1>2. \A k \in 1..Len(funs) : funs[k] \in Funs
  BY <1>1
<1>3. \A f \in Funs : f.offset \in Nat /\ f.nbytes \in Nat
  BY DEF Funs
<1>4. funs # <<>> => Len(funs) >= 1
  BY <1>1
<1>5. Last(funs) = funs[Len(funs)] /\ Home = Last(funs).offset
  BY DEF Last, Home
<1>6. Home = funs[Len(funs)].offset
  BY <1>5
<1>7. funs # <<>> => Home \in Nat
  BY <1>1, <1>2, <1>3, <1>4, <1>6
<1> QED BY <1>1, <1>2, <1>3, <1>4, <1>5, <1>6, <1>7

LEMMA InsideOpen ==
    ASSUME SourceTypes, Shape, Kept, Inside
    PROVE  Open /\ Open' /\ Len(work) >= 3 /\ Len(work) \in Nat /\ Top = work[Len(work)]
<1>1. Len(work) >= 3 /\ Top = work[Len(work)]
  BY TopInFunction, Zenon DEF Inside
<1> QED BY <1>1 DEF Inside, Kept, Open, SourceTypes

LEMMA GrowStep ==
    ASSUME SourceTypes, Shape, Branches, Kept, Inside, UNCHANGED funs, Grows, Rests,
           \A i \in Len(work)..Len(work') : Branch(work[i])',
           \A x \in DOMAIN bytes'.code : x >= Home /\ bytes'.code[x].op \in Jumps => Settled(x)
    PROVE  Branches'
<1> DEFINE n == Len(work)
           m == Len(work')
<1>1. Open /\ Open' /\ n \in Nat /\ n >= 3 /\ Top = work[n] /\ m \in Nat
  BY InsideOpen DEF Rests
<1>2. Home' = Home /\ Body' = Body /\ Last(funs)' = Last(funs)
  BY DEF Home, Body
<1>3. Limit = Home /\ Limit' = Home
  BY <1>1, <1>2 DEF Limit
<1>4. ASSUME NEW y, Lands(y)
      PROVE  y >= Body' /\ y \in DOMAIN bytes'.code \cup {bytes'.used}
  BY <1>2, <1>4 DEF Lands, Grows
<1>5. Sealed'
  <2> HIDE DEF n, m
  <2>1. SUFFICES ASSUME NEW k \in 1..Len(funs'), k < Len(funs') \/ ~Open'
                 PROVE  /\ funs'[k].offset + PrologueLen <= Limit'
                        /\ funs'[k].offset + funs'[k].nbytes <= Limit'
                        /\ funs'[k].offset + 1 \in DOMAIN bytes'.code
    BY DEF Sealed
  <2> QED BY <1>1, <1>3, <2>1 DEF Branches, Sealed, Grows
<1>6. Begun'
  <2>1. /\ Last(funs').nbytes = 0
        /\ Body <= bytes'.used
        /\ Home + 1 \in DOMAIN bytes'.code
        /\ bytes'.code[Home + 1].op = "add_sp"
    <3>1. /\ Last(funs).nbytes = 0
          /\ Body <= bytes.used
          /\ Home + 1 \in DOMAIN bytes.code
          /\ bytes.code[Home + 1].op = "add_sp"
      BY <1>1 DEF Branches, Begun
    <3>2. Body \in Int
      <4>1. Home \in Nat
        <5>1. funs # <<>>
          BY <1>1, InsideOpen DEF Shape, Emitted, Inside
        <5> QED BY <5>1, FunFields
      <4> QED BY <4>1 DEF Body, PrologueLen
    <3> QED BY <3>1, <3>2 DEF Grows
  <2> QED BY <1>2, <2>1 DEF Begun
<1>7. Handled'
  <2> SUFFICES ASSUME NEW i \in 3..m PROVE Branch(work[i])'
    BY DEF Handled
  <2>1. CASE i >= n
    BY <1>1, <2>1
  <2>2. CASE i < n
    <3>1. Branch(work[i]) /\ work'[i] = work[i]
      BY <1>1, <2>2 DEF Branches, Handled, Rests
    <3> DEFINE it == work[i]
    <3>2. Branch(it)
      BY <3>1
    <3> HIDE DEF it
    <3>3. /\ it.step \in {"whilejz", "endif", "endwhile"} =>
                 it.to >= Body' /\ it.to \in DOMAIN bytes'.code \cup {bytes'.used}
          /\ it.step = "endif" => it.jmp # None
          /\ it.step = "endwhile" => it.jz # None
      BY <1>4, <3>2 DEF Branch
    <3>4. ASSUME NEW x \in {it.jz, it.jmp}, Waits(it, x), x # None
          PROVE  x \in DOMAIN bytes'.code /\ x >= Body' /\ bytes'.code[x].op \in Jumps
      <4>1. IsJump(x)
        BY <3>2, <3>4 DEF Branch
      <4> QED BY <1>2, <4>1 DEF IsJump, Grows
    <3>5. work'[i] = it
      BY <3>1 DEF it
    <3> QED BY <3>3, <3>4, <3>5 DEF Branch, Lands, IsJump, Waits
  <2> QED BY <1>1, <2>1, <2>2
<1>8. Landed'
  <2> SUFFICES ASSUME NEW x \in DOMAIN bytes'.code, x >= Home, bytes'.code[x].op \in Jumps,
                      ~Lands(bytes.code[x].arg)'
               PROVE  \E i \in 3..m : Waits(work'[i], x)
    BY <1>2 DEF Landed, Waits
  <2>1. CASE \E i \in n..m : Waits(work'[i], x)
    BY <1>1, <2>1
  <2>2. CASE x \in DOMAIN bytes.code /\ bytes'.code[x].arg = bytes.code[x].arg /\ ~Waits(Top, x)
    <3>1. ~Lands(bytes.code[x].arg)
      <4> SUFFICES ASSUME Lands(bytes.code[x].arg) PROVE FALSE
        OBVIOUS
      <4> DEFINE y == bytes.code[x].arg
      <4>1. y >= Body' /\ y \in DOMAIN bytes'.code \cup {bytes'.used} /\ bytes'.code[x].arg = y
        BY <1>4, <2>2
      <4> HIDE DEF y
      <4> QED BY <4>1 DEF Lands
    <3>2. bytes.code[x].op \in Jumps
      BY <2>2 DEF Grows
    <3>3. PICK i \in 3..n : Waits(work[i], x)
      BY <1>1, <2>2, <3>1, <3>2 DEF Branches, Landed
    <3>4. i # n
      BY <1>1, <2>2, <3>3
    <3>5. i \in 3..m /\ work'[i] = work[i]
      BY <1>1, <3>4 DEF Rests
    <3> QED BY <3>3, <3>5 DEF Waits
  <2> QED BY <2>1, <2>2 DEF Settled
<1> QED BY <1>5, <1>6, <1>7, <1>8 DEF Branches

LEMMA EmitGrows ==
    ASSUME SourceTypes, NEW S, S \subseteq InstrRecords, NEW s \in Seq(S), bytes' = EmitAll(bytes, s)
    PROVE  /\ Grows
           /\ \A x \in DOMAIN bytes.code : bytes'.code[x] = bytes.code[x]
           /\ \A x \in DOMAIN bytes'.code : x \in DOMAIN bytes.code \/ bytes'.code[x] \in S
<1>1. Extends(bytes, bytes', S) /\ BytesOK(bytes)
  BY EmitAllExtends DEF SourceTypes
<1> QED BY <1>1 DEF Extends, BytesOK, Grows

\* Handlers that are not of a branch wait for nothing.
LEMMA NoBranch ==
    ASSUME NEW it, it.step \notin Branching
    PROVE  \A x : ~Waits(it, x)
  BY DEF Branching, Waits

LEMMA PlainStep ==
    ASSUME SourceTypes, Shape, Branches, Kept, Inside, UNCHANGED funs,
           Emits(Calm), Leaves(Branching), Top.step \notin Branching
    PROVE  Branches' /\ Directed
<1>1. PICK s \in Seq(Calm) : bytes' = EmitAll(bytes, s)
  BY DEF Emits
<1>2. /\ Grows
      /\ \A x \in DOMAIN bytes.code : bytes'.code[x] = bytes.code[x]
      /\ \A x \in DOMAIN bytes'.code : x \in DOMAIN bytes.code \/ bytes'.code[x] \in Calm
  BY <1>1, MuteInstrs, EmitGrows
<1>3. Rests
  BY DEF Leaves, Rests
<1>4. ASSUME NEW i \in Len(work)..Len(work') PROVE Branch(work[i])'
  BY DEF Leaves, Branching, Branch, Waits
<1>5. ASSUME NEW x \in DOMAIN bytes'.code, bytes'.code[x].op \in Jumps
      PROVE  x \in DOMAIN bytes.code /\ bytes'.code[x].arg = bytes.code[x].arg /\ ~Waits(Top, x)
  <2>1. x \in DOMAIN bytes.code
    BY <1>2, <1>5 DEF Calm
  <2> QED BY <1>2, <2>1, NoBranch
<1>6. Branches'
  <2>1. \A x \in DOMAIN bytes'.code : bytes'.code[x].op \in Jumps => Settled(x)
    BY <1>5 DEF Settled
  <2> QED BY <1>2, <1>3, <1>4, <2>1, GrowStep
<1>7. Directed
  BY <1>3, <1>5 DEF Directed, Leaves, Branching
<1> QED BY <1>6, <1>7

\* A step that fails, or only spends.
LEMMA SameBranches ==
    ASSUME SourceTypes, Branches, UNCHANGED <<bytes, funs, work>>
    PROVE  Branches' /\ Directed
<1>1. Open' = Open /\ Home' = Home /\ Body' = Body /\ Limit' = Limit
  BY DEF Open, Home, Body, Limit, Top
<1>2. Sealed' /\ Begun'
  BY <1>1 DEF Branches, Sealed, Begun
<1>3. Handled'
  BY <1>1 DEF Branches, Handled, Branch, Lands, IsJump, Waits
<1>4. Landed'
  BY <1>1 DEF Branches, Landed, Lands, Waits
<1>5. Directed
  <2>1. Len(work) \in Nat /\ Len(work) >= 1 /\ work' = work /\ work[Len(work)] = Top
    BY DEF SourceTypes, Top, Last
  <2>2. Rests
    BY <2>1 DEF Rests
  <2>3. \A i \in Len(work)..Len(work') : i = Len(work)
    BY <2>1
  <2>4. \A i \in Len(work)..Len(work') :
            work'[i].step \in {"whilejz", "endif", "endwhile"} => Near(work'[i].to)
    BY <2>1, <2>3 DEF Near
  <2>5. \A x : Waits(Top, x) => \E i \in Len(work)..Len(work') : Waits(work'[i], x)
    BY <2>1
  <2> QED BY <2>2, <2>4, <2>5 DEF Directed
<1> QED BY <1>2, <1>3, <1>4, <1>5 DEF Branches

LEMMA FailSame == ASSUME Fail PROVE UNCHANGED <<bytes, funs, work>>
  BY DEF Fail

LEMMA QuietIsPlain == ASSUME Quiet PROVE Emits(Calm) /\ Leaves(Branching)
<1>1. ASSUME NEW s \in Seq(Mute) PROVE s \in Seq(Calm)
  <2>1. Mute \subseteq Calm
    BY MuteInstrs
  <2> QED BY <2>1
<1>2. Emits(Calm)
  BY <1>1 DEF Quiet, Emits
<1> QED BY <1>2 DEF Quiet, Leaves, Pending

-----------------------------------------------------------------------------
(* The handlers that access the frame.                                     *)

LEMMA AccessOps ==
    /\ \A op \in Accesses : op \in Ops /\ op \notin Jumps
    /\ \A op \in ArithOps : op \in Ops /\ op \notin Jumps
    /\ "push" \in Ops /\ "push" \notin Jumps
  BY DEF Accesses, Ops, WithOperand, ArithOps, Jumps

LEMMA EndVarPlain ==
    ASSUME SourceTypes, Shape, EndVar
    PROVE  UNCHANGED <<bytes, work>> \/ (Emits(Calm) /\ Leaves(Branching))
<1> DEFINE size   == TypeSize(Cell)
           offset == offset_counter - size
<1>1. Top.step \in CellSteps
  BY DEF EndVar, At, CellSteps
<1>2. size \in Widths \cup {0} /\ size \in Nat /\ offset \in Int
  BY <1>1, CellType DEF SourceTypes
<1>3. \/ UNCHANGED <<bytes, work>>
      \/ bytes' = EmitAll(bytes, <<Instr("mov_a_offset", size, offset)>>) /\ work' = Front(work)
  BY DEF EndVar
<1>4. Instr("mov_a_offset", size, offset) \in Calm
  <2>1. "mov_a_offset" \in Ops /\ "mov_a_offset" \notin Jumps
    BY AccessOps DEF Accesses
  <2> HIDE DEF size, offset
  <2> QED BY <1>2, <2>1, CalmInstr, Zenon
<1> HIDE DEF size, offset
<1> QED BY <1>3, <1>4, EmitsOne, LeavesNone, Zenon

LEMMA StorePlain ==
    ASSUME SourceTypes, Shape, Store \/ EndAssgn
    PROVE  Fail \/ (Emits(Calm) /\ Leaves(Branching))
<1> DEFINE size == TypeSize(Cell)
<1>1. Top.step \in CellSteps /\ Top.step \notin {"decls", "endfun", "params"}
  BY DEF Store, EndAssgn, At, CellSteps
<1>2. size \in Widths \cup {0} /\ Top.offset \in Int /\ 0 \in Int
  <2>1. Top \in Items
    BY <1>1, TopInFunction, Zenon
  <2> QED BY <1>1, <2>1, CellType DEF Items
<1>3. Instr("mov_a_offset", size, Top.offset) \in Calm
  <2>1. "mov_a_offset" \in Ops /\ "mov_a_offset" \notin Jumps
    BY AccessOps DEF Accesses
  <2> HIDE DEF size
  <2> QED BY <1>2, <2>1, CalmInstr, Zenon
<1>4. CASE Store
  <2>1. \/ Fail
        \/ /\ bytes' = EmitAll(bytes, <<Instr("mov_a_offset", size, Top.offset)>>)
           /\ work' = Front(work)
    BY <1>4 DEF Store
  <2> HIDE DEF size
  <2> QED BY <1>3, <2>1, EmitsOne, LeavesNone, Zenon
<1>5. CASE EndAssgn
  <2>1. \/ Fail
        \/ /\ bytes' = EmitAll(bytes, <<Instr(Top.word, size, 0),
                                        Instr("mov_a_offset", size, Top.offset)>>)
           /\ work' = Front(work)
    BY <1>5 DEF EndAssgn
  <2>2. Top.word \in Ops /\ Top.word \notin Jumps
    <3>1. Top.word \in ArithOps
      BY <1>5, TopWord DEF EndAssgn, At, ArithOps
    <3> QED BY <3>1, AccessOps
  <2> HIDE DEF size
  <2>3. Instr(Top.word, size, 0) \in Calm
    BY <1>2, <2>2, CalmInstr, Zenon
  <2> QED BY <1>3, <2>1, <2>3, EmitsTwo, LeavesNone, Zenon
<1> QED BY <1>4, <1>5

LEMMA IdentPlain ==
    ASSUME SourceTypes, Shape, NEW name \in UsedNames, Ident(name)
    PROVE  Fail \/ (Emits(Calm) /\ Leaves(Branching))
<1> DEFINE local == Find(name)
           t     == Infer(local.type)
           load  == <<Instr("mov_offset_a", TypeSize(local.type), local.offset)>>
           cast  == CastCode(local.type, t)
<1>1. SUFFICES ASSUME ~Fail PROVE Emits(Calm) /\ Leaves(Branching)
  OBVIOUS
<1>2. /\ Declared(name)
      /\ ~CastFails(local.type, t)
      /\ bytes' = EmitAll(bytes, load \o cast)
      /\ work' = Front(work)
  BY <1>1 DEF Ident
<1>3. local \in Locals
  BY <1>2, FindType, Zenon DEF SourceTypes
<1>4. local.type \in Types /\ local.offset \in Int
  BY <1>3, LocalField, Zenon
<1>5. t \in Types
  BY <1>4, ExprCell DEF Ident, At
<1> HIDE DEF local, t
<1>6. cast \in Seq(Calm)
  <2>1. cast \in Seq(Mute)
    BY <1>2, <1>4, <1>5, MuteCast, Zenon
  <2>2. Mute \subseteq Calm
    BY MuteInstrs
  <2> HIDE DEF cast
  <2> QED BY <2>1, <2>2
<1>7. load \in Seq(Calm)
  <2>1. "mov_offset_a" \in Ops /\ "mov_offset_a" \notin Jumps
    BY AccessOps DEF Accesses
  <2>2. TypeSize(local.type) \in Widths \cup {0}
    BY <1>4, SizeOfType, Zenon
  <2>3. Instr("mov_offset_a", TypeSize(local.type), local.offset) \in Calm
    BY <1>4, <2>1, <2>2, CalmInstr, Zenon
  <2> QED BY <2>3
<1> HIDE DEF load, cast
<1> QED BY <1>2, <1>6, <1>7, EmitsBoth, LeavesNone, Zenon

LEMMA AssignPlain ==
    ASSUME SourceTypes, Shape, NEW name \in UsedNames, NEW op \in AssignOps, Assign(name, op)
    PROVE  UNCHANGED <<bytes, work>> \/ (Emits(Calm) /\ Leaves(Branching))
<1> DEFINE local == Find(name)
           t     == Infer(local.type)
           w     == TypeSize(t)
           step  == IF op = "assign" THEN "store" ELSE "endassgn"
           it    == ItemWith(step, Top.cell)
           store == [it EXCEPT !.word = op, !.offset = local.offset]
           ex    == ItemWith("expr", Top.cell)
           code  == <<Instr("mov_offset_a", w, local.offset), Instr("push", w, 0)>>
<1>1. SUFFICES ASSUME ~UNCHANGED <<bytes, work>> PROVE Emits(Calm) /\ Leaves(Branching)
  OBVIOUS
<1>2. /\ Declared(name)
      /\ bytes' = bytes \/ bytes' = EmitAll(bytes, code)
      /\ Become(<<store, ex>>)
      /\ Top.step = "expr"
  BY <1>1 DEF Assign, At
<1>3. local \in Locals
  BY <1>2, FindType, Zenon DEF SourceTypes
<1>4. local.type \in Types /\ local.offset \in Int
  BY <1>3, LocalField, Zenon
<1>5. t \in Types /\ Top.cell \in Nat
  BY <1>2, <1>4, ExprCell, Zenon
<1>6. it \in Items /\ it.step = step /\ step \in Storing
  <2>1. step \in Steps /\ step \in Storing
    BY DEF Steps, Storing
  <2> QED BY <1>5, <2>1, CellItem
<1>7. op \in Names \cup Operators
  BY SourceAssumption DEF Operators, ArithOps
<1> HIDE DEF local, t, it, step
<1>8. store \in Items /\ store.step \notin Branching
  <2>1. store \in Items /\ store.step = it.step
    BY <1>4, <1>6, <1>7 DEF Items
  <2> QED BY <1>6, <2>1 DEF Storing, Branching
<1>9. ex \in Items /\ ex.step \notin Branching
  BY <1>5, CellItems DEF Pending
<1>10. Leaves(Branching)
  <2> HIDE DEF store, ex
  <2> QED BY <1>2, <1>8, <1>9, LeavesTwo, Zenon
<1>11. Emits(Calm)
  <2>1. w \in Widths \cup {0} /\ 0 \in Int
    BY <1>5, SizeOfType
  <2>2. "mov_offset_a" \in Ops /\ "mov_offset_a" \notin Jumps /\ "push" \in Ops /\ "push" \notin Jumps
    BY AccessOps DEF Accesses
  <2> HIDE DEF w
  <2>3. Instr("mov_offset_a", w, local.offset) \in Calm /\ Instr("push", w, 0) \in Calm
    BY <1>4, <2>1, <2>2, CalmInstr, Zenon
  <2> QED BY <1>2, <2>3, EmitsTwo, QuietSame, Zenon
<1> QED BY <1>10, <1>11

-----------------------------------------------------------------------------
(* The handlers of branches.                                               *)

\* Lands and Branch for what there is after the step.
Landing(y) == y >= Body /\ y \in DOMAIN bytes'.code \cup {bytes'.used} /\ Near(y)

Jumping(x) == x \in DOMAIN bytes'.code /\ x >= Body /\ bytes'.code[x].op \in Jumps

Branched(item) ==
    /\ item.step \in {"whilejz", "endif", "endwhile"} => Landing(item.to)
    /\ \A x \in {item.jz, item.jmp} : Waits(item, x) /\ x # None => Jumping(x)
    /\ item.step = "endif" => item.jmp # None
    /\ item.step = "endwhile" => item.jz # None

LEMMA BecomeStep ==
    ASSUME SourceTypes, Shape, Branches, Kept, Inside, UNCHANGED funs, Grows,
           NEW items \in Seq(Items), Become(items),
           \A j \in 1..Len(items) : Branched(items[j]),
           \A x \in DOMAIN bytes'.code : bytes'.code[x].op \in Jumps =>
               \/ x \in DOMAIN bytes.code /\ bytes'.code[x].arg = bytes.code[x].arg /\ ~Waits(Top, x)
               \/ Landing(bytes'.code[x].arg)
               \/ \E j \in 1..Len(items) : Waits(items[j], x)
    PROVE  Branches' /\ Directed
<1> DEFINE n == Len(work)
           m == Len(work')
           l == Len(items)
<1>1. work \in Seq(Items) /\ n >= 1 /\ n \in Nat
  BY DEF SourceTypes
<1>2. /\ m \in Nat /\ l \in Nat /\ m = n - 1 + l
      /\ \A i \in 1..m : work'[i] = IF i < n THEN work[i] ELSE items[i - (n - 1)]
  BY <1>1, BecomeSeq
<1>3. Home' = Home /\ Body' = Body
  BY DEF Home, Body
<1> HIDE DEF n, m, l
<1>4. Rests
  BY <1>1, <1>2 DEF Rests, n, m
<1>5. ASSUME NEW i \in n..m PROVE Branch(work[i])'
  <2>1. i - (n - 1) \in 1..l /\ work'[i] = items[i - (n - 1)]
    BY <1>1, <1>2
  <2>2. Branched(work'[i])
    BY <2>1 DEF l
  <2> DEFINE it == work'[i]
  <2>3. Branched(it)
    BY <2>2
  <2> HIDE DEF it
  <2>4. /\ it.step \in {"whilejz", "endif", "endwhile"} =>
               it.to >= Body' /\ it.to \in DOMAIN bytes'.code \cup {bytes'.used}
        /\ \A x \in {it.jz, it.jmp} :
               Waits(it, x) /\ x # None =>
                   x \in DOMAIN bytes'.code /\ x >= Body' /\ bytes'.code[x].op \in Jumps
        /\ it.step = "endif" => it.jmp # None
        /\ it.step = "endwhile" => it.jz # None
    BY <1>3, <2>3 DEF Branched, Landing, Jumping
  <2> QED BY <2>4 DEF Branch, Lands, IsJump, Waits, it
<1>6. ASSUME NEW x \in DOMAIN bytes'.code, bytes'.code[x].op \in Jumps
      PROVE  \/ x \in DOMAIN bytes.code /\ bytes'.code[x].arg = bytes.code[x].arg /\ ~Waits(Top, x)
             \/ Landing(bytes'.code[x].arg)
             \/ \E i \in n..m : Waits(work'[i], x)
  <2>1. CASE x \in DOMAIN bytes.code /\ bytes'.code[x].arg = bytes.code[x].arg /\ ~Waits(Top, x)
    BY <2>1
  <2>2. CASE Landing(bytes'.code[x].arg)
    BY <2>2
  <2>3. CASE \E j \in 1..l : Waits(items[j], x)
    <3>1. PICK j \in 1..l : Waits(items[j], x)
      BY <2>3
    <3>2. n - 1 + j \in n..m /\ work'[n - 1 + j] = items[j]
      BY <1>1, <1>2
    <3> QED BY <3>1, <3>2
  <2> QED BY <1>6, <2>1, <2>2, <2>3 DEF l
<1>7. Branches'
  <2>1. ASSUME NEW y, Landing(y) PROVE Lands(y)'
    BY <1>3, <2>1 DEF Landing, Lands
  <2>2. ASSUME NEW x \in DOMAIN bytes'.code, bytes'.code[x].op \in Jumps PROVE Settled(x)
    <3>1. Landing(bytes'.code[x].arg) => Lands(bytes.code[x].arg)'
      BY <1>3 DEF Landing, Lands
    <3> QED BY <1>6, <2>2, <3>1 DEF Settled, n, m
  <2> QED BY <1>4, <1>5, <2>2, GrowStep DEF n, m
<1>8. Directed
  <2>1. ASSUME NEW i \in n..m, work'[i].step \in {"whilejz", "endif", "endwhile"}
        PROVE  Near(work'[i].to)
    <3>1. i - (n - 1) \in 1..l /\ work'[i] = items[i - (n - 1)]
      BY <1>1, <1>2
    <3>2. Branched(work'[i])
      BY <3>1 DEF l
    <3> QED BY <2>1, <3>2 DEF Branched, Landing
  <2> QED BY <1>4, <1>6, <2>1 DEF Directed, Landing, n, m
<1> QED BY <1>7, <1>8

\* An item of no branch, or one that waits for nothing yet.
LEMMA NotBranched ==
    ASSUME NEW it, it.step \notin Branching
    PROVE  Branched(it)
  BY DEF Branched, Branching, Waits

\* The code of the function being emitted starts below the end of the code.
LEMMA BodyType ==
    ASSUME SourceTypes, Shape, Branches, Inside
    PROVE  /\ Home \in Nat /\ Body \in Nat /\ Body <= bytes.used /\ bytes.used \in Nat
           /\ Open /\ Branch(Top)
           /\ Top \in Items
<1>1. Len(work) >= 3 /\ Top = work[Len(work)] /\ Top \in Items /\ Len(work) \in Nat
  <2>1. Len(work) \in Nat
    BY DEF SourceTypes
  <2> QED BY <2>1, TopInFunction, Zenon DEF Inside
<1>2. Open
  BY <1>1 DEF Inside, Open
<1>3. funs # <<>>
  BY <1>1 DEF Shape, Emitted, Inside
<1>4. Home \in Nat
  BY <1>3, FunFields
<1>5. Branch(Top)
  BY <1>1, <1>2 DEF Branches, Handled
<1> QED BY <1>1, <1>2, <1>4, <1>5 DEF Branches, Begun, Body, PrologueLen, SourceTypes, BytesOK

\* A jump is emitted at the end of the code.
LEMMA EmitJump ==
    ASSUME SourceTypes, Shape, Branches, Inside, NEW op \in Jumps, NEW w \in Widths \cup {0},
           NEW arg \in Int, NEW b, b = EmitAll(bytes, <<Instr(op, w, arg)>>)
    PROVE  /\ BytesOK(b) /\ b.used > bytes.used
           /\ DOMAIN b.code = DOMAIN bytes.code \cup {bytes.used}
           /\ \A x \in DOMAIN bytes.code : x # bytes.used /\ b.code[x] = bytes.code[x]
           /\ b.code[bytes.used].op \in Jumps
           /\ b.code[bytes.used].arg = arg
<1> DEFINE i == Instr(op, w, arg)
<1>1. op \in Ops
  BY DEF Jumps, Ops, WithOperand
<1>2. i \in InstrRecords /\ i.op = op /\ i.arg = arg /\ Length(i) > 0
  <2>1. i \in InstrRecords
    BY <1>1, InstrType, Zenon
  <2>2. Length(i) \in Nat /\ Length(i) >= 1
    BY <2>1, LengthType, Zenon
  <2> QED BY <2>1, <2>2 DEF Instr
<1> HIDE DEF i
<1>3. b = Emit(bytes, i)
  <2>1. Len(<<i>>) = 1 /\ <<i>>[1] = i
    OBVIOUS
  <2> QED BY <2>1 DEF EmitAll, i
<1>4. BytesOK(bytes) /\ bytes.used \in Nat
  BY DEF SourceTypes, BytesOK
<1>5. BytesOK(b)
  BY <1>2, <1>3, <1>4, EmitType
<1>6. /\ b.code = [x \in DOMAIN bytes.code \cup {bytes.used} |->
                       IF x = bytes.used THEN i ELSE bytes.code[x]]
      /\ b.used = bytes.used + Length(i)
  BY <1>3 DEF Emit
<1>7. \A x \in DOMAIN bytes.code : x # bytes.used
  BY <1>4 DEF BytesOK
<1> QED BY <1>2, <1>4, <1>5, <1>6, <1>7, LengthType

\* A branch that lands still does when the code has grown.
LEMMA LandsGrows ==
    ASSUME Grows, NEW y, Lands(y), Near(y)
    PROVE  Landing(y)
  BY DEF Grows, Lands, Landing

LEMMA EmitWhileBranches ==
    ASSUME SourceTypes, Shape, Branches, Kept, UNCHANGED funs, EmitWhile
    PROVE  Branches' /\ Directed
<1> DEFINE it == ItemWith("whilejz", NewCell)
           jz == [it EXCEPT !.to = bytes.used]
           ex == ItemWith("expr", NewCell)
           s  == <<More, jz, ex>>
<1>1. Top.step = "stmts" /\ Inside /\ NewCell \in Nat /\ Become(s) /\ UNCHANGED bytes
  BY DEF EmitWhile, At, Inside, NewCell, SourceTypes
<1>2. /\ Body \in Nat /\ Body <= bytes.used /\ bytes.used \in Nat
  BY <1>1, BodyType
<1>3. Grows
  BY <1>1, <1>2 DEF Grows
<1>4. it \in Items /\ it.step = "whilejz"
  <2>1. "whilejz" \in Steps
    BY DEF Steps
  <2> QED BY <1>1, <2>1, CellItem
<1> HIDE DEF it
<1>5. jz \in Items /\ jz.step = "whilejz" /\ jz.to = bytes.used
  BY <1>2, <1>4 DEF Items
<1>6. More \in Items /\ More.step \notin Branching
  BY <1>1, MoreItem DEF Pending
<1>7. ex \in Items /\ ex.step \notin Branching
  BY <1>1, CellItems DEF Pending
<1> HIDE DEF jz, ex
<1>8. Branched(jz)
  <2>1. Near(jz.to)
    BY <1>1, <1>5 DEF Near
  <2> QED BY <1>1, <1>2, <1>5, <2>1 DEF Branched, Landing, Waits
<1>9. Branched(More) /\ Branched(ex)
  BY <1>6, <1>7, NotBranched
<1>10. s \in Seq(Items) /\ \A j \in 1..Len(s) : Branched(s[j])
  <2>1. s \in Seq(Items) /\ Len(s) = 3 /\ s[1] = More /\ s[2] = jz /\ s[3] = ex
    BY <1>5, <1>6, <1>7
  <2> HIDE DEF s
  <2> QED BY <1>8, <1>9, <2>1
<1>11. \A x : ~Waits(Top, x)
  BY <1>1, NoBranch DEF Branching
<1> HIDE DEF s
<1> QED BY <1>1, <1>3, <1>10, <1>11, BecomeStep

\* The statements a condition guards, behind the item that waits for its JZ.
LEMMA GuardStep ==
    ASSUME SourceTypes, Shape, Branches, Kept, UNCHANGED funs, Inside, Top.step \notin {"ifjmp", "endif", "endwhile"},
           NEW w \in Widths \cup {0}, bytes' = EmitAll(bytes, <<Instr("jz", w, 0)>>),
           NEW end \in Items, end.step \in {"ifjmp", "endwhile"}, end.jz = bytes.used,
           end.step = "endwhile" => Lands(end.to) /\ Near(end.to),
           Become(<<end, CloseScope, Item("stmts")>>)
    PROVE  Branches' /\ Directed
<1> DEFINE stmts == Item("stmts")
           s     == <<end, CloseScope, stmts>>
<1>1. /\ Body \in Nat /\ Body <= bytes.used /\ bytes.used \in Nat
  BY BodyType
<1>2. /\ BytesOK(bytes') /\ bytes'.used > bytes.used
      /\ DOMAIN bytes'.code = DOMAIN bytes.code \cup {bytes.used}
      /\ \A x \in DOMAIN bytes.code : x # bytes.used /\ bytes'.code[x] = bytes.code[x]
      /\ bytes'.code[bytes.used].op \in Jumps
  <2>1. "jz" \in Jumps /\ 0 \in Int
    BY DEF Jumps
  <2> QED BY <2>1, EmitJump
<1>3. Grows
  BY <1>1, <1>2 DEF Grows, BytesOK
<1>4. Branched(end)
  <2>1. end.step = "endwhile" => Landing(end.to)
    BY <1>3, LandsGrows
  <2>2. Jumping(bytes.used) /\ bytes.used # None
    BY <1>1, <1>2 DEF Jumping, None
  <2> QED BY <2>1, <2>2 DEF Branched, Waits
<1>5. /\ CloseScope \in Items /\ CloseScope.step \notin Branching
      /\ stmts \in Items /\ stmts.step \notin Branching
  BY BodyItems DEF Pending
<1>6. Branched(CloseScope) /\ Branched(stmts)
  BY <1>5, NotBranched
<1>7. Become(s)
  OBVIOUS
<1> HIDE DEF stmts
<1>8. s \in Seq(Items) /\ Len(s) = 3 /\ s[1] = end /\ s[2] = CloseScope /\ s[3] = stmts
  BY <1>5
<1> HIDE DEF s
<1>9. \A j \in 1..Len(s) : Branched(s[j])
  BY <1>4, <1>6, <1>8
<1>10. ASSUME NEW x \in DOMAIN bytes'.code
       PROVE  \/ x \in DOMAIN bytes.code /\ bytes'.code[x].arg = bytes.code[x].arg /\ ~Waits(Top, x)
              \/ Landing(bytes'.code[x].arg)
              \/ \E j \in 1..Len(s) : Waits(s[j], x)
  <2>1. CASE x \in DOMAIN bytes.code
    BY <1>2, <2>1 DEF Waits
  <2>2. CASE x = bytes.used
    <3>1. Waits(s[1], x) /\ 1 \in 1..Len(s)
      BY <1>8, <2>2 DEF Waits
    <3> QED BY <3>1
  <2> QED BY <1>2, <2>1, <2>2
<1> QED BY <1>3, <1>7, <1>8, <1>9, <1>10, BecomeStep

LEMMA IfJzBranches ==
    ASSUME SourceTypes, Shape, Branches, Kept, UNCHANGED funs, IfJz
    PROVE  Branches' /\ Directed
<1> DEFINE it  == Item("ifjmp")
           end == [it EXCEPT !.jz = bytes.used]
           w   == TypeSize(Cell)
<1>1. Top.step = "ifjz" /\ Inside /\ Top.step \in CellSteps
  BY DEF IfJz, At, Inside, CellSteps
<1>2. CASE Fail
  BY <1>2, FailSame, SameBranches
<1>3. CASE ~Fail
  <2>1. /\ bytes' = EmitAll(bytes, <<Instr("jz", w, 0)>>)
        /\ Become(<<end, CloseScope, Item("stmts")>>)
    BY <1>3 DEF IfJz
  <2>2. w \in Widths \cup {0} /\ bytes.used \in Nat
    BY <1>1, CellType DEF SourceTypes, BytesOK
  <2>3. it \in Items /\ it.step = "ifjmp"
    <3>1. "ifjmp" \in Steps
      BY DEF Steps
    <3> QED BY <3>1, ItemType
  <2> HIDE DEF it, w
  <2>4. end \in Items /\ end.step = "ifjmp" /\ end.jz = bytes.used
    BY <2>2, <2>3 DEF Items
  <2> HIDE DEF end
  <2> QED BY <1>1, <2>1, <2>2, <2>4, GuardStep
<1> QED BY <1>2, <1>3

LEMMA WhileJzBranches ==
    ASSUME SourceTypes, Shape, Branches, Kept, UNCHANGED funs, WhileJz
    PROVE  Branches' /\ Directed
<1> DEFINE it  == Item("endwhile")
           end == [it EXCEPT !.jz = bytes.used, !.to = Top.to]
           w   == TypeSize(Cell)
<1>1. Top.step = "whilejz" /\ Inside /\ Top.step \in CellSteps
  BY DEF WhileJz, At, Inside, CellSteps
<1>2. CASE Fail
  BY <1>2, FailSame, SameBranches
<1>3. CASE ~Fail
  <2>1. /\ bytes' = EmitAll(bytes, <<Instr("jz", w, 0)>>)
        /\ Become(<<end, CloseScope, Item("stmts")>>)
    BY <1>3 DEF WhileJz
  <2>2. w \in Widths \cup {0} /\ bytes.used \in Nat
    BY <1>1, CellType DEF SourceTypes, BytesOK
  <2>3. it \in Items /\ it.step = "endwhile"
    <3>1. "endwhile" \in Steps
      BY DEF Steps
    <3> QED BY <3>1, ItemType
  <2>4. Top \in Items /\ Lands(Top.to)
    BY <1>1, BodyType DEF Branch
  <2>5. Top.to \in Nat /\ Near(Top.to)
    BY <1>1, <2>4 DEF Items, Near
  <2> HIDE DEF it, w
  <2>6. end \in Items /\ end.step = "endwhile" /\ end.jz = bytes.used /\ end.to = Top.to
    BY <2>2, <2>3, <2>5 DEF Items
  <2> HIDE DEF end
  <2> QED BY <1>1, <2>1, <2>2, <2>4, <2>5, <2>6, GuardStep
<1> QED BY <1>2, <1>3

\* The JMP at the end of an if, whatever follows it.
LEMMA JumpStep ==
    ASSUME SourceTypes, Shape, Branches, Kept, UNCHANGED funs, Top.step = "ifjmp",
           bytes' = EmitAll(bytes, <<Instr("jmp", 0, 0)>>),
           NEW items \in Seq(Items), Become(items), Len(items) >= 1,
           items[1].step = "endif", items[1].jz = Top.jz, items[1].jmp = bytes.used,
           items[1].to = bytes'.used,
           \A j \in 2..Len(items) : items[j].step \notin Branching \/ items[j] = Item("ifjmp")
    PROVE  Branches' /\ Directed
<1> DEFINE end == items[1]
<1>1. Inside
  BY DEF Inside
<1>2. /\ Body \in Nat /\ Body <= bytes.used /\ bytes.used \in Nat /\ Branch(Top)
  BY <1>1, BodyType
<1>3. /\ BytesOK(bytes') /\ bytes'.used > bytes.used
      /\ DOMAIN bytes'.code = DOMAIN bytes.code \cup {bytes.used}
      /\ \A x \in DOMAIN bytes.code : x # bytes.used /\ bytes'.code[x] = bytes.code[x]
      /\ bytes'.code[bytes.used].op \in Jumps
  <2> DEFINE op == "jmp"
             w == 0
             b == EmitAll(bytes, <<Instr(op, w, w)>>)
  <2>1. op \in Jumps /\ w \in Int /\ w \in Widths \cup {0}
    BY DEF Jumps
  <2> HIDE DEF op, w
  <2>2. /\ BytesOK(b) /\ b.used > bytes.used
        /\ DOMAIN b.code = DOMAIN bytes.code \cup {bytes.used}
        /\ \A x \in DOMAIN bytes.code : x # bytes.used /\ b.code[x] = bytes.code[x]
        /\ b.code[bytes.used].op \in Jumps
    <3>1. b = EmitAll(bytes, <<Instr(op, w, w)>>)
      OBVIOUS
    <3> HIDE DEF b
    <3> QED BY <1>1, <2>1, <3>1, EmitJump
  <2>3. bytes' = b
    BY DEF op, w
  <2> HIDE DEF b
  <2> QED BY <2>2, <2>3
<1>4. Grows
  BY <1>2, <1>3 DEF Grows, BytesOK
<1>5. Branched(end)
  <2>1. Landing(end.to)
    <3>1. Near(end.to)
      BY DEF Near, Branching
    <3> QED BY <1>2, <1>3, <3>1 DEF Landing, BytesOK
  <2>2. Jumping(end.jmp) /\ end.jmp # None
    BY <1>2, <1>3 DEF Jumping, None
  <2>3. end.jz # None => Jumping(end.jz)
    <3>1. Top.jz # None => IsJump(Top.jz)
      BY <1>2 DEF Branch, Waits
    <3> QED BY <1>3, <3>1 DEF IsJump, Jumping
  <2> QED BY <2>1, <2>2, <2>3 DEF Branched
<1>6. ASSUME NEW j \in 1..Len(items) PROVE Branched(items[j])
  <2>1. CASE j = 1
    BY <1>5, <2>1
  <2>2. CASE j # 1
    <3>1. items[j].step \notin Branching \/ items[j] = Item("ifjmp")
      BY <2>2
    <3>2. CASE items[j].step \notin Branching
      BY <3>2, NotBranched
    <3>3. CASE items[j] = Item("ifjmp")
      <4>1. Item("ifjmp").step = "ifjmp" /\ Item("ifjmp").jz = None
        BY DEF Item
      <4>2. items[j].step = "ifjmp" /\ items[j].jz = None
        BY <3>3, <4>1, Zenon
      <4> QED BY <4>2 DEF Branched, Waits
    <3> QED BY <3>1, <3>2, <3>3
  <2> QED BY <2>1, <2>2
<1>7. ASSUME NEW x \in DOMAIN bytes'.code
      PROVE  \/ x \in DOMAIN bytes.code /\ bytes'.code[x].arg = bytes.code[x].arg /\ ~Waits(Top, x)
             \/ Landing(bytes'.code[x].arg)
             \/ \E j \in 1..Len(items) : Waits(items[j], x)
  <2>1. CASE x = bytes.used \/ x = Top.jz
    <3>1. Waits(items[1], x) /\ 1 \in 1..Len(items)
      BY <2>1 DEF Waits
    <3> QED BY <3>1
  <2>2. CASE x # bytes.used /\ x # Top.jz
    BY <1>3, <2>2 DEF Waits
  <2> QED BY <2>1, <2>2
<1> QED BY <1>1, <1>4, <1>6, <1>7, BecomeStep

LEMMA IfJmpBranches ==
    ASSUME SourceTypes, Shape, Branches, Kept, UNCHANGED funs,
           NEW else \in {"none", "elseif", "else"}, IfJmp(else)
    PROVE  Branches' /\ Directed
<1> DEFINE b    == EmitAll(bytes, <<Instr("jmp", 0, 0)>>)
           it   == Item("endif")
           end  == [it EXCEPT !.jz = Top.jz, !.jmp = bytes.used, !.to = b.used]
           jz   == ItemWith("ifjz", NewCell)
           ex   == ItemWith("expr", NewCell)
           jmp  == Item("ifjmp")
           stmts == Item("stmts")
<1>1. Top.step = "ifjmp" /\ Inside /\ bytes' = b /\ NewCell \in Nat
  BY DEF IfJmp, At, Inside, NewCell, SourceTypes
<1>2. bytes.used \in Nat /\ b.used \in Nat /\ Top.jz \in Nat \cup {None}
  <2>1. Top \in Items
    BY <1>1, BodyType
  <2>2. BytesOK(bytes') /\ BytesOK(bytes)
    BY DEF Kept, SourceTypes
  <2> HIDE DEF b
  <2> QED BY <1>1, <2>1, <2>2 DEF BytesOK, Items
<1>3. it \in Items /\ it.step = "endif" /\ jmp \in Items
  <2>1. "endif" \in Steps /\ "ifjmp" \in Steps
    BY DEF Steps
  <2> QED BY <2>1, ItemType
<1>4. \/ Become(<<end>>) \/ Become(<<end, jz, ex>>) \/ Become(<<end, jmp, CloseScope, stmts>>)
  BY DEF IfJmp
<1>5. jz \in Items /\ jz.step \notin Branching /\ ex \in Items /\ ex.step \notin Branching
  BY <1>1, CellItems DEF Pending
<1>6. /\ CloseScope \in Items /\ CloseScope.step \notin Branching
      /\ stmts \in Items /\ stmts.step \notin Branching
  BY BodyItems DEF Pending
<1>7. bytes' = EmitAll(bytes, <<Instr("jmp", 0, 0)>>)
  BY <1>1
<1> HIDE DEF it, b
<1>8. end \in Items /\ end.step = "endif" /\ end.jz = Top.jz /\ end.jmp = bytes.used /\ end.to = b.used
  BY <1>2, <1>3 DEF Items
<1> HIDE DEF end, jz, ex, jmp, stmts
<1>9. ASSUME NEW s \in Seq(Items), Become(s), Len(s) >= 1, s[1] = end,
              \A j \in 2..Len(s) : s[j].step \notin Branching \/ s[j] = Item("ifjmp")
       PROVE  Branches' /\ Directed
  <2>1. /\ s[1].step = "endif" /\ s[1].jz = Top.jz /\ s[1].jmp = bytes.used
        /\ s[1].to = bytes'.used
    BY <1>1, <1>8, <1>9
  <2> QED BY <1>1, <1>7, <1>9, <2>1, JumpStep
<1>10. CASE Become(<<end>>)
  <2> DEFINE s == <<end>>
  <2>1. s \in Seq(Items) /\ Len(s) = 1 /\ s[1] = end
    BY <1>8
  <2>2. Become(s)
    BY <1>10
  <2> HIDE DEF s
  <2>3. \A j \in 2..Len(s) : FALSE
    BY <2>1
  <2> QED BY <1>9, <2>1, <2>2, <2>3
<1>11. CASE Become(<<end, jz, ex>>)
  <2> DEFINE s == <<end, jz, ex>>
  <2>1. s \in Seq(Items) /\ Len(s) = 3 /\ s[1] = end /\ s[2] = jz /\ s[3] = ex
    BY <1>5, <1>8
  <2>2. Become(s)
    BY <1>11
  <2> HIDE DEF s
  <2>3. \A j \in 2..Len(s) : s[j].step \notin Branching \/ s[j] = Item("ifjmp")
    <3> SUFFICES ASSUME NEW j \in 2..Len(s) PROVE s[j].step \notin Branching
      OBVIOUS
    <3>1. j = 2 \/ j = 3
      BY <2>1
    <3> QED BY <1>5, <2>1, <3>1
  <2> QED BY <1>9, <2>1, <2>2, <2>3
<1>12. CASE Become(<<end, jmp, CloseScope, stmts>>)
  <2> DEFINE s == <<end, jmp, CloseScope, stmts>>
  <2>1. s \in Seq(Items) /\ Len(s) = 4 /\ s[1] = end /\ s[2] = jmp /\ s[3] = CloseScope /\ s[4] = stmts
    BY <1>3, <1>6, <1>8
  <2>2. Become(s)
    BY <1>12
  <2> HIDE DEF s
  <2>3. \A j \in 2..Len(s) : s[j].step \notin Branching \/ s[j] = Item("ifjmp")
    <3> SUFFICES ASSUME NEW j \in 2..Len(s)
                 PROVE  s[j].step \notin Branching \/ s[j] = Item("ifjmp")
      OBVIOUS
    <3>1. j = 2 \/ j = 3 \/ j = 4
      BY <2>1
    <3> QED BY <1>6, <2>1, <3>1 DEF jmp
  <2> QED BY <1>9, <2>1, <2>2, <2>3
<1> QED BY <1>4, <1>10, <1>11, <1>12

LEMMA BecomeNothing ==
    ASSUME SourceTypes, work' = Front(work)
    PROVE  <<>> \in Seq(Items) /\ Become(<<>>) /\ Len(<<>>) = 0
<1>1. Front(work) \in Seq(Items)
  <2>1. work \in Seq(Items) /\ Len(work) >= 1
    BY DEF SourceTypes
  <2> QED BY <2>1, FrontType, Zenon DEF Front
<1>2. Front(work) \o <<>> = Front(work)
  BY <1>1, ConcatEmptySeq, Zenon
<1> QED BY <1>2 DEF Become

\* Both branches of an if are patched to go where they should.
LEMMA EndIfBranches ==
    ASSUME SourceTypes, Shape, Branches, Kept, UNCHANGED funs, EndIf
    PROVE  Branches' /\ Directed
<1> DEFINE b == IF Top.jz = None THEN bytes ELSE Patch(bytes, Top.jz, Top.to)
<1>1. Top.step = "endif" /\ Inside /\ bytes' = Patch(b, Top.jmp, bytes.used) /\ work' = Front(work)
  BY DEF EndIf, At, Inside
<1>2. /\ Body \in Nat /\ Body <= bytes.used /\ bytes.used \in Nat /\ Branch(Top)
      /\ Top \in Items
  BY <1>1, BodyType
<1>3. Lands(Top.to) /\ Top.to \in Int /\ BytesOK(bytes)
  BY <1>1, <1>2 DEF Branch, Items, SourceTypes
<1>4. /\ BytesOK(b) /\ b.used = bytes.used
      /\ DOMAIN b.code = DOMAIN bytes.code
      /\ \A y \in DOMAIN bytes.code : /\ b.code[y].op = bytes.code[y].op
                                      /\ b.code[y].arg \in {bytes.code[y].arg, Top.to}
                                      /\ y # Top.jz => b.code[y].arg = bytes.code[y].arg
                                      /\ y = Top.jz => b.code[y].arg = Top.to
  <2>1. CASE Top.jz = None
    <3>1. \A y \in DOMAIN bytes.code : y # Top.jz
      BY <1>3, <2>1 DEF BytesOK, None
    <3> QED BY <1>3, <2>1, <3>1
  <2>2. CASE Top.jz # None
    <3>1. b = Patch(bytes, Top.jz, Top.to)
      BY <2>2
    <3> HIDE DEF b
    <3> QED BY <1>3, <3>1, PatchChanges
  <2> QED BY <2>1, <2>2
<1> HIDE DEF b
<1>5. /\ BytesOK(bytes') /\ bytes'.used = b.used
      /\ DOMAIN bytes'.code = DOMAIN b.code
      /\ \A y \in DOMAIN b.code : /\ bytes'.code[y].op = b.code[y].op
                                  /\ y # Top.jmp => bytes'.code[y] = b.code[y]
                                  /\ y = Top.jmp => bytes'.code[y].arg = bytes.used
  BY <1>1, <1>2, <1>4, PatchChanges
<1>6. Grows
  BY <1>2, <1>4, <1>5 DEF Grows
<1>7. Landing(Top.to) /\ Landing(bytes.used)
  <2>1. Near(bytes.used) /\ Near(Top.to)
    BY <1>1 DEF Near, Branching
  <2>2. Landing(bytes.used)
    BY <1>2, <1>4, <1>5, <2>1 DEF Landing
  <2> QED BY <1>3, <1>6, <2>1, <2>2, LandsGrows
<1>8. ASSUME NEW x \in DOMAIN bytes'.code
      PROVE  \/ x \in DOMAIN bytes.code /\ bytes'.code[x].arg = bytes.code[x].arg /\ ~Waits(Top, x)
             \/ Landing(bytes'.code[x].arg)
  <2>1. CASE x = Top.jmp
    BY <1>4, <1>5, <1>7, <2>1
  <2>2. CASE x # Top.jmp /\ x = Top.jz
    BY <1>4, <1>5, <1>7, <2>2
  <2>3. CASE x # Top.jmp /\ x # Top.jz
    BY <1>4, <1>5, <2>3 DEF Waits
  <2> QED BY <2>1, <2>2, <2>3
<1>9. <<>> \in Seq(Items) /\ Become(<<>>) /\ Len(<<>>) = 0
  BY <1>1, BecomeNothing
<1> DEFINE s == <<>>
<1>10. s \in Seq(Items) /\ Become(s) /\ \A j \in 1..Len(s) : Branched(s[j])
  BY <1>9
<1> HIDE DEF s
<1> QED BY <1>1, <1>6, <1>8, <1>10, BecomeStep

\* So are those of a loop, one as it is emitted.
LEMMA EndWhileBranches ==
    ASSUME SourceTypes, Shape, Branches, Kept, UNCHANGED funs, EndWhile
    PROVE  Branches' /\ Directed
<1> DEFINE b == EmitAll(bytes, <<Instr("jmp", 0, Top.to)>>)
<1>1. Top.step = "endwhile" /\ Inside /\ bytes' = Patch(b, Top.jz, b.used) /\ work' = Front(work)
  BY DEF EndWhile, At, Inside
<1>2. /\ Body \in Nat /\ Body <= bytes.used /\ bytes.used \in Nat /\ Branch(Top)
      /\ Top \in Items
  BY <1>1, BodyType
<1>3. Lands(Top.to) /\ Top.to \in Int /\ BytesOK(bytes) /\ IsJump(Top.jz)
  BY <1>1, <1>2 DEF Branch, Waits, Items, SourceTypes
<1>4. /\ BytesOK(b) /\ b.used > bytes.used
      /\ DOMAIN b.code = DOMAIN bytes.code \cup {bytes.used}
      /\ \A x \in DOMAIN bytes.code : x # bytes.used /\ b.code[x] = bytes.code[x]
      /\ b.code[bytes.used].arg = Top.to
  <2>1. "jmp" \in Jumps /\ 0 \in Widths \cup {0}
    BY DEF Jumps
  <2> QED BY <1>1, <1>3, <2>1, EmitJump
<1> HIDE DEF b
<1>5. b.used \in Nat
  BY <1>4 DEF BytesOK
<1>6. /\ BytesOK(bytes') /\ bytes'.used = b.used
      /\ DOMAIN bytes'.code = DOMAIN b.code
      /\ \A y \in DOMAIN b.code : /\ bytes'.code[y].op = b.code[y].op
                                  /\ y # Top.jz => bytes'.code[y] = b.code[y]
                                  /\ y = Top.jz => bytes'.code[y].arg = b.used
  BY <1>1, <1>4, <1>5, PatchChanges
<1>7. Grows
  BY <1>2, <1>4, <1>5, <1>6 DEF Grows
<1>8. Landing(Top.to) /\ Landing(b.used)
  <2>1. Near(b.used) /\ Near(Top.to)
    BY <1>1, <1>6 DEF Near, Branching
  <2>2. Landing(b.used)
    BY <1>2, <1>4, <1>5, <1>6, <2>1 DEF Landing
  <2> QED BY <1>3, <1>7, <2>1, <2>2, LandsGrows
<1>9. ASSUME NEW x \in DOMAIN bytes'.code
      PROVE  \/ x \in DOMAIN bytes.code /\ bytes'.code[x].arg = bytes.code[x].arg /\ ~Waits(Top, x)
             \/ Landing(bytes'.code[x].arg)
  <2>1. CASE x = Top.jz
    BY <1>4, <1>6, <1>8, <2>1
  <2>2. CASE x # Top.jz /\ x = bytes.used
    BY <1>4, <1>6, <1>8, <2>2
  <2>3. CASE x # Top.jz /\ x # bytes.used
    BY <1>1, <1>4, <1>6, <2>3 DEF Waits
  <2> QED BY <2>1, <2>2, <2>3
<1>10. <<>> \in Seq(Items) /\ Become(<<>>) /\ Len(<<>>) = 0
  BY <1>1, BecomeNothing
<1> DEFINE s == <<>>
<1>11. s \in Seq(Items) /\ Become(s) /\ \A j \in 1..Len(s) : Branched(s[j])
  BY <1>10
<1> HIDE DEF s
<1> QED BY <1>1, <1>7, <1>9, <1>11, BecomeStep

-----------------------------------------------------------------------------
(* All steps inside a function.                                            *)

\* What the steps that are none of a branch emit and leave.
LEMMA StatementCode ==
    ASSUME SourceTypes, Shape, Statement \/ Expression
    PROVE  \/ UNCHANGED <<bytes, work>>
           \/ Emits(Calm) /\ Leaves(Branching) /\ Top.step \notin Branching
           \/ EmitWhile \/ IfJz \/ (\E else \in {"none", "elseif", "else"} : IfJmp(else))
           \/ EndIf \/ WhileJz \/ EndWhile
<1> DEFINE P == \/ UNCHANGED <<bytes, work>>
                \/ Emits(Calm) /\ Leaves(Branching) /\ Top.step \notin Branching
<1>1. ASSUME Quiet \/ Fail, Top.step \notin Branching PROVE P
  BY <1>1, QuietIsPlain, FailSame
<1>2. ASSUME \/ EndStmts \/ EndScope \/ EndReturn
             \/ EmitIf \/ EmitBlock \/ EmitMatch \/ EmitExprStmt
      PROVE  P
  <2>1. Top.step \notin Branching
    BY <1>2 DEF EndStmts, EndScope, EndReturn, EmitIf, EmitBlock, EmitMatch, EmitExprStmt, At, Branching
  <2>2. Quiet \/ Fail
    BY <1>2, QuietStatements, Zenon
  <2> HIDE DEF P
  <2> QED BY <1>1, <2>1, <2>2
<1>3. ASSUME NEW name \in VarNames, NEW t \in VarTypes, NEW init \in BOOLEAN, EmitVar(name, t, init)
      PROVE  P
  <2>1. Top.step \notin Branching
    BY <1>3 DEF EmitVar, At, Branching
  <2> HIDE DEF P
  <2> QED BY <1>1, <1>3, <2>1, EmitVarQuiet, Zenon
<1>4. ASSUME NEW expr \in BOOLEAN, EmitReturn(expr)
      PROVE  P
  <2>1. Top.step \notin Branching
    BY <1>4 DEF EmitReturn, At, Branching
  <2> HIDE DEF P
  <2> QED BY <1>1, <1>4, <2>1, EmitReturnQuiet, Zenon
<1>5. ASSUME EndVar PROVE P
  <2>1. Top.step \notin Branching
    BY <1>5 DEF EndVar, At, Branching
  <2> QED BY <1>5, <2>1, EndVarPlain, Zenon
<1>6. ASSUME NEW id \in {"int", "float", "string"}, NEW v \in Literals \cup FloatImages, Literal(id, v)
      PROVE  P
  <2>1. Top.step \notin Branching
    BY <1>6 DEF Literal, At, Branching
  <2> HIDE DEF P
  <2> QED BY <1>1, <1>6, <2>1, LiteralQuiet, Zenon
<1>7. ASSUME Arg \/ EndArg \/ EndCall \/ EndUnary \/ Push \/ EndBinary PROVE P
  <2>1. Top.step \notin Branching
    BY <1>7 DEF Arg, EndArg, EndCall, EndUnary, Push, EndBinary, At, Branching
  <2>2. Quiet \/ Fail
    BY <1>7, ArgQuiet, EndArgQuiet, EndCallQuiet, OperatorQuiet, Zenon
  <2> HIDE DEF P
  <2> QED BY <1>1, <2>1, <2>2
<1>8. ASSUME Store \/ EndAssgn PROVE P
  <2>1. Top.step \notin Branching
    BY <1>8 DEF Store, EndAssgn, At, Branching
  <2> QED BY <1>8, <2>1, StorePlain, FailSame
<1>9. ASSUME NEW name \in UsedNames, Ident(name) PROVE P
  <2>1. Top.step \notin Branching
    BY <1>9 DEF Ident, At, Branching
  <2> QED BY <1>9, <2>1, IdentPlain, FailSame
<1>10. ASSUME NEW name \in UsedNames, NEW n \in 0..MaxArgs, Call(name, n) PROVE P
  <2>1. Top.step \notin Branching
    BY <1>10 DEF Call, At, Branching
  <2> QED BY <1>10, <2>1, CallQuiet, QuietIsPlain, Zenon
<1>11. ASSUME NEW op \in UnOps, EmitUnary(op) PROVE P
  <2>1. Top.step \notin Branching
    BY <1>11 DEF EmitUnary, At, Branching
  <2> HIDE DEF P
  <2> QED BY <1>1, <1>11, <2>1, EmitUnaryQuiet, Zenon
<1>12. ASSUME NEW op \in BinOps, EmitBinary(op) PROVE P
  <2>1. Top.step \notin Branching
    BY <1>12 DEF EmitBinary, At, Branching
  <2> HIDE DEF P
  <2> QED BY <1>1, <1>12, <2>1, EmitBinaryQuiet, Zenon
<1>13. ASSUME NEW name \in UsedNames, NEW op \in AssignOps, Assign(name, op) PROVE P
  <2>1. Top.step \notin Branching
    BY <1>13 DEF Assign, At, Branching
  <2> QED BY <1>13, <2>1, AssignPlain, Zenon
<1> HIDE DEF P
<1>14. CASE Statement
  BY <1>2, <1>3, <1>4, <1>5, <1>14, Zenon DEF Statement, P
<1>15. CASE Expression
  BY <1>6, <1>7, <1>8, <1>9, <1>10, <1>11, <1>12, <1>13, <1>15, Zenon DEF Expression, P
<1> QED BY <1>14, <1>15, Zenon

LEMMA StatementBranches ==
    ASSUME SourceTypes, Shape, Branches, Kept, Statement \/ Expression
    PROVE  Branches' /\ Directed
<1>1. Inside /\ UNCHANGED funs
  BY StatementScopes, StatementFuns
<1>2. ASSUME UNCHANGED <<bytes, work>> PROVE Branches' /\ Directed
  BY <1>1, <1>2, SameBranches
<1>3. ASSUME Emits(Calm), Leaves(Branching), Top.step \notin Branching PROVE Branches' /\ Directed
  BY <1>1, <1>3, PlainStep
<1>4. ASSUME EmitWhile \/ IfJz \/ EndIf \/ WhileJz \/ EndWhile PROVE Branches' /\ Directed
  BY <1>1, <1>4, EmitWhileBranches, IfJzBranches, EndIfBranches, WhileJzBranches, EndWhileBranches
<1>5. ASSUME NEW else \in {"none", "elseif", "else"}, IfJmp(else) PROVE Branches' /\ Directed
  BY <1>1, <1>5, IfJmpBranches
<1> QED BY <1>2, <1>3, <1>4, <1>5, StatementCode, Zenon

\* They change no code but the operands of jumps in the body.
LEMMA StatementKeeps ==
    ASSUME SourceTypes, Shape, Branches, Statement \/ Expression
    PROVE  /\ Grows
           /\ \A x \in DOMAIN bytes.code : bytes'.code[x] = bytes.code[x] \/ IsJump(x)
<1>1. Inside
  BY StatementScopes
<1>2. /\ bytes.used \in Nat /\ Branch(Top) /\ Top \in Items /\ BytesOK(bytes)
  BY <1>1, BodyType DEF SourceTypes
<1>3. ASSUME UNCHANGED bytes
      PROVE  /\ Grows
             /\ \A x \in DOMAIN bytes.code : bytes'.code[x] = bytes.code[x]
  BY <1>2, <1>3 DEF Grows
<1>4. ASSUME NEW s \in Seq(InstrRecords), bytes' = EmitAll(bytes, s)
      PROVE  /\ Grows
             /\ \A x \in DOMAIN bytes.code : bytes'.code[x] = bytes.code[x]
  BY <1>4, EmitGrows
<1>5. ASSUME Emits(Calm)
      PROVE  /\ Grows
             /\ \A x \in DOMAIN bytes.code : bytes'.code[x] = bytes.code[x]
  <2>1. PICK s \in Seq(Calm) : bytes' = EmitAll(bytes, s)
    BY <1>5 DEF Emits
  <2>2. Calm \subseteq InstrRecords
    BY MuteInstrs
  <2> QED BY <2>1, <2>2, EmitGrows
<1>6. CASE EmitWhile
  BY <1>3, <1>6 DEF EmitWhile
<1>7. CASE IfJz \/ WhileJz
  <2>1. Top.step \in CellSteps
    BY <1>7 DEF IfJz, WhileJz, At, CellSteps
  <2>2. "jz" \in Ops /\ TypeSize(Cell) \in Widths \cup {0} /\ 0 \in Int
    BY <2>1, CellType DEF Ops, WithOperand
  <2>3. <<Instr("jz", TypeSize(Cell), 0)>> \in Seq(InstrRecords)
    BY <2>2, OneInstr, Zenon
  <2>4. UNCHANGED bytes \/ bytes' = EmitAll(bytes, <<Instr("jz", TypeSize(Cell), 0)>>)
    BY <1>7 DEF IfJz, WhileJz, Fail
  <2> QED BY <1>3, <1>4, <2>3, <2>4, Zenon
<1>8. ASSUME NEW else \in {"none", "elseif", "else"}, IfJmp(else)
      PROVE  /\ Grows
             /\ \A x \in DOMAIN bytes.code : bytes'.code[x] = bytes.code[x]
  <2>1. "jmp" \in Ops /\ 0 \in Widths \cup {0} /\ 0 \in Int
    BY DEF Ops, WithOperand
  <2>2. <<Instr("jmp", 0, 0)>> \in Seq(InstrRecords)
    BY <2>1, OneInstr, Zenon
  <2>3. bytes' = EmitAll(bytes, <<Instr("jmp", 0, 0)>>)
    BY <1>8 DEF IfJmp
  <2> QED BY <1>4, <2>2, <2>3, Zenon
<1>9. CASE EndIf
  <2> DEFINE b == IF Top.jz = None THEN bytes ELSE Patch(bytes, Top.jz, Top.to)
  <2>1. Top.step = "endif" /\ bytes' = Patch(b, Top.jmp, bytes.used)
    BY <1>9 DEF EndIf, At
  <2>2. Top.to \in Int
    BY <1>2 DEF Items
  <2>3. /\ BytesOK(b) /\ b.used = bytes.used
        /\ DOMAIN b.code = DOMAIN bytes.code
        /\ \A y \in DOMAIN bytes.code : /\ b.code[y].op = bytes.code[y].op
                                        /\ y # Top.jz \/ Top.jz = None => b.code[y] = bytes.code[y]
    <3>1. CASE Top.jz = None
      BY <1>2, <3>1
    <3>2. CASE Top.jz # None
      <4>1. b = Patch(bytes, Top.jz, Top.to)
        BY <3>2
      <4> HIDE DEF b
      <4> QED BY <1>2, <2>2, <3>2, <4>1, PatchChanges
    <3> QED BY <3>1, <3>2
  <2> HIDE DEF b
  <2>4. /\ BytesOK(bytes') /\ bytes'.used = b.used
        /\ DOMAIN bytes'.code = DOMAIN b.code
        /\ \A y \in DOMAIN b.code : /\ bytes'.code[y].op = b.code[y].op
                                    /\ y # Top.jmp => bytes'.code[y] = b.code[y]
    BY <1>2, <2>1, <2>3, PatchChanges
  <2>5. Grows
    BY <1>2, <2>3, <2>4 DEF Grows
  <2>6. ASSUME NEW x \in DOMAIN bytes.code PROVE bytes'.code[x] = bytes.code[x] \/ IsJump(x)
    <3>1. CASE x = Top.jmp \/ (x = Top.jz /\ Top.jz # None)
      BY <1>2, <2>1, <3>1 DEF Branch, Waits
    <3>2. CASE ~(x = Top.jmp \/ (x = Top.jz /\ Top.jz # None))
      BY <2>3, <2>4, <3>2
    <3> QED BY <3>1, <3>2
  <2> QED BY <2>5, <2>6
<1>10. CASE EndWhile
  <2> DEFINE b == EmitAll(bytes, <<Instr("jmp", 0, Top.to)>>)
  <2>1. Top.step = "endwhile" /\ bytes' = Patch(b, Top.jz, b.used)
    BY <1>10 DEF EndWhile, At
  <2>2. IsJump(Top.jz) /\ Top.to \in Int
    BY <1>2, <2>1 DEF Branch, Waits, Items
  <2>3. /\ BytesOK(b) /\ b.used > bytes.used
        /\ DOMAIN b.code = DOMAIN bytes.code \cup {bytes.used}
        /\ \A x \in DOMAIN bytes.code : x # bytes.used /\ b.code[x] = bytes.code[x]
    <3>1. "jmp" \in Jumps /\ 0 \in Widths \cup {0}
      BY DEF Jumps
    <3> QED BY <1>1, <2>2, <3>1, EmitJump
  <2> HIDE DEF b
  <2>4. b.used \in Nat
    BY <2>3 DEF BytesOK
  <2>5. /\ BytesOK(bytes') /\ bytes'.used = b.used
        /\ DOMAIN bytes'.code = DOMAIN b.code
        /\ \A y \in DOMAIN b.code : /\ bytes'.code[y].op = b.code[y].op
                                    /\ y # Top.jz => bytes'.code[y] = b.code[y]
    BY <2>1, <2>3, <2>4, PatchChanges
  <2>6. Grows
    BY <1>2, <2>3, <2>4, <2>5 DEF Grows
  <2> QED BY <2>2, <2>3, <2>5, <2>6
<1> QED BY <1>3, <1>5, <1>6, <1>7, <1>8, <1>9, <1>10, StatementCode

-----------------------------------------------------------------------------
(* The start and the end of a function.                                    *)

\* A function's code starts with its prologue, ten bytes.
LEMMA PrologueCode ==
    ASSUME SourceTypes, Shape, Prologue
    PROVE  /\ ~Open /\ Limit = bytes.used /\ bytes.used \in Nat
           /\ Len(funs) \in Nat /\ Len(funs') = Len(funs) + 1
           /\ \A k \in 1..Len(funs) : funs'[k] = funs[k]
           /\ funs'[Len(funs')] = [offset |-> bytes.used, nbytes |-> 0]
           /\ Home' = bytes.used /\ Body' = bytes'.used
           /\ bytes'.used = bytes.used + 10
           /\ DOMAIN bytes'.code = DOMAIN bytes.code \cup {bytes.used, bytes.used + 1}
           /\ \A x \in DOMAIN bytes.code : x < bytes.used /\ bytes'.code[x] = bytes.code[x]
           /\ bytes'.code[bytes.used].op = "enter"
           /\ bytes'.code[bytes.used + 1].op = "add_sp"
<1> DEFINE e == Instr("enter", 0, 0)
           a == Instr("add_sp", 0, 0)
           b == Emit(bytes, e)
           f == [offset |-> bytes.used, nbytes |-> 0]
<1>1. Top.step = "params" /\ bytes' = EmitAll(bytes, <<e, a>>) /\ funs' = Append(funs, f)
  BY DEF Prologue, At
<1>2. ~Open /\ Limit = bytes.used
  BY <1>1 DEF Open, Limit
<1>3. BytesOK(bytes) /\ bytes.used \in Nat /\ funs \in Seq(Funs)
  BY DEF SourceTypes, BytesOK
<1>4. bytes' = Emit(b, a)
  <2>1. Len(<<e, a>>) = 2 /\ <<e, a>>[1] = e /\ <<e, a>>[2] = a
    OBVIOUS
  <2> HIDE DEF e, a
  <2> QED BY <1>1, <2>1 DEF EmitAll
<1>5. e \in InstrRecords /\ a \in InstrRecords
  <2>1. "enter" \in Ops /\ "add_sp" \in Ops /\ 0 \in Int /\ 0 \in Widths \cup {0}
    BY DEF Ops, WithOperand
  <2> QED BY <2>1, InstrType, Zenon
<1>6. e.op = "enter" /\ a.op = "add_sp" /\ Length(e) = 1 /\ Length(a) = 9
  BY DEF Instr, Length, WithOperand
<1> HIDE DEF e, a
<1>7. BytesOK(b)
  BY <1>3, <1>5, EmitType
<1>8. /\ b.code = [x \in DOMAIN bytes.code \cup {bytes.used} |->
                       IF x = bytes.used THEN e ELSE bytes.code[x]]
      /\ b.used = bytes.used + 1
  BY <1>6 DEF Emit
<1> HIDE DEF b
<1>9. /\ bytes'.code = [x \in DOMAIN b.code \cup {b.used} |-> IF x = b.used THEN a ELSE b.code[x]]
      /\ bytes'.used = b.used + 9
  BY <1>4, <1>6 DEF Emit
<1>10. \A x \in DOMAIN bytes.code : x < bytes.used
  BY <1>3 DEF BytesOK
<1>11. /\ bytes'.used = bytes.used + 10
       /\ DOMAIN bytes'.code = DOMAIN bytes.code \cup {bytes.used, bytes.used + 1}
  BY <1>3, <1>8, <1>9
<1>12. /\ \A x \in DOMAIN bytes.code : bytes'.code[x] = bytes.code[x]
       /\ bytes'.code[bytes.used].op = "enter"
       /\ bytes'.code[bytes.used + 1].op = "add_sp"
  BY <1>3, <1>6, <1>8, <1>9, <1>10
<1> HIDE DEF f
<1>13. /\ Len(funs) \in Nat /\ Len(funs') = Len(funs) + 1
       /\ \A k \in 1..Len(funs) : funs'[k] = funs[k]
       /\ funs'[Len(funs')] = f
  BY <1>1, <1>3
<1>14. Home' = bytes.used
  BY <1>13 DEF Home, Last, f
<1>15. Body' = bytes'.used
  BY <1>11, <1>14 DEF Body, PrologueLen
<1> QED BY <1>2, <1>3, <1>10, <1>11, <1>12, <1>13, <1>14, <1>15 DEF f

LEMMA PrologueOpens ==
    ASSUME SourceTypes, Shape, Prologue
    PROVE  Open' /\ Len(work') = 3 /\ work'[3].step = "stmts"
<1> DEFINE it    == Item("stmts")
           stmts == [it EXCEPT !.n = 1]
<1>1. Top.step = "params" /\ Become(<<stmts>>)
  BY DEF Prologue, At
<1>2. it \in Items /\ it.step = "stmts"
  BY BodyItems, ItemType, PendingSteps
<1> HIDE DEF it
<1>3. stmts \in Items /\ stmts.step = "stmts"
  BY <1>2, NumberedItem
<1> HIDE DEF stmts
<1>4. Len(work') = 3 /\ work'[3] = stmts /\ Top' = stmts
  BY <1>1, <1>3, ParamsBecome, Zenon
<1> QED BY <1>3, <1>4 DEF Open

LEMMA PrologueBranches ==
    ASSUME SourceTypes, Shape, Branches, Kept, Prologue
    PROVE  Branches'
<1>1. Open' /\ Limit' = bytes.used
  BY PrologueCode, PrologueOpens DEF Limit
<1>2. Sealed'
  <2> SUFFICES ASSUME NEW k \in 1..Len(funs'), k < Len(funs') \/ ~Open'
               PROVE  /\ funs'[k].offset + PrologueLen <= Limit'
                      /\ funs'[k].offset + funs'[k].nbytes <= Limit'
                      /\ funs'[k].offset + 1 \in DOMAIN bytes'.code
    BY DEF Sealed
  <2>1. k \in 1..Len(funs) /\ funs'[k] = funs[k]
    BY <1>1, PrologueCode
  <2> QED BY <1>1, <2>1, PrologueCode DEF Branches, Sealed
<1>3. Begun'
  <2>1. Last(funs').nbytes = 0
    BY PrologueCode DEF Last
  <2>2. Body' <= bytes'.used /\ Home' + 1 \in DOMAIN bytes'.code
        /\ bytes'.code[Home' + 1].op = "add_sp"
    BY PrologueCode
  <2> QED BY <2>1, <2>2 DEF Begun
<1>4. Handled'
  <2>1. \A i \in 3..Len(work') : work'[i].step = "stmts"
    <3>1. Len(work') = 3 /\ work'[3].step = "stmts"
      BY PrologueOpens, Zenon
    <3> QED BY <3>1
  <2> QED BY <2>1 DEF Handled, Branch, Waits
<1>5. Landed'
  <2>1. ASSUME NEW x \in DOMAIN bytes'.code, x >= Home' PROVE bytes'.code[x].op \notin Jumps
    <3>1. x = bytes.used \/ x = bytes.used + 1
      <4>1. x \in DOMAIN bytes.code => x < bytes.used /\ x \in Nat
        BY PrologueCode DEF SourceTypes, BytesOK
      <4> QED BY <2>1, <4>1, PrologueCode
    <3> QED BY <3>1, PrologueCode DEF Jumps
  <2> QED BY <2>1 DEF Landed
<1> QED BY <1>2, <1>3, <1>4, <1>5 DEF Branches

\* A function ends with instructions that neither branch nor access its frame,
\* and the frame's size is patched into its prologue.
LEMMA EndFunCode ==
    ASSUME SourceTypes, Shape, Branches, EndFun
    PROVE  /\ Open /\ ~Open' /\ Len(work) = 2
           /\ Home \in Nat /\ Body \in Nat /\ Body <= bytes.used /\ Body = Home + 10
           /\ bytes.used \in Nat /\ bytes'.used \in Nat /\ bytes.used <= bytes'.used
           /\ Len(funs) \in Nat /\ Len(funs) >= 1 /\ Len(funs') = Len(funs)
           /\ \A k \in 1..(Len(funs) - 1) : funs'[k] = funs[k]
           /\ funs'[Len(funs)].offset = Home
           /\ funs'[Len(funs)].nbytes = bytes'.used - Home
           /\ bytes.used \in DOMAIN bytes'.code
           /\ DOMAIN bytes.code \subseteq DOMAIN bytes'.code
           /\ \A x \in DOMAIN bytes'.code :
                  x \in DOMAIN bytes.code \/ (x >= bytes.used /\ bytes'.code[x].op \notin Jumps \cup Accesses)
           /\ \A x \in DOMAIN bytes.code : /\ bytes'.code[x].op = bytes.code[x].op
                                           /\ x # Home + 1 => bytes'.code[x] = bytes.code[x]
           /\ Home + 1 \in DOMAIN bytes.code
           /\ bytes.code[Home + 1].op = "add_sp"
           /\ bytes'.code[Home + 1].arg = offset_counter
<1> DEFINE exit == <<Instr("exit", 0, 0)>>
           tail == <<Instr("mov_imm", 8, 0), Instr("leave", 0, 0), Instr("ret", 0, 0)>>
           code == IF Top.word = "main" THEN exit ELSE tail
           b    == EmitAll(bytes, code)
           f    == Last(funs)
           n    == Len(funs)
<1>1. /\ Top.step = "endfun" /\ work' = Front(work)
      /\ bytes' = Patch(b, f.offset + 1, offset_counter)
      /\ funs' = [funs EXCEPT ![n].nbytes = b.used - f.offset]
  BY DEF EndFun, At
<1>2. Len(work) = 2
  BY <1>1, TopOutside
<1>3. Open /\ ~Open'
  <2>1. Open
    BY <1>1, <1>2 DEF Open
  <2>2. Len(work') = 1
    <3>1. Len(work') = Len(work) - 1
      <4>1. work \in Seq(Items) /\ Len(work) >= 1
        BY <1>2 DEF SourceTypes
      <4> QED BY <1>1, <4>1, FrontType, Zenon DEF Front
    <3> QED BY <1>2, <3>1
  <2> QED BY <2>1, <2>2 DEF Open
<1>4. funs # <<>> /\ funs \in Seq(Funs) /\ n \in Nat /\ n >= 1
  BY <1>1, <1>2 DEF Shape, Emitted, SourceTypes
<1>5. /\ f = funs[n] /\ f \in Funs /\ f.offset = Home /\ Home \in Nat
      /\ Body \in Nat /\ Body = Home + 10
  BY <1>4, FunFields DEF Body, PrologueLen
<1>6. /\ Body <= bytes.used /\ Home + 1 \in DOMAIN bytes.code
      /\ bytes.code[Home + 1].op = "add_sp"
  BY <1>3 DEF Branches, Begun
<1>7. BytesOK(bytes) /\ bytes.used \in Nat /\ offset_counter \in Int
  BY DEF SourceTypes, BytesOK
<1>8. code \in Seq(Mute) /\ code # <<>>
  <2>1. Instr("exit", 0, 0) \in Mute
    <3>1. "exit" \in Ops /\ "exit" \notin Jumps \cup Accesses /\ 0 \in Widths \cup {0} /\ 0 \in Int
      BY DEF Ops, Jumps, Accesses
    <3> QED BY <3>1, MuteInstr, Zenon
  <2>2. Instr("leave", 0, 0) \in Mute /\ Instr("ret", 0, 0) \in Mute
    BY MuteShort, Zenon
  <2>3. Instr("mov_imm", 8, 0) \in Mute
    <3>1. "mov_imm" \in Ops /\ "mov_imm" \notin Jumps \cup Accesses
      BY MuteOps
    <3>2. 8 \in Widths \cup {0} /\ 0 \in Int
      BY DEF Widths
    <3> QED BY <3>1, <3>2, MuteInstr, Zenon
  <2>4. exit \in Seq(Mute) /\ Len(exit) = 1 /\ tail \in Seq(Mute) /\ Len(tail) = 3
    BY <2>1, <2>2, <2>3
  <2> HIDE DEF exit, tail
  <2>5. code \in Seq(Mute) /\ Len(code) > 0
    BY <2>4
  <2> HIDE DEF code
  <2> QED BY <2>5
<1> HIDE DEF code
<1>9. Extends(bytes, b, Mute) /\ bytes.used \in DOMAIN b.code
  BY <1>7, <1>8, MuteInstrs, EmitAllExtends
<1> HIDE DEF b
<1>10. BytesOK(b) /\ b.used \in Nat /\ bytes.used <= b.used
  BY <1>9 DEF Extends, BytesOK
<1>11. /\ BytesOK(bytes') /\ bytes'.used = b.used
       /\ DOMAIN bytes'.code = DOMAIN b.code
       /\ \A y \in DOMAIN b.code : /\ bytes'.code[y].op = b.code[y].op
                                   /\ y # f.offset + 1 => bytes'.code[y] = b.code[y]
                                   /\ y = f.offset + 1 => bytes'.code[y].arg = offset_counter
  BY <1>1, <1>7, <1>10, PatchChanges
<1>12. \A x \in DOMAIN bytes.code : x \in DOMAIN b.code /\ b.code[x] = bytes.code[x]
  BY <1>9 DEF Extends
<1>13. ASSUME NEW x \in DOMAIN bytes'.code
       PROVE  x \in DOMAIN bytes.code \/ (x >= bytes.used /\ bytes'.code[x].op \notin Jumps \cup Accesses)
  <2>1. x \in DOMAIN bytes.code \/ (x >= bytes.used /\ b.code[x] \in Mute)
    BY <1>9, <1>11 DEF Extends
  <2> QED BY <1>11, <2>1 DEF Mute
<1>14. /\ Len(funs') = n
       /\ \A k \in 1..(n - 1) : funs'[k] = funs[k]
       /\ funs'[n].offset = Home
       /\ funs'[n].nbytes = bytes'.used - Home
  <2>1. funs' = [funs EXCEPT ![n] = [funs[n] EXCEPT !.nbytes = b.used - f.offset]]
    BY <1>1, <1>4
  <2>2. funs[n] \in Funs
    BY <1>5
  <2> DEFINE g == [funs[n] EXCEPT !.nbytes = b.used - f.offset]
  <2>3. g.offset = funs[n].offset /\ g.nbytes = b.used - f.offset
    BY <2>2 DEF Funs
  <2> HIDE DEF g, f
  <2>4. funs' = [funs EXCEPT ![n] = g]
    BY <2>1 DEF g, f
  <2> QED BY <1>4, <1>5, <1>11, <2>3, <2>4
<1> QED BY <1>2, <1>3, <1>4, <1>5, <1>6, <1>7, <1>9, <1>10, <1>11, <1>12, <1>13, <1>14

LEMMA EndFunBranches ==
    ASSUME SourceTypes, Shape, Branches, EndFun
    PROVE  Branches'
<1>1. /\ Open /\ ~Open' /\ Limit = Home /\ Limit' = bytes'.used
      /\ Home <= bytes'.used /\ Home + 10 <= bytes'.used /\ Home \in Nat /\ bytes'.used \in Nat
  BY EndFunCode DEF Limit
<1>2. Sealed'
  <2> SUFFICES ASSUME NEW k \in 1..Len(funs')
               PROVE  /\ funs'[k].offset + PrologueLen <= bytes'.used
                      /\ funs'[k].offset + funs'[k].nbytes <= bytes'.used
                      /\ funs'[k].offset + 1 \in DOMAIN bytes'.code
    BY <1>1 DEF Sealed
  <2>1. CASE k < Len(funs)
    <3>1. k \in 1..(Len(funs) - 1) /\ k \in 1..Len(funs) /\ funs'[k] = funs[k]
      BY <2>1, EndFunCode
    <3>2. /\ funs[k].offset + PrologueLen <= Home
          /\ funs[k].offset + funs[k].nbytes <= Home
          /\ funs[k].offset + 1 \in DOMAIN bytes.code
      BY <1>1, <2>1, <3>1 DEF Branches, Sealed
    <3>3. funs[k].offset \in Nat /\ funs[k].nbytes \in Nat
      BY <3>1, FunFields
    <3>4. DOMAIN bytes.code \subseteq DOMAIN bytes'.code
      BY EndFunCode
    <3>5. funs[k].offset + 1 \in DOMAIN bytes'.code
      BY <3>2, <3>4, Zenon
    <3>6. PrologueLen = 10
      BY DEF PrologueLen
    <3>7. funs[k].offset + 10 <= bytes'.used /\ funs[k].offset + funs[k].nbytes <= bytes'.used
      BY <1>1, <3>2, <3>3, <3>6
    <3> QED BY <3>1, <3>5, <3>6, <3>7, Zenon
  <2>2. CASE k = Len(funs)
    BY <1>1, <2>2, EndFunCode DEF PrologueLen
  <2> QED BY <2>1, <2>2, EndFunCode
<1> QED BY <1>1, <1>2 DEF Branches, Begun, Handled, Landed

\* Between functions nothing is emitted.
LEMMA OutsideSame ==
    ASSUME SourceTypes, Shape,
           \/ \E h \in FunHeads : DeclareFun(h)
           \/ \E p \in Params : AddParam(p)
           \/ DeclareVar \/ EndProgram
    PROVE  UNCHANGED <<bytes, funs>> /\ ~Open /\ ~Open'
<1>1. CASE \E h \in FunHeads : DeclareFun(h)
  <2>1. PICK h \in FunHeads : DeclareFun(h)
    BY <1>1
  <2> DEFINE it1    == Item("endfun")
             it2    == Item("params")
             endfun == [it1 EXCEPT !.word = h.name]
             params == [it2 EXCEPT !.offset = 16]
  <2>2. Top.step = "decls" /\ UNCHANGED <<bytes, funs>> /\ (UNCHANGED work \/ work' = work \o <<endfun, params>>)
    BY <2>1 DEF DeclareFun, At, Fail
  <2>3. ~Open
    BY <2>2, TopOutside DEF Open
  <2>4. CASE UNCHANGED work
    BY <2>2, <2>3, <2>4 DEF Open, Top
  <2>5. CASE work' = work \o <<endfun, params>>
    <3>1. params.step = "params"
      BY DEF Item
    <3> DEFINE two == <<endfun, params>>
    <3>2. work' = work \o two /\ Len(two) = 2 /\ two[2] = params
      BY <2>5
    <3>3. work \in Seq(Items) /\ Len(work) \in Nat
      BY DEF SourceTypes
    <3>4. endfun \in Items /\ params \in Items
      <4>1. it1 \in Items /\ it2 \in Items
        <5>1. "endfun" \in Steps /\ "params" \in Steps
          BY DEF Steps
        <5> QED BY <5>1, ItemType, Zenon
      <4>2. h.name \in Names
        BY SourceAssumption DEF Names
      <4> HIDE DEF it1, it2
      <4> QED BY <4>1, <4>2 DEF Items
    <3> HIDE DEF endfun, params
    <3>5. Top' = params
      <4>1. two \in Seq(Items)
        BY <3>4
      <4> HIDE DEF two
      <4>2. /\ Len(work') = Len(work) + Len(two)
            /\ \A i \in 1 .. Len(work) + Len(two) :
                   work'[i] = IF i <= Len(work) THEN work[i] ELSE two[i - Len(work)]
        BY <3>2, <3>3, <4>1, ConcatProperties, Zenon
      <4> QED BY <3>2, <3>3, <4>2 DEF Top, Last
    <3> HIDE DEF two
    <3> QED BY <2>2, <2>3, <3>1, <3>5 DEF Open
  <2> QED BY <2>2, <2>4, <2>5
<1>2. CASE \E p \in Params : AddParam(p)
  <2>1. PICK p \in Params : AddParam(p)
    BY <1>2
  <2> DEFINE it   == Top
             next == [it EXCEPT !.n = it.n + 1, !.offset = it.offset + TypeSize(p.type)]
  <2>2. it.step = "params" /\ it \in Items /\ p.type \in Types
    BY <2>1, TopOutside, SourceAssumption DEF AddParam, At
  <2>3. ~Open
    BY <2>2 DEF Open
  <2>4. UNCHANGED <<bytes, funs>> /\ (UNCHANGED work \/ Become(<<next>>))
    BY <2>1, <2>2 DEF AddParam, Fail, Items
  <2>5. it.n + 1 \in Nat /\ it.offset + TypeSize(p.type) \in Int
    BY <2>2, SizeOfType DEF Items
  <2> HIDE DEF it
  <2>6. next \in Items /\ next.step = "params"
    BY <2>2, <2>5 DEF Items
  <2> HIDE DEF next
  <2>7. CASE UNCHANGED work
    BY <2>3, <2>4, <2>7 DEF Open, Top
  <2>8. CASE Become(<<next>>)
    <3>1. Top' = next
      BY <2>2, <2>6, <2>8, ParamsBecome, Zenon DEF it
    <3> QED BY <2>3, <2>4, <2>6, <3>1 DEF Open
  <2> QED BY <2>4, <2>7, <2>8
<1>3. CASE DeclareVar \/ EndProgram
  <2>1. UNCHANGED <<bytes, funs, work>> /\ Top.step = "decls"
    BY <1>3 DEF DeclareVar, EndProgram, Fail, At
  <2>2. ~Open
    BY <2>1, TopOutside DEF Open
  <2> QED BY <2>1, <2>2 DEF Open, Top
<1> QED BY <1>1, <1>2, <1>3

LEMMA OutsideBranches ==
    ASSUME Branches, UNCHANGED <<bytes, funs>>, ~Open, ~Open'
    PROVE  Branches'
<1>1. Limit' = Limit
  BY DEF Limit
<1> QED BY <1>1 DEF Branches, Sealed, Begun, Handled, Landed

LEMMA BranchesStep ==
    ASSUME SourceTypes, Shape, Branches, [Next]_vars
    PROVE  Branches'
<1>1. Kept
  BY ShapeStep
<1>2. CASE Declaration
  <2>1. CASE Prologue
    BY <1>1, <2>1, PrologueBranches
  <2>2. CASE EndFun
    BY <2>2, EndFunBranches
  <2>3. CASE \/ \E h \in FunHeads : DeclareFun(h)
             \/ \E p \in Params : AddParam(p)
             \/ DeclareVar \/ EndProgram
    BY <2>3, OutsideSame, OutsideBranches, Zenon
  <2> QED BY <1>2, <2>1, <2>2, <2>3 DEF Declaration
<1>3. CASE Statement \/ Expression
  BY <1>1, <1>3, StatementBranches
<1>4. CASE UNCHANGED vars
  BY <1>4, SameBranches DEF vars
<1> QED BY <1>2, <1>3, <1>4 DEF Next, Compiled

LEMMA InitialBranches == Afresh => Branches
<1> SUFFICES ASSUME Afresh PROVE Branches
  OBVIOUS
<1>1. Len(work) = 1 /\ Len(funs) = 0
  BY DEF Afresh
<1>2. ~Open
  BY <1>1 DEF Open
<1> QED BY <1>1, <1>2 DEF Branches, Sealed, Begun, Handled, Landed

-----------------------------------------------------------------------------
(* What is complete is not written any more, and JumpsLand.                *)

\* The code below Limit stays as it is.
Frozen == \A x : x < Limit =>
              /\ x \in DOMAIN bytes'.code <=> x \in DOMAIN bytes.code
              /\ x \in DOMAIN bytes.code => bytes'.code[x] = bytes.code[x]

LEMMA StatementFrozen ==
    ASSUME SourceTypes, Shape, Branches, Statement \/ Expression
    PROVE  Frozen /\ Open /\ UNCHANGED funs
<1>1. Inside /\ UNCHANGED funs
  BY StatementScopes, StatementFuns
<1>2. Home \in Nat /\ Body <= bytes.used /\ bytes.used \in Nat /\ Open /\ Body = Home + 10
  BY <1>1, BodyType DEF Body, PrologueLen
<1>3. Limit = Home
  BY <1>2 DEF Limit
<1>4. ASSUME NEW x \in DOMAIN bytes'.code \cup DOMAIN bytes.code, x < Home
      PROVE  /\ x \in DOMAIN bytes'.code <=> x \in DOMAIN bytes.code
             /\ x \in DOMAIN bytes.code => bytes'.code[x] = bytes.code[x]
  <2>1. DOMAIN bytes.code \subseteq DOMAIN bytes'.code
    BY StatementKeeps DEF Grows
  <2>2. x \in DOMAIN bytes'.code => x \in DOMAIN bytes.code
    <3>1. SourceTypes'
      BY ShapeStep DEF Next, Compiled, Kept
    <3>2. \A y \in DOMAIN bytes'.code : y \in Nat
      BY <3>1 DEF SourceTypes, BytesOK
    <3> QED BY <1>2, <1>4, <3>2, StatementKeeps DEF Grows
  <2>3. x \in DOMAIN bytes.code => x \in Nat
    BY DEF SourceTypes, BytesOK
  <2>4. x \in DOMAIN bytes.code => bytes'.code[x] = bytes.code[x]
    BY <1>2, <1>4, <2>3, StatementKeeps DEF IsJump
  <2> QED BY <2>1, <2>2, <2>4
<1> QED BY <1>1, <1>2, <1>3, <1>4 DEF Frozen

LEMMA EndFunFrozen ==
    ASSUME SourceTypes, Shape, Branches, EndFun
    PROVE  Frozen
<1>1. Home \in Nat /\ Body = Home + 10 /\ Body <= bytes.used /\ bytes.used \in Nat /\ Limit = Home
  BY EndFunCode DEF Limit
<1>2. ASSUME NEW x, x < Home
      PROVE  /\ x \in DOMAIN bytes'.code <=> x \in DOMAIN bytes.code
             /\ x \in DOMAIN bytes.code => bytes'.code[x] = bytes.code[x]
  <2>1. DOMAIN bytes.code \subseteq DOMAIN bytes'.code
    BY EndFunCode
  <2>2. \A y \in DOMAIN bytes'.code : y \in DOMAIN bytes.code \/ y >= bytes.used
    BY EndFunCode
  <2>3. \A y \in DOMAIN bytes.code : y # Home + 1 => bytes'.code[y] = bytes.code[y]
    BY EndFunCode
  <2>4. \A y \in DOMAIN bytes.code : y \in Nat
    BY DEF SourceTypes, BytesOK
  <2>6. \A y \in DOMAIN bytes'.code : y \in Nat
    <3>1. SourceTypes'
      BY ShapeStep DEF Next, Compiled, Declaration, Kept
    <3> QED BY <3>1 DEF SourceTypes, BytesOK
  <2>5. \A y \in DOMAIN bytes'.code : y \in DOMAIN bytes.code \/ y # x
    <3> SUFFICES ASSUME NEW y \in DOMAIN bytes'.code, y \notin DOMAIN bytes.code, y = x PROVE FALSE
      OBVIOUS
    <3>1. y >= bytes.used
      BY <2>2
    <3> QED BY <1>1, <1>2, <2>6, <3>1
  <2> QED BY <1>1, <1>2, <2>1, <2>3, <2>4, <2>5
<1> QED BY <1>1, <1>2 DEF Frozen

LEMMA PrologueFrozen ==
    ASSUME SourceTypes, Shape, Prologue
    PROVE  Frozen
<1>1. /\ Limit = bytes.used /\ bytes.used \in Nat
      /\ DOMAIN bytes'.code = DOMAIN bytes.code \cup {bytes.used, bytes.used + 1}
      /\ \A x \in DOMAIN bytes.code : bytes'.code[x] = bytes.code[x]
  BY PrologueCode
<1> QED BY <1>1 DEF Frozen

\* Where a function that is complete has its code, nothing changes.
LEMMA CompleteCode ==
    ASSUME SourceTypes, Branches, Frozen, NEW k \in 1..Len(funs), k < Len(funs) \/ ~Open,
           NEW x \in Int, x >= funs[k].offset,
           x < funs[k].offset + funs[k].nbytes \/ x = funs[k].offset + 1
    PROVE  /\ x \in DOMAIN bytes'.code <=> x \in DOMAIN bytes.code
           /\ x \in DOMAIN bytes.code => bytes'.code[x] = bytes.code[x]
<1>1. /\ funs[k].offset + PrologueLen <= Limit
      /\ funs[k].offset + funs[k].nbytes <= Limit
  BY DEF Branches, Sealed
<1>2. funs[k].offset \in Nat /\ funs[k].nbytes \in Nat
  BY FunFields
<1>3. Limit \in Int
  <2>1. Open => Len(funs) >= 1
    BY FunFields DEF Open
  <2>2. CASE Open
    <3>1. funs # <<>>
      BY <2>2, FunFields DEF Open
    <3> QED BY <2>2, <3>1, FunFields DEF Limit
  <2>3. CASE ~Open
    BY <2>3 DEF Limit, SourceTypes, BytesOK
  <2> QED BY <2>2, <2>3
<1>4. x < Limit
  BY <1>1, <1>2, <1>3 DEF PrologueLen
<1> QED BY <1>4 DEF Frozen

-----------------------------------------------------------------------------
(* Where the branches of a function go once it is complete.                *)

\* The branches of one function.
GoInside(f) ==
    \A x \in Code(f) : bytes.code[x].op \in Jumps =>
        bytes.code[x].arg \in Code(f) /\ bytes.code[x].arg >= f.offset + PrologueLen

LEMMA CompleteGoInside ==
    ASSUME SourceTypes, Branches, Frozen, NEW k \in 1..Len(funs), k < Len(funs) \/ ~Open,
           funs'[k] = funs[k], GoInside(funs[k])
    PROVE  GoInside(funs[k])'
<1> DEFINE o == funs[k].offset
           n == funs[k].nbytes
<1>1. o \in Nat /\ n \in Nat
  BY FunFields
<1>2. \A x \in o..(o + n - 1) :
          /\ x \in DOMAIN bytes'.code <=> x \in DOMAIN bytes.code
          /\ x \in DOMAIN bytes.code => bytes'.code[x] = bytes.code[x]
  <2> SUFFICES ASSUME NEW x \in o..(o + n - 1)
               PROVE  /\ x \in DOMAIN bytes'.code <=> x \in DOMAIN bytes.code
                      /\ x \in DOMAIN bytes.code => bytes'.code[x] = bytes.code[x]
    OBVIOUS
  <2>1. x \in Int /\ x >= o /\ x < o + n
    BY <1>1
  <2> QED BY <2>1, CompleteCode
<1>3. Code(funs[k]) = DOMAIN bytes.code \cap o..(o + n - 1)
  BY DEF Code
<1>4. Code(funs[k])' = DOMAIN bytes'.code \cap o..(o + n - 1)
  BY DEF Code
<1>5. Code(funs[k])' = Code(funs[k])
  BY <1>2, <1>3, <1>4
<1>6. \A x \in Code(funs[k]) : bytes'.code[x] = bytes.code[x]
  BY <1>2, <1>3
<1> QED BY <1>5, <1>6 DEF GoInside

\* When a function is closed no handler has a jump of it left to patch.
LEMMA EndFunGoInside ==
    ASSUME SourceTypes, Shape, Branches, EndFun
    PROVE  GoInside(funs[Len(funs)])'
<1> DEFINE n == Len(funs)
           u == bytes'.used
<1>1. /\ Open /\ Len(work) = 2 /\ Home \in Nat /\ Body \in Nat /\ Body = Home + 10
      /\ Body <= bytes.used /\ bytes.used \in Nat /\ u \in Nat /\ bytes.used <= u
      /\ n \in Nat /\ n >= 1 /\ Len(funs') = n
      /\ funs'[n].offset = Home /\ funs'[n].nbytes = u - Home
      /\ bytes.used \in DOMAIN bytes'.code /\ DOMAIN bytes.code \subseteq DOMAIN bytes'.code
      /\ bytes.code[Home + 1].op = "add_sp"
  BY EndFunCode
<1>2. /\ \A x \in DOMAIN bytes'.code :
             x \in DOMAIN bytes.code \/ bytes'.code[x].op \notin Jumps
      /\ \A x \in DOMAIN bytes.code : /\ bytes'.code[x].op = bytes.code[x].op
                                      /\ x # Home + 1 => bytes'.code[x] = bytes.code[x]
  BY EndFunCode
<1>3. \A x \in DOMAIN bytes'.code : x \in Nat /\ x < u
  <2>1. SourceTypes'
    BY ShapeStep DEF Next, Compiled, Declaration, Kept
  <2> QED BY <2>1 DEF SourceTypes, BytesOK
<1>4. Code(funs[n])' = DOMAIN bytes'.code \cap Home..(u - 1)
  BY <1>1 DEF Code
<1>5. \A x \in DOMAIN bytes.code : x >= Home /\ bytes.code[x].op \in Jumps => Lands(bytes.code[x].arg)
  BY <1>1 DEF Branches, Landed
<1> SUFFICES ASSUME NEW x \in DOMAIN bytes'.code, x >= Home, bytes'.code[x].op \in Jumps
             PROVE  /\ bytes'.code[x].arg \in DOMAIN bytes'.code \cap Home..(u - 1)
                    /\ bytes'.code[x].arg >= Body
  BY <1>1, <1>3, <1>4 DEF GoInside, PrologueLen
<1>6. x \in DOMAIN bytes.code /\ bytes.code[x].op \in Jumps
  BY <1>2
<1>7. x # Home + 1
  BY <1>1, <1>6 DEF Jumps
<1>8. bytes'.code[x].arg = bytes.code[x].arg /\ Lands(bytes.code[x].arg)
  BY <1>2, <1>5, <1>6, <1>7
<1>9. bytes'.code[x].arg \in DOMAIN bytes'.code /\ bytes'.code[x].arg >= Body
  BY <1>1, <1>8 DEF Lands
<1> QED BY <1>1, <1>3, <1>9

LEMMA JumpsLandStep ==
    ASSUME SourceTypes, Shape, Branches, JumpsLand, [Next]_vars
    PROVE  JumpsLand'
<1>1. \A k \in 1..Len(funs) : GoInside(funs[k])
  BY DEF JumpsLand, GoInside
<1> SUFFICES ASSUME NEW k \in 1..Len(funs') PROVE GoInside(funs[k])'
  BY DEF JumpsLand, GoInside
<1>2. Len(funs) \in Nat
  BY FunFields
<1>3. CASE Statement \/ Expression
  <2>1. Frozen /\ Open /\ UNCHANGED funs
    BY <1>3, StatementFrozen
  <2>2. CASE k < Len(funs)
    BY <1>1, <2>1, <2>2, CompleteGoInside
  <2>3. CASE k = Len(funs)
    <3>1. funs # <<>>
      BY <1>2, <2>1, <2>3
    <3>2. funs[k].nbytes = 0 /\ funs[k].offset \in Nat
      BY <2>1, <2>3, <3>1, FunFields DEF Branches, Begun
    <3>3. Code(funs[k])' = {}
      BY <2>1, <3>2 DEF Code
    <3> QED BY <3>3 DEF GoInside
  <2> QED BY <1>2, <2>1, <2>2, <2>3
<1>4. CASE Prologue
  <2>1. /\ ~Open /\ Len(funs') = Len(funs) + 1 /\ bytes.used \in Nat
        /\ \A j \in 1..Len(funs) : funs'[j] = funs[j]
        /\ funs'[Len(funs')] = [offset |-> bytes.used, nbytes |-> 0]
    BY <1>4, PrologueCode
  <2>2. Frozen
    BY <1>4, PrologueFrozen
  <2>3. CASE k <= Len(funs)
    <3>1. k \in 1..Len(funs)
      BY <1>2, <2>3
    <3> QED BY <1>1, <2>1, <2>2, <3>1, CompleteGoInside
  <2>4. CASE k = Len(funs')
    <3>1. funs'[k].nbytes = 0 /\ funs'[k].offset = bytes.used
      BY <2>1, <2>4
    <3>2. Code(funs[k])' = {}
      BY <2>1, <3>1 DEF Code
    <3> QED BY <3>2 DEF GoInside
  <2> QED BY <1>2, <2>1, <2>3, <2>4
<1>5. CASE EndFun
  <2>1. /\ Len(funs') = Len(funs) /\ \A j \in 1..(Len(funs) - 1) : funs'[j] = funs[j]
    BY <1>5, EndFunCode
  <2>2. CASE k < Len(funs)
    <3>1. Frozen
      BY <1>5, EndFunFrozen
    <3>2. k \in 1..Len(funs) /\ funs'[k] = funs[k]
      BY <1>2, <2>1, <2>2
    <3> QED BY <1>1, <2>2, <3>1, <3>2, CompleteGoInside
  <2>3. CASE k = Len(funs)
    BY <1>5, <2>3, <2>1, EndFunGoInside
  <2> QED BY <1>2, <2>1, <2>2, <2>3
<1>6. ASSUME UNCHANGED <<bytes, funs>> PROVE GoInside(funs[k])'
  BY <1>1, <1>6 DEF GoInside, Code
<1>7. CASE \/ \E h \in FunHeads : DeclareFun(h)
           \/ \E p \in Params : AddParam(p)
           \/ DeclareVar \/ EndProgram
  BY <1>6, <1>7, OutsideSame, Zenon
<1>8. CASE UNCHANGED vars
  BY <1>6, <1>8 DEF vars
<1> QED BY <1>3, <1>4, <1>5, <1>7, <1>8 DEF Next, Compiled, Declaration

LEMMA InitialJumpsLand == Afresh => JumpsLand
  BY DEF Afresh, JumpsLand

\* However conditions, branches and loops are nested, and although a forward
\* branch is emitted before its target exists, every branch of a function that
\* is complete goes to the start of an instruction of that function, past its
\* prologue: what gh_emit_if, gh_emit_while and gh_emit_fun achieve together.
THEOREM JumpsInside == Spec => []JumpsLand
<1>1. Init => SourceTypes /\ Shape /\ Branches /\ JumpsLand
  BY InitialSource, InitialShape, InitialBranches, InitialJumpsLand DEF Init, Afresh
<1>2. SourceTypes /\ Shape /\ Branches /\ JumpsLand /\ [Next]_vars
          => (SourceTypes /\ Shape /\ Branches /\ JumpsLand)'
  BY ShapeStep, BranchesStep, JumpsLandStep DEF Kept
<1> QED BY <1>1, <1>2, PTL DEF Spec


=============================================================================
