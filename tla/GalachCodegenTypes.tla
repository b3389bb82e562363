------------------------ MODULE GalachCodegenTypes -------------------------
(***************************************************************************)
(* The types of the code generator's variables, StateTypes, are invariant  *)
(* for every value of its constants.                                       *)
(*                                                                         *)
(* They are not inductive alone: they depend on the shape of the stack of  *)
(* handlers (a handler's type pointer points to a cell, a scope closed is  *)
(* one that is open, a function's end has a function to end).              *)
(* StateTypes /\ Shape is.  What the code consists of, the rest of TypeOK, *)
(* is in GalachVerifyProofs: it takes what is known of operands there.     *)
(*                                                                         *)
(* The first half has the lemmas on which the proofs about the generator   *)
(* rest: what its operators return and preserve, and what any step of a    *)
(* handler inside a function leaves.                                       *)
(***************************************************************************)
EXTENDS GalachCodegenInv, GalachNaturals, SequenceTheorems

-----------------------------------------------------------------------------
(* Numbers.                                                                *)

\* A set of positions of a sequence that is not empty has a greatest element.
LEMMA GreatestPosition ==
    ASSUME NEW n \in Nat, NEW T, T \subseteq 1..n, T # {}
    PROVE  \E x \in T : \A y \in T : y <= x
<1> DEFINE U == {n - x : x \in T}
<1>1. U \subseteq Nat /\ U # {}
  <2>1. U \subseteq Nat
    OBVIOUS
  <2>2. U # {}
    OBVIOUS
  <2> QED BY <2>1, <2>2, Zenon
<1> HIDE DEF U
<1>2. PICK u \in U : \A y \in U : u <= y
  BY <1>1, LeastNat, Zenon
<1>3. PICK x \in T : u = n - x
  BY <1>2 DEF U
<1>4. ASSUME NEW y \in T PROVE y <= x
  <2>1. n - y \in U
    BY DEF U
  <2>2. n - x <= n - y
    BY <2>1, <1>2, <1>3
  <2>3. x \in Nat /\ y \in Nat
    OBVIOUS
  <2> QED BY <2>2, <2>3
<1> QED BY <1>4

-----------------------------------------------------------------------------
(* Sequences.                                                              *)

LEMMA PrefixType ==
    ASSUME NEW S, NEW s \in Seq(S), NEW n \in Nat, n <= Len(s)
    PROVE  /\ SubSeq(s, 1, n) \in Seq(S)
           /\ Len(SubSeq(s, 1, n)) = n
           /\ \A i \in 1..n : SubSeq(s, 1, n)[i] = s[i]
  OBVIOUS

LEMMA FrontType ==
    ASSUME NEW S, NEW s \in Seq(S), Len(s) >= 1
    PROVE  /\ SubSeq(s, 1, Len(s) - 1) \in Seq(S)
           /\ Len(SubSeq(s, 1, Len(s) - 1)) = Len(s) - 1
           /\ \A i \in 1..(Len(s) - 1) : SubSeq(s, 1, Len(s) - 1)[i] = s[i]
<1>1. Len(s) - 1 \in Nat /\ Len(s) - 1 <= Len(s)
  OBVIOUS
<1> QED BY <1>1, PrefixType, Zenon

LEMMA NoName == "" \in Names
  BY DEF Names

-----------------------------------------------------------------------------
(* Instructions.                                                           *)

\* The size of a type is a width, and nothing for unit only.
LEMMA SizeOfType ==
    ASSUME NEW t \in Types
    PROVE  /\ TypeSize(t) \in Widths \cup {0}
           /\ TypeSize(t) \in Nat
           /\ TypeSize(t) = 0 <=> t = "unit"
           /\ t # "unit" => TypeSize(t) \in Widths
  BY DEF Types, IntTypes, FloatTypes, TypeSize, Widths

LEMMA IndexOfWidth ==
    ASSUME NEW w \in Widths
    PROVE  WidthIdx(w) \in 1..4 /\ Widths4[WidthIdx(w)] = w
<1>1. \E k \in 1..4 : Widths4[k] = w
  <2>1. CASE w = 1 BY <2>1 DEF Widths4
  <2>2. CASE w = 2 BY <2>2 DEF Widths4
  <2>3. CASE w = 4 BY <2>3 DEF Widths4
  <2>4. CASE w = 8 BY <2>4 DEF Widths4
  <2> QED BY <2>1, <2>2, <2>3, <2>4 DEF Widths
<1> QED BY <1>1 DEF WidthIdx

\* An instruction is made of a mnemonic, a width or 0, and a number.
LEMMA InstrType ==
    ASSUME NEW op \in Ops, NEW w \in Widths \cup {0}, NEW arg \in Int
    PROVE  Instr(op, w, arg) \in InstrRecords
  BY DEF Instr, InstrRecords

LEMMA LengthType ==
    ASSUME NEW i \in InstrRecords
    PROVE  Length(i) \in Nat /\ Length(i) >= 1
  BY DEF Length, InstrRecords, Widths

\* A cast that does not fail is a sequence of extensions.
LEMMA CastType ==
    ASSUME NEW from \in Types, NEW to \in Types, ~CastFails(from, to)
    PROVE  CastCode(from, to) \in Seq(InstrRecords)
<1> DEFINE lo == WidthIdx(TypeSize(from))
           hi == WidthIdx(TypeSize(to))
           op(k) == IF IsSigned(to) /\ (k > 1 \/ IsSigned(from)) THEN "sext" ELSE "zext"
<1>1. from # "unit" /\ to # "unit"
  BY DEF CastFails
<1>2. lo \in 1..4 /\ hi \in 1..4
  BY <1>1, SizeOfType, IndexOfWidth
<1>3. \A j \in 1..4 : Widths4[j] \in Widths
  BY DEF Widths4, Widths
<1>4. Widths4[1] = 1 /\ Widths4[2] = 2 /\ Widths4[3] = 4 /\ Widths4[4] = 8
  BY DEF Widths4
<1>5. lo <= hi
  <2>1. TypeSize(from) <= TypeSize(to)
    BY SizeOfType DEF CastFails
  <2>2. Widths4[lo] = TypeSize(from) /\ Widths4[hi] = TypeSize(to)
    BY <1>1, SizeOfType, IndexOfWidth
  <2> QED BY <1>2, <1>4, <2>1, <2>2
<1>6. ASSUME NEW k \in 1..(hi - lo)
      PROVE  Instr(op(k), Widths4[lo + k - 1], 0) \in InstrRecords
  <2>1. op(k) \in Ops
    BY DEF Ops
  <2>2. Widths4[lo + k - 1] \in Widths
    BY <1>2, <1>3, <1>5
  <2> QED BY <2>1, <2>2, InstrType
<1>7. hi - lo \in Nat
  BY <1>2, <1>5
<1>8. [k \in 1..(hi - lo) |-> Instr(op(k), Widths4[lo + k - 1], 0)] \in Seq(InstrRecords)
  <2> HIDE DEF op, lo, hi
  <2> QED BY <1>6, <1>7
<1> QED BY <1>8 DEF CastCode

-----------------------------------------------------------------------------
(* The code as it grows.                                                   *)

LEMMA EmitType ==
    ASSUME NEW b, BytesOK(b), NEW i \in InstrRecords
    PROVE  BytesOK(Emit(b, i)) /\ Emit(b, i).used >= b.used
  BY LengthType DEF BytesOK, Emit

\* EmitAll keeps the code well-formed and only adds to it.
LEMMA EmitAllType ==
    ASSUME NEW b, BytesOK(b), NEW s \in Seq(InstrRecords)
    PROVE  BytesOK(EmitAll(b, s)) /\ EmitAll(b, s).used >= b.used
<1> DEFINE step(c, k) == IF k <= Len(s) THEN Emit(c, s[k]) ELSE c
<1>1. ASSUME NEW c, BytesOK(c), NEW k \in 1..5
      PROVE  BytesOK(step(c, k)) /\ step(c, k).used >= c.used
  <2>1. CASE k <= Len(s)
    <3>1. s[k] \in InstrRecords
      BY <2>1
    <3> QED BY <1>1, <2>1, <3>1, EmitType
  <2>2. CASE ~(k <= Len(s))
    BY <1>1, <2>2 DEF BytesOK
  <2> QED BY <2>1, <2>2
<1>2. \A c : BytesOK(c) => c.used \in Nat
  BY DEF BytesOK
<1> DEFINE c1 == step(b, 1)
           c2 == step(c1, 2)
           c3 == step(c2, 3)
           c4 == step(c3, 4)
           c5 == step(c4, 5)
<1>3. EmitAll(b, s) = c5
  BY DEF EmitAll
<1> HIDE DEF step
<1>4. BytesOK(c1) /\ c1.used >= b.used
  BY <1>1
<1>5. BytesOK(c2) /\ c2.used >= c1.used
  BY <1>1, <1>4
<1>6. BytesOK(c3) /\ c3.used >= c2.used
  BY <1>1, <1>5
<1>7. BytesOK(c4) /\ c4.used >= c3.used
  BY <1>1, <1>6
<1>8. BytesOK(c5) /\ c5.used >= c4.used
  BY <1>1, <1>7
<1> HIDE DEF c1, c2, c3, c4, c5
<1> QED BY <1>2, <1>3, <1>4, <1>5, <1>6, <1>7, <1>8

LEMMA PatchType ==
    ASSUME NEW b, BytesOK(b), NEW x, NEW arg \in Int
    PROVE  BytesOK(Patch(b, x, arg)) /\ Patch(b, x, arg).used = b.used
<1> DEFINE code == [b.code EXCEPT ![x] = [b.code[x] EXCEPT !.arg = arg]]
<1>1. Patch(b, x, arg) = [code |-> code, used |-> b.used]
  BY DEF BytesOK, Patch
<1>2. DOMAIN code = DOMAIN b.code
  OBVIOUS
<1>3. ASSUME NEW y \in DOMAIN b.code PROVE code[y] \in InstrRecords
  BY DEF BytesOK, InstrRecords
<1>4. code \in [DOMAIN code -> InstrRecords]
  BY <1>2, <1>3
<1> HIDE DEF code
<1> QED BY <1>1, <1>2, <1>4 DEF BytesOK

-----------------------------------------------------------------------------
(* Names.                                                                  *)

\* A declared name is found in some scope.
LEMMA FindType ==
    ASSUME scopes \in Seq(Seq(Locals)), NEW name, Declared(name)
    PROVE  /\ \E k \in 1..Len(scopes) : \E i \in 1..Len(scopes[k]) :
                  Find(name) = scopes[k][i] /\ scopes[k][i].name = name
           /\ Find(name) \in Locals
<1> DEFINE IsScope(k) == /\ Knows(k, name)
                         /\ \A m \in (k+1)..Len(scopes) : ~Knows(m, name)
           k0 == CHOOSE k \in 1..Len(scopes) : IsScope(k)
           IsFirst(i) == /\ scopes[k0][i].name = name
                         /\ \A j \in 1..(i-1) : scopes[k0][j].name # name
           i0 == CHOOSE i \in 1..Len(scopes[k0]) : IsFirst(i)
<1>1. \E k \in 1..Len(scopes) : IsScope(k)
  <2> DEFINE T == {k \in 1..Len(scopes) : Knows(k, name)}
  <2>1. T \subseteq 1..Len(scopes) /\ T # {} /\ Len(scopes) \in Nat
    BY DEF Declared
  <2>2. PICK k \in T : \A m \in T : m <= k
    <3> HIDE DEF T
    <3> QED BY <2>1, GreatestPosition
  <2>3. k \in 1..Len(scopes) /\ Knows(k, name)
    BY <2>1
  <2>4. ASSUME NEW m \in (k+1)..Len(scopes), Knows(m, name) PROVE FALSE
    <3>1. m \in T
      BY <2>3, <2>4
    <3>2. m <= k
      BY <2>2, <3>1
    <3> QED BY <2>3, <3>2
  <2> QED BY <2>3, <2>4
<1>2. k0 \in 1..Len(scopes) /\ Knows(k0, name)
  BY <1>1
<1>3. scopes[k0] \in Seq(Locals)
  BY <1>2
<1> HIDE DEF k0
<1>4. \E i \in 1..Len(scopes[k0]) : IsFirst(i)
  <2> DEFINE T == {i \in 1..Len(scopes[k0]) : scopes[k0][i].name = name}
  <2>1. T \subseteq Nat /\ T # {}
    BY <1>2, <1>3 DEF Knows
  <2>2. PICK i \in T : \A j \in T : i <= j
    <3> HIDE DEF T
    <3> QED BY <2>1, LeastNat
  <2>3. i \in 1..Len(scopes[k0]) /\ scopes[k0][i].name = name
    OBVIOUS
  <2>4. ASSUME NEW j \in 1..(i-1), scopes[k0][j].name = name PROVE FALSE
    <3>1. j \in T
      BY <1>3, <2>3, <2>4
    <3>2. i <= j
      BY <2>2, <3>1
    <3> QED BY <2>3, <3>2
  <2> QED BY <2>3, <2>4
<1>5. i0 \in 1..Len(scopes[k0]) /\ scopes[k0][i0].name = name
  BY <1>4
<1>6. Find(name) = scopes[k0][i0]
  BY DEF Find, k0
<1> HIDE DEF i0
<1> QED BY <1>2, <1>3, <1>5, <1>6

-----------------------------------------------------------------------------
(* The stack of handlers.                                                  *)

LEMMA LocalType ==
    ASSUME NEW id \in {"var", "fun", "sysfun"}, NEW name \in Names, NEW type \in Types,
           NEW params \in Seq(Types), NEW offset \in Int
    PROVE  Local(id, name, type, params, offset) \in Locals
  BY DEF Local, Locals

LEMMA ItemRecord ==
    ASSUME NEW step \in Steps, NEW word \in Names \cup Operators, NEW n \in Nat, NEW cell \in Nat,
           NEW pop \in Nat, NEW jz \in Nat \cup {None}, NEW jmp \in Nat \cup {None},
           NEW to \in Nat, NEW offset \in Int, NEW fun \in Locals
    PROVE  [step |-> step, word |-> word, n |-> n, cell |-> cell, pop |-> pop, jz |-> jz,
            jmp |-> jmp, to |-> to, offset |-> offset, fun |-> fun] \in Items
  BY DEF Items

LEMMA ItemType ==
    ASSUME NEW step \in Steps
    PROVE  /\ Item(step) \in Items
           /\ Item(step).step = step
           /\ \A c \in Nat : ItemWith(step, c) \in Items /\ ItemWith(step, c).step = step
                               /\ ItemWith(step, c).cell = c
<1>1. "" \in Names /\ "" \in Names \cup Operators /\ 0 \in Nat /\ 0 \in Int /\ None \in Nat \cup {None}
  <2>1. 0 \in Nat /\ 0 \in Int /\ None \in Nat \cup {None}
    OBVIOUS
  <2> QED BY <2>1, NoName, Zenon
<1>2. NoLocal \in Locals
  <2>1. "unit" \in Types
    BY DEF Types
  <2>2. <<>> \in Seq(Types) /\ "fun" \in {"var", "fun", "sysfun"}
    OBVIOUS
  <2> QED BY <1>1, <2>1, <2>2, LocalType, Zenon DEF NoLocal
<1>3. Item(step) \in Items
  BY <1>1, <1>2, ItemRecord, Zenon DEF Item
<1>4. Item(step).step = step
  BY DEF Item
<1>5. ASSUME NEW c \in Nat
      PROVE  ItemWith(step, c) \in Items /\ ItemWith(step, c).step = step
               /\ ItemWith(step, c).cell = c
  <2> DEFINE it == Item(step)
  <2>1. it \in Items /\ it.step = step
    BY <1>3, <1>4
  <2>2. ItemWith(step, c) = [it EXCEPT !.cell = c]
    BY DEF ItemWith
  <2> HIDE DEF it
  <2> QED BY <2>1, <2>2 DEF Items
<1> QED BY <1>3, <1>4, <1>5

\* What is at the top when neither the program nor a function ends.
LEMMA TopInFunction ==
    ASSUME SourceTypes, Shape, Top.step \notin {"decls", "endfun"}
    PROVE  /\ Len(work) >= 3
           /\ Top = work[Len(work)]
           /\ Top \in Items
           /\ Nested(Top, Len(types), Len(scopes))
           /\ Len(scopes) >= 2
<1>1. /\ work \in Seq(Items) /\ Len(work) \in Nat /\ Len(work) > 0
      /\ Len(scopes) \in Nat /\ Len(scopes) > 0
  BY DEF SourceTypes
<1>2. Top = work[Len(work)]
  BY DEF Top, Last
<1>3. ~(Len(work) <= 1) /\ ~(Len(work) <= 2)
  BY <1>1, <1>2 DEF Shape, Handlers
<1>4. Len(work) >= 3
  BY <1>1, <1>3
<1>5. Nested(Top, Len(types), Len(scopes))
  BY <1>1, <1>2, <1>4 DEF Shape, Handlers
<1>6. Len(scopes) >= 2
  BY <1>1, <1>3 DEF Shape, Nesting
<1> QED BY <1>1, <1>2, <1>4, <1>5, <1>6

\* Replacing the top.
LEMMA BecomeSeq ==
    ASSUME work \in Seq(Items), Len(work) >= 1, NEW items \in Seq(Items), Become(items)
    PROVE  /\ work' \in Seq(Items)
           /\ Len(work') \in Nat
           /\ Len(work') = Len(work) - 1 + Len(items)
           /\ \A i \in 1..Len(work') :
                  work'[i] = IF i < Len(work) THEN work[i] ELSE items[i - (Len(work) - 1)]
<1> DEFINE front == SubSeq(work, 1, Len(work) - 1)
           new   == front \o items
<1>1. Len(work) \in Nat /\ Len(items) \in Nat
  OBVIOUS
<1>2. /\ front \in Seq(Items)
      /\ Len(front) = Len(work) - 1
      /\ \A i \in 1..(Len(work) - 1) : front[i] = work[i]
  BY FrontType, Zenon
<1>3. work' = new
  BY DEF Become, Front
<1> HIDE DEF front
<1>4. /\ new \in Seq(Items)
      /\ Len(new) = Len(front) + Len(items)
      /\ \A i \in 1 .. Len(front) + Len(items) :
             new[i] = IF i <= Len(front) THEN front[i] ELSE items[i - Len(front)]
  BY <1>2, ConcatProperties, Zenon
<1> HIDE DEF new
<1>5. Len(new) \in Nat /\ Len(new) = Len(work) - 1 + Len(items)
  BY <1>1, <1>2, <1>4
<1>6. ASSUME NEW i \in 1..Len(new)
      PROVE  new[i] = IF i < Len(work) THEN work[i] ELSE items[i - (Len(work) - 1)]
  <2> DEFINE n == Len(work)
             l == Len(items)
  <2>1. n \in Nat /\ l \in Nat /\ n >= 1 /\ i \in 1..(n - 1 + l)
    BY <1>1, <1>5
  <2>2. /\ \A j \in 1..(n - 1) : front[j] = work[j]
        /\ \A j \in 1..(n - 1 + l) : new[j] = IF j <= n - 1 THEN front[j] ELSE items[j - (n - 1)]
    BY <1>2, <1>4, Zenon
  <2> HIDE DEF n, l
  <2>3. new[i] = IF i < n THEN work[i] ELSE items[i - (n - 1)]
    BY <2>1, <2>2
  <2> QED BY <2>3 DEF n
<1> QED BY <1>3, <1>4, <1>5, <1>6, Zenon

\* What a step inside a function leaves: it only adds to the code, the cells and
\* the scopes, and the items it leaves to be done point to cells and close scopes
\* that exist.
TypesAdd  == types' \in Seq(Types) /\ Len(types) <= Len(types')
ScopesAdd == /\ scopes' \in Seq(Seq(Locals)) /\ Len(scopes) <= Len(scopes')
             /\ scopes'[1] = scopes[1]
BytesAdd  == BytesOK(bytes') /\ bytes.used <= bytes'.used
OthersAdd == /\ offset_counter' \in Int
             /\ budget' \in Nat
             /\ status' \in {"compiling", "done", "failed"}
             /\ UNCHANGED <<funs, main_idx, fun_ret_type>>

Adds == TypesAdd /\ ScopesAdd /\ BytesAdd /\ OthersAdd

Fit(item) == /\ Nested(item, Len(types'), Len(scopes'))
             /\ item.step # "params"
             /\ item.step = "endscope" => item.n > Len(scopes)

Fits(items) ==
    /\ \A j \in 1..Len(items) : Fit(items[j])
    /\ \A j, l \in 1..Len(items) :
           items[j].step = "endscope" /\ items[l].step = "endscope" => j = l

\* More cells and scopes make no item worse.
LEMMA NestedMonotonic ==
    ASSUME NEW item, NEW t1 \in Nat, NEW t2 \in Nat, t1 <= t2,
           NEW s1 \in Nat, NEW s2 \in Nat, s1 <= s2, Nested(item, t1, s1)
    PROVE  Nested(item, t2, s2)
<1>1. \A c \in 1..t1 : c \in 1..t2
  OBVIOUS
<1>2. \A n \in 3..s1 : n \in 3..s2
  OBVIOUS
<1> QED BY <1>1, <1>2, Zenon DEF Nested

\* What every step keeps: the types and the shape, and a step inside a function
\* stays inside it, past its parameters.
Inside == Top.step \notin {"decls", "endfun", "params"}
Kept   == SourceTypes' /\ Shape' /\ (Inside => Top'.step # "params" /\ Len(work') > 1)

LEMMA SameWork ==
    ASSUME SourceTypes, Shape, SourceTypes', Shape', UNCHANGED work
    PROVE  Kept
<1>1. Top' = Top
  BY DEF Top
<1>2. ASSUME Inside PROVE Top.step # "params" /\ Len(work) > 1
  <2>1. Top.step \notin {"decls", "endfun"} /\ Top.step # "params"
    BY <1>2 DEF Inside
  <2>2. Len(work) >= 3
    BY <2>1, TopInFunction, Zenon
  <2>3. Len(work) \in Nat
    BY DEF SourceTypes
  <2> QED BY <2>1, <2>2, <2>3
<1> QED BY <1>1, <1>2 DEF Kept

\* A step inside a function that adds, and leaves items that fit, is such a step.
LEMMA StepInFunction ==
    ASSUME SourceTypes, Shape, Top.step \notin {"decls", "endfun", "params"},
           NEW items \in Seq(Items), Become(items), Fits(items), Adds
    PROVE  Kept
<1>1. /\ Len(work) >= 3 /\ Len(scopes) >= 2
      /\ Top = work[Len(work)]
  BY TopInFunction
<1>2. work \in Seq(Items) /\ Len(work) \in Nat
  BY DEF SourceTypes
<1>3. Len(types) \in Nat /\ Len(scopes) \in Nat
  BY DEF SourceTypes
<1>4. /\ Len(types') \in Nat /\ Len(types) <= Len(types')
      /\ Len(scopes') \in Nat /\ Len(scopes) <= Len(scopes')
  BY DEF Adds, TypesAdd, ScopesAdd
<1> DEFINE n == Len(work)
           m == Len(work')
           l == Len(items)
<1>5. /\ work' \in Seq(Items) /\ m \in Nat /\ l \in Nat /\ m = n - 1 + l
      /\ \A i \in 1..m : work'[i] = IF i < n THEN work[i] ELSE items[i - (n - 1)]
  BY <1>1, <1>2, BecomeSeq
<1>6. n \in Nat /\ n >= 3 /\ m >= 2
  BY <1>1, <1>2, <1>5
<1> HIDE DEF n, m, l
<1>7. \A i \in 1..m : i < n => work'[i] = work[i]
  BY <1>5
<1>8. \A i \in 1..m : ~(i < n) => i - (n - 1) \in 1..l /\ work'[i] = items[i - (n - 1)]
  BY <1>5, <1>6
<1>9. SourceTypes'
  <2>1. work' \in Seq(Items) /\ Len(work') > 0
    BY <1>5, <1>6 DEF m
  <2>2. scopes' \in Seq(Seq(Locals)) /\ Len(scopes') > 0
    BY <1>1, <1>3, <1>4 DEF Adds, ScopesAdd
  <2>3. (funs \in Seq(Funs) /\ fun_ret_type \in Types)'
    BY DEF SourceTypes, Adds, OthersAdd
  <2> QED BY <2>1, <2>2, <2>3, Zenon DEF SourceTypes, Adds, TypesAdd, BytesAdd, OthersAdd
<1>10. \A i \in 3..n : Nested(work[i], Len(types), Len(scopes))
                         /\ (work[i].step = "params" => n <= 3)
  BY DEF Shape, Handlers, n
<1>11. work[n].step # "params"
  BY <1>1 DEF n
<1>12. \A i \in 3..n : work[i].step # "params"
  BY <1>6, <1>10, <1>11
<1>13. \A j \in 1..l : /\ Nested(items[j], Len(types'), Len(scopes'))
                       /\ items[j].step # "params"
                       /\ items[j].step = "endscope" => items[j].n > Len(scopes)
  BY DEF Fits, Fit, l
<1>14. ASSUME NEW i \in 3..m
       PROVE  Nested(work'[i], Len(types'), Len(scopes')) /\ work'[i].step # "params"
  <2>1. CASE i < n
    <3>1. i \in 3..n /\ work'[i] = work[i]
      BY <1>5, <1>6, <1>7, <2>1
    <3>2. Nested(work[i], Len(types), Len(scopes)) /\ work[i].step # "params"
      BY <1>10, <1>12, <3>1
    <3>3. Nested(work[i], Len(types'), Len(scopes'))
      BY <1>3, <1>4, <3>2, NestedMonotonic
    <3> QED BY <3>1, <3>2, <3>3
  <2>2. CASE ~(i < n)
    <3>1. i - (n - 1) \in 1..l /\ work'[i] = items[i - (n - 1)]
      BY <1>5, <1>6, <1>8, <2>2
    <3> QED BY <1>13, <3>1
  <2> QED BY <2>1, <2>2
<1>15. work'[1].step = "decls" /\ work'[2].step = "endfun"
  <2>1. work'[1] = work[1] /\ work'[2] = work[2]
    BY <1>5, <1>6, <1>7
  <2> QED BY <1>1, <2>1 DEF Shape, Handlers
<1>16. Handlers'
  BY <1>14, <1>15 DEF Handlers, m
<1>17. Top'.step # "params"
  <2>1. Top' = work'[m]
    BY DEF Top, Last, m
  <2>2. CASE m >= 3
    BY <1>5, <1>14, <2>1, <2>2
  <2>3. CASE ~(m >= 3)
    <3>1. m = 2
      BY <1>5, <1>6, <2>3
    <3> QED BY <1>15, <2>1, <3>1
  <2> QED BY <2>2, <2>3
<1>18. ASSUME NEW i \in 3..m, NEW j \in 3..m, i < j,
              work'[i].step = "endscope", work'[j].step = "endscope"
       PROVE  work'[i].n < work'[j].n
  <2>1. CASE j < n
    <3>1. work'[i] = work[i] /\ work'[j] = work[j] /\ i \in 3..n /\ j \in 3..n
      BY <1>5, <1>6, <1>7, <1>18, <2>1
    <3> QED BY <1>18, <3>1 DEF Shape, Nesting, n
  <2>2. CASE ~(j < n) /\ i < n
    <3>1. work'[i] = work[i] /\ i \in 3..n
      BY <1>5, <1>6, <1>7, <2>2
    <3>2. work[i].n \in 3..Len(scopes)
      BY <1>10, <1>18, <3>1 DEF Nested
    <3>3. j - (n - 1) \in 1..l /\ work'[j] = items[j - (n - 1)]
      BY <1>5, <1>6, <1>8, <2>2
    <3>4. work'[j].n > Len(scopes)
      BY <1>13, <1>18, <3>3
    <3>5. work'[j].n \in Nat
      <4>1. work'[j] \in Items
        BY <1>5, <3>3 DEF l
      <4> QED BY <4>1 DEF Items
    <3> QED BY <1>3, <3>1, <3>2, <3>4, <3>5
  <2>3. CASE ~(i < n)
    <3>1. i - (n - 1) \in 1..l /\ work'[i] = items[i - (n - 1)]
      BY <1>5, <1>6, <1>8, <2>3
    <3>2. j - (n - 1) \in 1..l /\ work'[j] = items[j - (n - 1)]
      BY <1>5, <1>6, <1>8, <1>18, <2>3
    <3>3. i - (n - 1) = j - (n - 1)
      BY <1>18, <3>1, <3>2 DEF Fits, l
    <3> QED BY <1>6, <1>18, <3>3
  <2> QED BY <1>6, <2>1, <2>2, <2>3
<1>19. Nesting'
  <2>1. Len(work') > 1 /\ Len(scopes') > 1
    BY <1>1, <1>3, <1>4, <1>5, <1>6 DEF m
  <2>2. Len(scopes'[1]) >= 1
    BY DEF Shape, Nesting, Adds, ScopesAdd
  <2> QED BY <1>17, <1>18, <2>1, <2>2 DEF Nesting, m
<1>20. Emitted'
  <2>1. funs' = funs /\ funs # <<>>
    <3>1. Len(work) > 1
      BY <1>1, <1>2
    <3> QED BY <3>1, Zenon DEF Shape, Emitted, Adds, OthersAdd
  <2>2. ASSUME NEW k \in 1..Len(funs) PROVE funs[k].offset \in Nat
    <3>1. funs[k] \in Funs
      BY DEF SourceTypes
    <3> QED BY <3>1 DEF Funs
  <2>3. bytes.used \in Nat /\ bytes'.used \in Nat /\ bytes.used <= bytes'.used
    BY DEF SourceTypes, BytesOK, Adds, BytesAdd
  <2>4. \A k \in 1..Len(funs) : funs[k].offset <= bytes'.used
    BY <2>2, <2>3 DEF Shape, Emitted
  <2> QED BY <2>1, <2>4 DEF Emitted
<1>21. Len(work') > 1
  BY <1>6 DEF m
<1> QED BY <1>9, <1>16, <1>17, <1>19, <1>20, <1>21 DEF Shape, Kept

\* COMPILE_FAIL changes nothing that matters here.
LEMMA FailStep ==
    ASSUME SourceTypes, Shape, Fail
    PROVE  Kept
<1>1. SourceTypes' /\ Shape' /\ UNCHANGED work
  BY DEF Fail, SourceTypes, Shape, Handlers, Nesting, Emitted, Top
<1> QED BY <1>1, SameWork

-----------------------------------------------------------------------------
(* The pieces of such a step.                                              *)

\* What is left to be done when a handler gives way to up to four items: at
\* most one of them closes a scope, and it is the last but one.
LEMMA FitsNone ==
    <<>> \in Seq(Items) /\ Fits(<<>>)
  BY DEF Fits

LEMMA FitsOne ==
    ASSUME NEW a \in Items, Fit(a)
    PROVE  <<a>> \in Seq(Items) /\ Fits(<<a>>)
<1> DEFINE s == <<a>>
<1>1. s \in Seq(Items) /\ Len(s) = 1 /\ s[1] = a
  OBVIOUS
<1> HIDE DEF s
<1>2. \A j \in 1..Len(s) : j = 1
  BY <1>1
<1>3. Fits(s)
  BY <1>1, <1>2, Zenon DEF Fits
<1> QED BY <1>1, <1>3, Zenon DEF s

LEMMA FitsTwo ==
    ASSUME NEW a \in Items, NEW b \in Items, Fit(a), Fit(b), b.step # "endscope"
    PROVE  <<a, b>> \in Seq(Items) /\ Fits(<<a, b>>)
<1> DEFINE s == <<a, b>>
<1>1. s \in Seq(Items) /\ Len(s) = 2 /\ s[1] = a /\ s[2] = b
  OBVIOUS
<1> HIDE DEF s
<1>2. \A j \in 1..Len(s) : j = 1 \/ j = 2
  BY <1>1
<1>3. Fits(s)
  BY <1>1, <1>2, Zenon DEF Fits
<1> QED BY <1>1, <1>3, Zenon DEF s

LEMMA FitsThree ==
    ASSUME NEW a \in Items, NEW b \in Items, NEW c \in Items, Fit(a), Fit(b), Fit(c),
           a.step # "endscope", c.step # "endscope"
    PROVE  <<a, b, c>> \in Seq(Items) /\ Fits(<<a, b, c>>)
<1> DEFINE s == <<a, b, c>>
<1>1. s \in Seq(Items) /\ Len(s) = 3 /\ s[1] = a /\ s[2] = b /\ s[3] = c
  OBVIOUS
<1> HIDE DEF s
<1>2. \A j \in 1..Len(s) : j = 1 \/ j = 2 \/ j = 3
  BY <1>1
<1>3. Fits(s)
  BY <1>1, <1>2, Zenon DEF Fits
<1> QED BY <1>1, <1>3, Zenon DEF s

LEMMA FitsFour ==
    ASSUME NEW a \in Items, NEW b \in Items, NEW c \in Items, NEW d \in Items,
           Fit(a), Fit(b), Fit(c), Fit(d),
           a.step # "endscope", b.step # "endscope", d.step # "endscope"
    PROVE  <<a, b, c, d>> \in Seq(Items) /\ Fits(<<a, b, c, d>>)
<1> DEFINE s == <<a, b, c, d>>
<1>1. s \in Seq(Items) /\ Len(s) = 4 /\ s[1] = a /\ s[2] = b /\ s[3] = c /\ s[4] = d
  OBVIOUS
<1> HIDE DEF s
<1>2. \A j \in 1..Len(s) : j = 1 \/ j = 2 \/ j = 3 \/ j = 4
  BY <1>1
<1>3. Fits(s)
  BY <1>1, <1>2, Zenon DEF Fits
<1> QED BY <1>1, <1>3, Zenon DEF s

\* The items handlers leave.  The fields a handler sets do not change which
\* handler it is.
LEMMA ItemUpdates ==
    ASSUME NEW it \in Items, NEW word \in Names \cup Operators, NEW n \in Nat, NEW cell \in Nat,
           NEW pop \in Nat, NEW jz \in Nat, NEW jmp \in Nat, NEW to \in Nat,
           NEW offset \in Int, NEW fun \in Locals
    PROVE  /\ \A i \in {[it EXCEPT !.word = word], [it EXCEPT !.word = word, !.offset = offset]} :
                  i \in Items /\ i.step = it.step /\ i.cell = it.cell /\ i.word = word
           /\ [it EXCEPT !.n = n] \in Items
           /\ [it EXCEPT !.n = n].step = it.step /\ [it EXCEPT !.n = n].n = n
           /\ \A i \in {[it EXCEPT !.jz = jz], [it EXCEPT !.jz = jz, !.to = to],
                        [it EXCEPT !.to = to],
                        [it EXCEPT !.jz = jz, !.jmp = jmp, !.to = to]} :
                  i \in Items /\ i.step = it.step /\ i.cell = it.cell
<1>1. \A i \in {[it EXCEPT !.word = word], [it EXCEPT !.word = word, !.offset = offset]} :
          i \in Items /\ i.step = it.step /\ i.cell = it.cell /\ i.word = word
  BY DEF Items
<1>2. /\ [it EXCEPT !.n = n] \in Items
      /\ [it EXCEPT !.n = n].step = it.step /\ [it EXCEPT !.n = n].n = n
  BY DEF Items
<1>3. \A i \in {[it EXCEPT !.jz = jz], [it EXCEPT !.jz = jz, !.to = to]} :
          i \in Items /\ i.step = it.step /\ i.cell = it.cell
  BY DEF Items
<1>4. \A i \in {[it EXCEPT !.to = to], [it EXCEPT !.jz = jz, !.jmp = jmp, !.to = to]} :
          i \in Items /\ i.step = it.step /\ i.cell = it.cell
  BY DEF Items
<1> HIDE DEF Items
<1> QED BY <1>1, <1>2, <1>3, <1>4, Zenon

LEMMA CallUpdates ==
    ASSUME NEW it \in Items, NEW n \in Nat, NEW cell \in Nat, NEW pop \in Nat,
           NEW fun \in Locals
    PROVE  /\ \A i \in {[it EXCEPT !.n = n, !.fun = fun]} :
                  i \in Items /\ i.step = it.step /\ i.n = n /\ i.fun = fun
           /\ \A i \in {[it EXCEPT !.step = "endarg", !.cell = cell]} :
                  i \in Items /\ i.step = "endarg" /\ i.cell = cell /\ i.n = it.n
                    /\ i.fun = it.fun
           /\ \A i \in {[it EXCEPT !.step = "args", !.n = n, !.pop = pop]} :
                  i \in Items /\ i.step = "args" /\ i.n = n /\ i.fun = it.fun
<1>1. "endarg" \in Steps /\ "args" \in Steps
  BY DEF Steps
<1> QED BY <1>1 DEF Items

\* Handlers with nothing to remember, and handlers with a type pointer.
LEMMA FitPlain ==
    ASSUME NEW it, \/ it.step = "stmts" \/ it.step = "ifjmp"
                   \/ it.step = "endif" \/ it.step = "endwhile"
    PROVE  Fit(it) /\ it.step # "endscope"
  BY Zenon DEF Fit, Nested, CellSteps

LEMMA FitCell ==
    ASSUME NEW it, \/ it.step = "ifjz" \/ it.step = "whilejz" \/ it.step = "endreturn"
                   \/ it.step = "expr" \/ it.step = "store",
           it.cell \in 1..Len(types')
    PROVE  Fit(it) /\ it.step # "endscope"
  BY Zenon DEF Fit, Nested, CellSteps

-----------------------------------------------------------------------------
(* What a step does to the cells, the scopes and the code.                 *)

LEMMA TypesSame == ASSUME SourceTypes, UNCHANGED types PROVE TypesAdd /\ Len(types') = Len(types)
  BY DEF SourceTypes, TypesAdd

LEMMA TypesMake ==
    ASSUME SourceTypes, NEW t \in Types, MakeCell(t)
    PROVE  TypesAdd /\ Len(types') = NewCell /\ NewCell \in 1..Len(types') /\ NewCell \in Nat
  BY DEF SourceTypes, TypesAdd, MakeCell, NewCell

LEMMA TypesSet ==
    ASSUME SourceTypes, Top.cell \in 1..Len(types), NEW t \in Types, SetCell(t)
    PROVE  TypesAdd /\ Len(types') = Len(types)
  BY DEF SourceTypes, TypesAdd, SetCell

LEMMA ScopesSame == ASSUME SourceTypes, UNCHANGED scopes PROVE ScopesAdd /\ Len(scopes') = Len(scopes)
  BY DEF SourceTypes, ScopesAdd

LEMMA ScopesOpen ==
    ASSUME SourceTypes, OpenScope
    PROVE  ScopesAdd /\ Len(scopes') = Len(scopes) + 1 /\ Len(scopes) \in Nat
<1>1. <<>> \in Seq(Locals)
  OBVIOUS
<1>2. scopes \in Seq(Seq(Locals)) /\ Len(scopes) > 0
  BY DEF SourceTypes
<1>3. scopes' = Append(scopes, <<>>)
  BY DEF OpenScope
<1>4. /\ scopes' \in Seq(Seq(Locals))
      /\ Len(scopes') = Len(scopes) + 1
      /\ scopes'[1] = scopes[1]
  BY <1>1, <1>2, <1>3, AppendProperties
<1> QED BY <1>2, <1>4 DEF ScopesAdd

LEMMA ScopesLocal ==
    ASSUME SourceTypes, Len(scopes) >= 2, NEW l \in Locals, AddLocal(l)
    PROVE  ScopesAdd /\ Len(scopes') = Len(scopes)
<1>1. scopes \in Seq(Seq(Locals)) /\ Len(scopes) \in Nat
  BY DEF SourceTypes
<1>2. scopes' = [scopes EXCEPT ![Len(scopes)] = Append(@, l)]
  BY DEF AddLocal
<1>3. Append(scopes[Len(scopes)], l) \in Seq(Locals)
  <2>1. scopes[Len(scopes)] \in Seq(Locals)
    BY <1>1
  <2> QED BY <2>1
<1>4. /\ scopes' \in Seq(Seq(Locals))
      /\ Len(scopes') = Len(scopes)
      /\ scopes'[1] = scopes[1]
  BY <1>1, <1>2, <1>3
<1> QED BY <1>1, <1>4 DEF ScopesAdd

LEMMA BytesSame == ASSUME SourceTypes, UNCHANGED bytes PROVE BytesAdd
  BY DEF SourceTypes, BytesAdd, BytesOK

LEMMA BytesEmit ==
    ASSUME SourceTypes, NEW s \in Seq(InstrRecords), bytes' = EmitAll(bytes, s)
    PROVE  BytesAdd
  BY EmitAllType DEF SourceTypes, BytesAdd

LEMMA BytesPatch ==
    ASSUME SourceTypes, NEW b, BytesOK(b), b.used >= bytes.used, NEW x, NEW arg \in Int,
           bytes' = Patch(b, x, arg)
    PROVE  BytesAdd
  BY PatchType DEF SourceTypes, BytesOK, BytesAdd

LEMMA OthersSame ==
    ASSUME SourceTypes, UNCHANGED <<funs, main_idx, offset_counter, fun_ret_type, status>>,
           budget' \in Nat
    PROVE  OthersAdd
  BY DEF SourceTypes, OthersAdd

\* A handler that is done leaves the rest to the one that called it.
LEMMA PopStep ==
    ASSUME SourceTypes, Shape, Top.step \notin {"decls", "endfun", "params"},
           work' = Front(work), Adds
    PROVE  Kept
<1>1. work \in Seq(Items) /\ Len(work) >= 1
  BY TopInFunction DEF SourceTypes
<1>2. Front(work) \in Seq(Items)
  BY <1>1, FrontType, Zenon DEF Front
<1>3. Front(work) \o <<>> = Front(work)
  BY <1>2, ConcatEmptySeq, Zenon
<1>4. Become(<<>>)
  BY <1>3, Zenon DEF Become
<1> QED BY <1>4, FitsNone, StepInFunction, Zenon

\* The instructions a handler emits.
LEMMA OneInstr ==
    ASSUME NEW op \in Ops, NEW w \in Widths \cup {0}, NEW arg \in Int
    PROVE  <<Instr(op, w, arg)>> \in Seq(InstrRecords)
<1>1. Instr(op, w, arg) \in InstrRecords
  BY InstrType, Zenon
<1> QED BY <1>1

LEMMA TwoInstrs ==
    ASSUME NEW op1 \in Ops, NEW w1 \in Widths \cup {0}, NEW arg1 \in Int,
           NEW op2 \in Ops, NEW w2 \in Widths \cup {0}, NEW arg2 \in Int
    PROVE  <<Instr(op1, w1, arg1), Instr(op2, w2, arg2)>> \in Seq(InstrRecords)
<1>1. Instr(op1, w1, arg1) \in InstrRecords /\ Instr(op2, w2, arg2) \in InstrRecords
  BY InstrType, Zenon
<1> QED BY <1>1

\* A handler's type pointer.
LEMMA CellType ==
    ASSUME SourceTypes, Shape, Top.step \in CellSteps
    PROVE  /\ Top.cell \in 1..Len(types)
           /\ Top.cell \in Nat
           /\ Cell \in Types
           /\ TypeSize(Cell) \in Widths \cup {0}
           /\ TypeSize(Cell) \in Nat
<1>1. Top.step \notin {"decls", "endfun"}
  BY DEF CellSteps
<1>2. Nested(Top, Len(types), Len(scopes))
  BY <1>1, TopInFunction, Zenon
<1>3. Top.cell \in 1..Len(types)
  BY <1>2, Zenon DEF Nested
<1>4. types \in Seq(Types) /\ Len(types) \in Nat
  BY DEF SourceTypes
<1>5. Cell \in Types /\ Top.cell \in Nat
  BY <1>3, <1>4 DEF Cell
<1> QED BY <1>3, <1>5, SizeOfType, Zenon

-----------------------------------------------------------------------------
(* Statements keep the types and the shape.                                *)

\* The statement list goes on after the statement.
LEMMA MoreFits ==
    ASSUME SourceTypes, Shape, Top.step = "stmts"
    PROVE  More \in Items /\ Fit(More) /\ More.step # "endscope"
<1>1. Top \in Items
  BY TopInFunction, Zenon
<1>2. More \in Items /\ More.step = "stmts"
  <2> DEFINE it == Top
  <2>1. More = [it EXCEPT !.n = 1]
    BY DEF More
  <2>2. it \in Items /\ it.step = "stmts"
    BY <1>1
  <2> HIDE DEF it
  <2> QED BY <2>1, <2>2 DEF Items
<1> QED BY <1>2, FitPlain, Zenon

LEMMA EndStmtsStep ==
    ASSUME SourceTypes, Shape, EndStmts
    PROVE  Kept
<1>1. Adds
  BY TypesSame, ScopesSame, BytesSame, OthersSame DEF EndStmts, Adds, SourceTypes
<1> QED BY <1>1, PopStep DEF EndStmts, At

\* A list of statements in a scope of its own.
LEMMA BodyFits ==
    ASSUME SourceTypes, Shape, Len(scopes) >= 2, OpenScope
    PROVE  /\ CloseScope \in Items /\ Fit(CloseScope)
           /\ Item("stmts") \in Items /\ Fit(Item("stmts")) /\ Item("stmts").step # "endscope"
<1> DEFINE n    == Len(scopes) + 1
           it   == Item("endscope")
           end  == [it EXCEPT !.n = n]
           stmts == Item("stmts")
<1>1. "endscope" \in Steps /\ "stmts" \in Steps
  BY DEF Steps
<1>2. it \in Items /\ it.step = "endscope" /\ stmts \in Items /\ stmts.step = "stmts"
  BY <1>1, ItemType, Zenon
<1>3. Len(scopes') = n /\ n \in Nat /\ n \in 3..Len(scopes') /\ n > Len(scopes)
  BY ScopesOpen
<1>4. CloseScope = end
  BY DEF CloseScope
<1> HIDE DEF it, n
<1>5. end \in Items /\ end.step = "endscope" /\ end.n = n
  BY <1>2, <1>3 DEF Items
<1> HIDE DEF end
<1>6. Fit(end)
  BY <1>3, <1>5, Zenon DEF Fit, Nested, CellSteps
<1>7. Fit(stmts) /\ stmts.step # "endscope"
  <2> HIDE DEF stmts
  <2> QED BY <1>2, FitPlain, Zenon
<1> QED BY <1>2, <1>4, <1>5, <1>6, <1>7, Zenon

\* A cell made for an expression, and the handler that takes up after it.
LEMMA CellItem ==
    ASSUME NEW step \in Steps, NEW c \in Nat
    PROVE  /\ ItemWith(step, c) \in Items
           /\ ItemWith(step, c).step = step
           /\ ItemWith(step, c).cell = c
  BY ItemType, Zenon

LEMMA SpendType ==
    ASSUME SourceTypes, NEW n \in Int, Spend(n)
    PROVE  budget' \in Nat
  BY DEF SourceTypes, Spend

LEMMA StmtCostType ==
    ASSUME SourceTypes, NEW n \in Int, StmtCost(n)
    PROVE  budget' \in Nat
<1>1. (IF Top.n = 0 THEN n - 2 ELSE n) \in Int
  OBVIOUS
<1> QED BY <1>1, SpendType, Zenon DEF StmtCost

LEMMA EmitIfStep ==
    ASSUME SourceTypes, Shape, EmitIf
    PROVE  Kept
<1> DEFINE jz == ItemWith("ifjz", NewCell)
           ex == ItemWith("expr", NewCell)
<1>1. Top.step = "stmts"
  BY DEF EmitIf, At
<1>2. TypesAdd /\ NewCell \in 1..Len(types') /\ NewCell \in Nat
  BY TypesMake DEF EmitIf, Types
<1>3. Adds
  BY <1>2, StmtCostType, ScopesSame, BytesSame, OthersSame DEF EmitIf, Adds
<1>4. /\ jz \in Items /\ jz.step = "ifjz" /\ jz.cell = NewCell
      /\ ex \in Items /\ ex.step = "expr" /\ ex.cell = NewCell
  <2>1. "ifjz" \in Steps /\ "expr" \in Steps
    BY DEF Steps
  <2> QED BY <1>2, <2>1, CellItem, Zenon
<1>5. Become(<<More, jz, ex>>)
  BY DEF EmitIf
<1> HIDE DEF jz, ex
<1>6. <<More, jz, ex>> \in Seq(Items) /\ Fits(<<More, jz, ex>>)
  BY <1>1, <1>2, <1>4, MoreFits, FitCell, FitsThree, Zenon
<1> QED BY <1>1, <1>3, <1>5, <1>6, StepInFunction, Zenon

LEMMA IfJzStep ==
    ASSUME SourceTypes, Shape, IfJz
    PROVE  Kept
<1> DEFINE it  == Item("ifjmp")
           jmp == [it EXCEPT !.jz = bytes.used]
<1>1. Top.step = "ifjz" /\ Top.step \in CellSteps
  BY DEF IfJz, At, CellSteps
<1>2. CASE Cell = "unit"
  BY <1>2, FailStep, Zenon DEF IfJz
<1>3. CASE Cell # "unit"
  <2>1. OpenScope /\ Len(scopes) >= 2
    BY <1>1, <1>3, TopInFunction DEF IfJz
  <2>2. TypesAdd /\ ScopesAdd /\ OthersAdd
    BY <1>3, <2>1, TypesSame, ScopesOpen, OthersSame DEF IfJz, SourceTypes
  <2>3. BytesAdd
    <3>1. "jz" \in Ops /\ 0 \in Int
      BY DEF Ops, WithOperand
    <3>2. <<Instr("jz", TypeSize(Cell), 0)>> \in Seq(InstrRecords)
      BY <1>1, <3>1, CellType, OneInstr, Zenon
    <3> QED BY <1>3, <3>2, BytesEmit, Zenon DEF IfJz
  <2>4. jmp \in Items /\ jmp.step = "ifjmp"
    <3>1. "ifjmp" \in Steps
      BY DEF Steps
    <3>2. it \in Items /\ it.step = "ifjmp" /\ bytes.used \in Nat
      BY <3>1, ItemType DEF SourceTypes, BytesOK
    <3> HIDE DEF it
    <3> QED BY <3>2 DEF Items
  <2>5. Become(<<jmp, CloseScope, Item("stmts")>>)
    BY <1>3 DEF IfJz
  <2> HIDE DEF it, jmp
  <2>6. Fit(jmp) /\ jmp.step # "endscope"
    BY <2>4, FitPlain, Zenon
  <2>7. /\ <<jmp, CloseScope, Item("stmts")>> \in Seq(Items)
        /\ Fits(<<jmp, CloseScope, Item("stmts")>>)
    BY <2>1, <2>4, <2>6, BodyFits, FitsThree, Zenon
  <2>8. Top.step \notin {"decls", "endfun", "params"}
    BY <1>1
  <2> QED BY <2>2, <2>3, <2>5, <2>7, <2>8, StepInFunction, Zenon DEF Adds
<1> QED BY <1>2, <1>3, Zenon

LEMMA IfJmpStep ==
    ASSUME SourceTypes, Shape, NEW else \in {"none", "elseif", "else"}, IfJmp(else)
    PROVE  Kept
<1> DEFINE code == <<Instr("jmp", 0, 0)>>
           b    == EmitAll(bytes, code)
           it   == Item("endif")
           end  == [it EXCEPT !.jz = Top.jz, !.jmp = bytes.used, !.to = b.used]
           jz   == ItemWith("ifjz", NewCell)
           ex   == ItemWith("expr", NewCell)
           jmp  == Item("ifjmp")
<1>1. Top.step = "ifjmp" /\ Top.step \notin {"decls", "endfun", "params"}
  BY DEF IfJmp, At
<1>2. /\ bytes' = b
      /\ UNCHANGED <<funs, main_idx, offset_counter, fun_ret_type, status>>
      /\ \/ /\ Become(<<end>>)
            /\ UNCHANGED <<scopes, types, budget>>
         \/ /\ Spend(4)
            /\ MakeCell("unit")
            /\ Become(<<end, jz, ex>>)
            /\ UNCHANGED scopes
         \/ /\ Spend(3)
            /\ Become(<<end, jmp, CloseScope, Item("stmts")>>)
            /\ OpenScope
            /\ UNCHANGED types
  BY DEF IfJmp
<1>3. BytesAdd /\ BytesOK(b)
  <2>1. "jmp" \in Ops /\ 0 \in Int /\ 0 \in Widths \cup {0}
    BY DEF Ops, WithOperand
  <2>2. code \in Seq(InstrRecords)
    BY <2>1, OneInstr, Zenon
  <2> HIDE DEF code
  <2> QED BY <1>2, <2>2, BytesEmit, EmitAllType DEF SourceTypes
<1>4. end \in Items /\ end.step = "endif" /\ Fit(end) /\ end.step # "endscope"
  <2>1. "endif" \in Steps
    BY DEF Steps
  <2>2. it \in Items /\ it.step = "endif" /\ bytes.used \in Nat /\ b.used \in Nat
    BY <1>3, <2>1, ItemType DEF SourceTypes, BytesOK
  <2>3. Top.jz \in Nat \cup {None}
    BY <1>1, TopInFunction DEF Items
  <2> HIDE DEF it, b
  <2>4. end \in Items /\ end.step = "endif"
    BY <2>2, <2>3 DEF Items
  <2> HIDE DEF end
  <2> QED BY <2>4, FitPlain, Zenon
<1>5. /\ \A c \in Nat : /\ ItemWith("ifjz", c) \in Items /\ ItemWith("ifjz", c).step = "ifjz"
                        /\ ItemWith("ifjz", c).cell = c
                        /\ ItemWith("expr", c) \in Items /\ ItemWith("expr", c).step = "expr"
                        /\ ItemWith("expr", c).cell = c
      /\ jmp \in Items /\ jmp.step = "ifjmp"
  <2>1. "ifjz" \in Steps /\ "expr" \in Steps /\ "ifjmp" \in Steps
    BY DEF Steps
  <2> QED BY <2>1, ItemType, Zenon
<1> HIDE DEF b, end
<1>6. CASE Become(<<end>>) /\ UNCHANGED <<scopes, types, budget>>
  <2>1. Adds
    BY <1>2, <1>3, <1>6, TypesSame, ScopesSame, OthersSame DEF Adds, SourceTypes
  <2>2. <<end>> \in Seq(Items) /\ Fits(<<end>>)
    BY <1>4, FitsOne, Zenon
  <2> QED BY <1>1, <1>6, <2>1, <2>2, StepInFunction, Zenon
<1>7. CASE Spend(4) /\ MakeCell("unit") /\ Become(<<end, jz, ex>>) /\ UNCHANGED scopes
  <2>1. TypesAdd /\ NewCell \in 1..Len(types') /\ NewCell \in Nat
    BY <1>7, TypesMake DEF Types
  <2>2. Adds
    BY <1>2, <1>3, <1>7, <2>1, SpendType, ScopesSame, OthersSame DEF Adds
  <2>3. /\ jz \in Items /\ jz.step = "ifjz" /\ jz.cell = NewCell
        /\ ex \in Items /\ ex.step = "expr" /\ ex.cell = NewCell
    BY <1>5, <2>1, Zenon
  <2> HIDE DEF jz, ex
  <2>4. <<end, jz, ex>> \in Seq(Items) /\ Fits(<<end, jz, ex>>)
    BY <1>4, <2>1, <2>3, FitCell, FitsThree, Zenon
  <2> QED BY <1>1, <1>7, <2>2, <2>4, StepInFunction, Zenon
<1>8. CASE Spend(3) /\ Become(<<end, jmp, CloseScope, Item("stmts")>>) /\ OpenScope /\ UNCHANGED types
  <2>1. Len(scopes) >= 2
    BY <1>1, TopInFunction
  <2>2. Adds
    BY <1>2, <1>3, <1>8, SpendType, TypesSame, ScopesOpen, OthersSame DEF Adds
  <2> HIDE DEF jmp
  <2>3. jmp \in Items /\ Fit(jmp) /\ jmp.step # "endscope"
    BY <1>5, FitPlain, Zenon DEF jmp
  <2>4. /\ <<end, jmp, CloseScope, Item("stmts")>> \in Seq(Items)
        /\ Fits(<<end, jmp, CloseScope, Item("stmts")>>)
    BY <1>4, <1>8, <2>1, <2>3, BodyFits, FitsFour, Zenon
  <2> QED BY <1>1, <1>8, <2>2, <2>4, StepInFunction, Zenon
<1> QED BY <1>2, <1>6, <1>7, <1>8, Zenon

\* A patch only changes operands.
LEMMA EndIfStep ==
    ASSUME SourceTypes, Shape, EndIf
    PROVE  Kept
<1> DEFINE b == IF Top.jz = None THEN bytes ELSE Patch(bytes, Top.jz, Top.to)
<1>1. Top.step = "endif" /\ Top.step \notin {"decls", "endfun", "params"}
  BY DEF EndIf, At
<1>2. Top \in Items
  BY <1>1, TopInFunction
<1>3. Top.to \in Int /\ BytesOK(bytes)
  BY <1>2 DEF Items, SourceTypes
<1>4. BytesOK(b) /\ b.used = bytes.used
  BY <1>3, PatchType
<1>5. bytes.used \in Int
  BY <1>3 DEF BytesOK
<1>6. bytes' = Patch(b, Top.jmp, bytes.used)
  BY DEF EndIf
<1> HIDE DEF b
<1>7. BytesAdd
  <2>1. b.used >= bytes.used
    BY <1>4, <1>5
  <2> QED BY <1>4, <1>5, <1>6, <2>1, BytesPatch, Zenon
<1>8. Adds
  BY <1>7, TypesSame, ScopesSame, OthersSame DEF EndIf, Adds, SourceTypes
<1> QED BY <1>1, <1>8, PopStep DEF EndIf

LEMMA EmitWhileStep ==
    ASSUME SourceTypes, Shape, EmitWhile
    PROVE  Kept
<1> DEFINE it == ItemWith("whilejz", NewCell)
           jz == [it EXCEPT !.to = bytes.used]
           ex == ItemWith("expr", NewCell)
<1>1. Top.step = "stmts"
  BY DEF EmitWhile, At
<1>2. TypesAdd /\ NewCell \in 1..Len(types') /\ NewCell \in Nat
  BY TypesMake DEF EmitWhile, Types
<1>3. Adds
  BY <1>2, StmtCostType, ScopesSame, BytesSame, OthersSame DEF EmitWhile, Adds
<1>4. /\ it \in Items /\ it.step = "whilejz" /\ it.cell = NewCell
      /\ ex \in Items /\ ex.step = "expr" /\ ex.cell = NewCell
  <2>1. "whilejz" \in Steps /\ "expr" \in Steps
    BY DEF Steps
  <2> QED BY <1>2, <2>1, CellItem, Zenon
<1>5. Become(<<More, jz, ex>>)
  BY DEF EmitWhile
<1> HIDE DEF it, ex
<1>6. jz \in Items /\ jz.step = "whilejz" /\ jz.cell = NewCell
  <2>1. bytes.used \in Nat
    BY DEF SourceTypes, BytesOK
  <2> QED BY <1>4, <2>1 DEF Items
<1> HIDE DEF jz
<1>7. <<More, jz, ex>> \in Seq(Items) /\ Fits(<<More, jz, ex>>)
  BY <1>1, <1>2, <1>4, <1>6, MoreFits, FitCell, FitsThree, Zenon
<1> QED BY <1>1, <1>3, <1>5, <1>7, StepInFunction, Zenon

LEMMA WhileJzStep ==
    ASSUME SourceTypes, Shape, WhileJz
    PROVE  Kept
<1> DEFINE it  == Item("endwhile")
           end == [it EXCEPT !.jz = bytes.used, !.to = Top.to]
<1>1. Top.step = "whilejz" /\ Top.step \in CellSteps
  BY DEF WhileJz, At, CellSteps
<1>2. CASE Cell = "unit"
  BY <1>2, FailStep, Zenon DEF WhileJz
<1>3. CASE Cell # "unit"
  <2>1. OpenScope /\ Len(scopes) >= 2 /\ Top \in Items
    BY <1>1, <1>3, TopInFunction DEF WhileJz
  <2>2. TypesAdd /\ ScopesAdd /\ OthersAdd
    BY <1>3, <2>1, TypesSame, ScopesOpen, OthersSame DEF WhileJz, SourceTypes
  <2>3. BytesAdd
    <3>1. "jz" \in Ops /\ 0 \in Int
      BY DEF Ops, WithOperand
    <3>2. <<Instr("jz", TypeSize(Cell), 0)>> \in Seq(InstrRecords)
      BY <1>1, <3>1, CellType, OneInstr, Zenon
    <3> QED BY <1>3, <3>2, BytesEmit, Zenon DEF WhileJz
  <2>4. end \in Items /\ end.step = "endwhile"
    <3>1. "endwhile" \in Steps
      BY DEF Steps
    <3>2. it \in Items /\ it.step = "endwhile" /\ bytes.used \in Nat
      BY <3>1, ItemType DEF SourceTypes, BytesOK
    <3>3. Top.to \in Nat
      BY <2>1 DEF Items
    <3> HIDE DEF it
    <3> QED BY <3>2, <3>3 DEF Items
  <2>5. Become(<<end, CloseScope, Item("stmts")>>)
    BY <1>3 DEF WhileJz
  <2> HIDE DEF it, end
  <2>6. Fit(end) /\ end.step # "endscope"
    BY <2>4, FitPlain, Zenon
  <2>7. /\ <<end, CloseScope, Item("stmts")>> \in Seq(Items)
        /\ Fits(<<end, CloseScope, Item("stmts")>>)
    BY <2>1, <2>4, <2>6, BodyFits, FitsThree, Zenon
  <2>8. Top.step \notin {"decls", "endfun", "params"}
    BY <1>1
  <2> QED BY <2>2, <2>3, <2>5, <2>7, <2>8, StepInFunction, Zenon DEF Adds
<1> QED BY <1>2, <1>3, Zenon

LEMMA EndWhileStep ==
    ASSUME SourceTypes, Shape, EndWhile
    PROVE  Kept
<1> DEFINE code == <<Instr("jmp", 0, Top.to)>>
           b    == EmitAll(bytes, code)
<1>1. Top.step = "endwhile" /\ Top.step \notin {"decls", "endfun", "params"}
  BY DEF EndWhile, At
<1>2. Top.to \in Int
  BY <1>1, TopInFunction DEF Items
<1>3. BytesOK(b) /\ b.used >= bytes.used
  <2>1. "jmp" \in Ops /\ 0 \in Widths \cup {0}
    BY DEF Ops, WithOperand
  <2>2. code \in Seq(InstrRecords)
    BY <1>2, <2>1, OneInstr, Zenon
  <2> HIDE DEF code
  <2> QED BY <2>2, EmitAllType DEF SourceTypes
<1>4. bytes' = Patch(b, Top.jz, b.used)
  BY DEF EndWhile
<1> HIDE DEF b
<1>5. BytesAdd
  <2>1. b.used \in Int
    BY <1>3 DEF BytesOK
  <2> QED BY <1>3, <1>4, <2>1, BytesPatch, Zenon
<1>6. Adds
  BY <1>5, TypesSame, ScopesSame, OthersSame DEF EndWhile, Adds, SourceTypes
<1> QED BY <1>1, <1>6, PopStep DEF EndWhile

LEMMA EmitBlockStep ==
    ASSUME SourceTypes, Shape, EmitBlock
    PROVE  Kept
<1>1. Top.step = "stmts" /\ Top.step \notin {"decls", "endfun", "params"}
  BY DEF EmitBlock, At
<1>2. OpenScope /\ Len(scopes) >= 2
  BY <1>1, TopInFunction DEF EmitBlock
<1>3. Adds
  BY <1>2, StmtCostType, TypesSame, ScopesOpen, BytesSame, OthersSame DEF EmitBlock, Adds
<1>4. /\ <<More, CloseScope, Item("stmts")>> \in Seq(Items)
      /\ Fits(<<More, CloseScope, Item("stmts")>>)
  BY <1>1, <1>2, MoreFits, BodyFits, FitsThree, Zenon
<1> QED BY <1>1, <1>3, <1>4, StepInFunction, Zenon DEF EmitBlock

LEMMA EmitMatchStep ==
    ASSUME SourceTypes, Shape, EmitMatch
    PROVE  Kept
<1>1. Top.step = "stmts" /\ Top.step \notin {"decls", "endfun", "params"}
  BY DEF EmitMatch, At
<1>2. Adds
  BY StmtCostType, TypesSame, ScopesSame, BytesSame, OthersSame DEF EmitMatch, Adds
<1>3. <<More>> \in Seq(Items) /\ Fits(<<More>>)
  BY <1>1, MoreFits, FitsOne, Zenon
<1> QED BY <1>1, <1>2, <1>3, StepInFunction, Zenon DEF EmitMatch

LEMMA EmitExprStmtStep ==
    ASSUME SourceTypes, Shape, EmitExprStmt
    PROVE  Kept
<1> DEFINE ex == ItemWith("expr", NewCell)
<1>1. Top.step = "stmts" /\ Top.step \notin {"decls", "endfun", "params"}
  BY DEF EmitExprStmt, At
<1>2. TypesAdd /\ NewCell \in 1..Len(types') /\ NewCell \in Nat
  BY TypesMake DEF EmitExprStmt, Types
<1>3. Adds
  BY <1>2, StmtCostType, ScopesSame, BytesSame, OthersSame DEF EmitExprStmt, Adds
<1>4. ex \in Items /\ ex.step = "expr" /\ ex.cell = NewCell
  <2>1. "expr" \in Steps
    BY DEF Steps
  <2> QED BY <1>2, <2>1, CellItem, Zenon
<1>5. Become(<<More, ex>>)
  BY DEF EmitExprStmt
<1> HIDE DEF ex
<1>6. <<More, ex>> \in Seq(Items) /\ Fits(<<More, ex>>)
  BY <1>1, <1>2, <1>4, MoreFits, FitCell, FitsTwo, Zenon
<1> QED BY <1>1, <1>3, <1>5, <1>6, StepInFunction, Zenon

LEMMA EmitVarStep ==
    ASSUME SourceTypes, Shape, NEW name \in VarNames, NEW t \in VarTypes, NEW init \in BOOLEAN,
           EmitVar(name, t, init)
    PROVE  Kept
<1> DEFINE it  == ItemWith("endvar", NewCell)
           end == [it EXCEPT !.word = name]
           ex  == ItemWith("expr", NewCell)
           code == <<Instr("mov_imm", 8, 0)>>
<1>1. Top.step = "stmts" /\ Top.step \notin {"decls", "endfun", "params"}
  BY DEF EmitVar, At
<1>2. t \in Types /\ name \in Names
  BY SourceAssumption DEF Names
<1>3. TypesAdd /\ NewCell \in 1..Len(types') /\ NewCell \in Nat
  BY <1>2, TypesMake, Zenon DEF EmitVar
<1>4. BytesAdd
  <2>1. "mov_imm" \in Ops /\ 8 \in Widths \cup {0} /\ 0 \in Int
    BY DEF Ops, Widths
  <2>2. code \in Seq(InstrRecords)
    BY <2>1, OneInstr, Zenon
  <2>3. UNCHANGED bytes \/ bytes' = EmitAll(bytes, code)
    BY DEF EmitVar
  <2> HIDE DEF code
  <2> QED BY <2>2, <2>3, BytesSame, BytesEmit, Zenon
<1>5. OthersAdd
  <2>1. (IF init THEN 2 ELSE 1) \in Int
    OBVIOUS
  <2>2. budget' \in Nat
    BY <2>1, StmtCostType, Zenon DEF EmitVar
  <2> QED BY <2>2, OthersSame DEF EmitVar, StmtCost, Spend, SourceTypes, OthersAdd
<1>6. Adds
  BY <1>3, <1>4, <1>5, ScopesSame, Zenon DEF EmitVar, Adds
<1>7. /\ it \in Items /\ it.step = "endvar" /\ it.cell = NewCell
      /\ ex \in Items /\ ex.step = "expr" /\ ex.cell = NewCell
  <2>1. "endvar" \in Steps /\ "expr" \in Steps
    BY DEF Steps
  <2> QED BY <1>3, <2>1, CellItem, Zenon
<1>8. Become(<<More, end, ex>>) \/ Become(<<More, end>>)
  BY DEF EmitVar
<1> HIDE DEF it, ex
<1>9. end \in Items /\ end.step = "endvar" /\ end.cell = NewCell /\ end.word = name
  BY <1>2, <1>7 DEF Items
<1> HIDE DEF end
<1>10. Fit(end) /\ end.step # "endscope"
  BY <1>2, <1>3, <1>9, Zenon DEF Fit, Nested, CellSteps
<1>11. Fit(ex) /\ ex.step # "endscope"
  BY <1>3, <1>7, FitCell, Zenon
<1>12. <<More, end, ex>> \in Seq(Items) /\ Fits(<<More, end, ex>>)
  BY <1>1, <1>7, <1>9, <1>10, <1>11, MoreFits, FitsThree, Zenon
<1>13. <<More, end>> \in Seq(Items) /\ Fits(<<More, end>>)
  BY <1>1, <1>9, <1>10, MoreFits, FitsTwo, Zenon
<1> QED BY <1>1, <1>6, <1>8, <1>12, <1>13, StepInFunction, Zenon

\* A step that leaves the stack, the cells, the scopes and the code alone.
LEMMA SameShape ==
    ASSUME Shape, UNCHANGED <<work, types, scopes, bytes, funs>>
    PROVE  Shape'
  BY DEF Shape, Handlers, Nesting, Emitted, Top

LEMMA EndVarStep ==
    ASSUME SourceTypes, Shape, EndVar
    PROVE  Kept
<1> DEFINE size   == TypeSize(Cell)
           offset == offset_counter - size
           code   == <<Instr("mov_a_offset", size, offset)>>
           local  == Local("var", Top.word, Cell, <<>>, offset)
<1>1. /\ Top.step = "endvar" /\ Top.step \notin {"decls", "endfun", "params"}
      /\ Top.step \in CellSteps
  BY DEF EndVar, At, CellSteps
<1>2. Cell \in Types /\ size \in Widths \cup {0} /\ size \in Nat
  BY <1>1, CellType, Zenon
<1>3. offset \in Int /\ offset_counter' = offset
  BY <1>2 DEF SourceTypes, EndVar
<1>4. CASE size = 0
  <2>1. /\ status' = "failed"
        /\ UNCHANGED <<bytes, scopes, work, funs, main_idx, fun_ret_type, types, budget>>
    BY <1>4 DEF EndVar
  <2>2. Shape'
    BY <2>1, SameShape, Zenon
  <2>3. SourceTypes'
    BY <1>3, <2>1 DEF SourceTypes
  <2> QED BY <2>1, <2>2, <2>3, SameWork
<1>5. CASE size # 0
  <2>1. /\ bytes' = EmitAll(bytes, code)
        /\ AddLocal(local)
        /\ work' = Front(work)
        /\ UNCHANGED <<status, funs, main_idx, fun_ret_type, types, budget>>
    BY <1>5 DEF EndVar
  <2>2. "mov_a_offset" \in Ops
    BY DEF Ops, WithOperand
  <2> HIDE DEF size, offset
  <2>3. BytesAdd
    <3>1. code \in Seq(InstrRecords)
      BY <1>2, <1>3, <2>2, OneInstr, Zenon
    <3> HIDE DEF code
    <3> QED BY <2>1, <3>1, BytesEmit, Zenon
  <2>4. ScopesAdd
    <3>1. Len(scopes) >= 2 /\ Top.word \in Names
      BY <1>1, TopInFunction, Zenon DEF Nested
    <3>2. "var" \in {"var", "fun", "sysfun"} /\ <<>> \in Seq(Types)
      OBVIOUS
    <3>3. local \in Locals
      BY <1>2, <1>3, <3>1, <3>2, LocalType, Zenon
    <3> HIDE DEF local
    <3> QED BY <2>1, <3>1, <3>3, ScopesLocal, Zenon
  <2>5. TypesAdd
    BY <2>1, TypesSame
  <2>6. OthersAdd
    BY <1>3, <2>1 DEF SourceTypes, OthersAdd
  <2> QED BY <1>1, <2>1, <2>3, <2>4, <2>5, <2>6, PopStep, Zenon DEF Adds
<1> QED BY <1>4, <1>5, Zenon

\* The scope closed is the innermost one opened by a handler still running.
LEMMA EndScopeStep ==
    ASSUME SourceTypes, Shape, EndScope
    PROVE  Kept
<1> DEFINE n == Len(work)
           k == Len(scopes)
<1>1. Top.step = "endscope" /\ Top.step \notin {"decls", "endfun", "params"}
  BY DEF EndScope, At
<1>2. /\ n >= 3 /\ n \in Nat /\ k \in Nat /\ Top = work[n]
      /\ Top.n \in 3..k
      /\ work \in Seq(Items)
  BY <1>1, TopInFunction DEF Nested, SourceTypes
<1>3. /\ scopes' = SubSeq(scopes, 1, Top.n - 1)
      /\ work' = Front(work)
      /\ UNCHANGED <<bytes, funs, main_idx, offset_counter, fun_ret_type, types, budget, status>>
  BY DEF EndScope
<1>4. /\ scopes' \in Seq(Seq(Locals))
      /\ Len(scopes') = Top.n - 1
      /\ scopes'[1] = scopes[1]
  <2>1. scopes \in Seq(Seq(Locals))
    BY DEF SourceTypes
  <2>2. Top.n - 1 \in Nat /\ Top.n - 1 <= Len(scopes) /\ 1 \in 1..(Top.n - 1)
    BY <1>2
  <2> QED BY <1>3, <2>1, <2>2, PrefixType, Zenon
<1>5. /\ work' \in Seq(Items)
      /\ Len(work') = n - 1
      /\ \A i \in 1..(n - 1) : work'[i] = work[i]
  <2>1. Len(work) >= 1
    BY <1>2
  <2> QED BY <1>2, <1>3, <2>1, FrontType, Zenon DEF Front
<1> HIDE DEF n, k
<1>6. SourceTypes'
  <2>1. Len(scopes') > 0 /\ Len(work') > 0
    BY <1>2, <1>4, <1>5
  <2> QED BY <1>3, <1>4, <1>5, <2>1 DEF SourceTypes
<1>7. \A i \in 3..n : Nested(work[i], Len(types), k)
                        /\ (work[i].step = "params" => n <= 3)
  BY DEF Shape, Handlers, n, k
<1>8. \A i, j \in 3..n :
          i < j /\ work[i].step = "endscope" /\ work[j].step = "endscope"
              => work[i].n < work[j].n
  BY DEF Shape, Nesting, n
<1>9. ASSUME NEW i \in 3..(n - 1)
      PROVE  Nested(work[i], Len(types), Len(scopes')) /\ work[i].step # "params"
  <2>1. i \in 3..n /\ n \in 3..n /\ i < n /\ ~(n <= 3)
    BY <1>2
  <2>2. Nested(work[i], Len(types), k) /\ work[i].step # "params"
    BY <1>7, <2>1, Zenon
  <2>3. work[i].step = "endscope" => work[i].n \in 3..Len(scopes')
    <3>1. work[i].step = "endscope" => work[i].n \in 3..k /\ work[i].n < Top.n
      BY <1>1, <1>2, <1>8, <2>1, <2>2, Zenon DEF Nested
    <3> QED BY <1>2, <1>4, <3>1
  <2> QED BY <2>2, <2>3, Zenon DEF Nested
<1>10. work'[1].step = "decls" /\ work'[2].step = "endfun"
  <2>1. 1 \in 1..(n - 1) /\ 2 \in 1..(n - 1) /\ Len(work) > 1
    BY <1>2 DEF n
  <2> QED BY <1>5, <2>1, Zenon DEF Shape, Handlers
<1>11. \A i \in 3..(n - 1) : work'[i] = work[i]
  BY <1>2, <1>5
<1>12. Handlers'
  <2>1. \A i \in 3..Len(work') : Nested(work'[i], Len(types'), Len(scopes'))
                                   /\ work'[i].step # "params"
    BY <1>3, <1>5, <1>9, <1>11, Zenon
  <2> QED BY <1>10, <2>1, Zenon DEF Handlers
<1>13. Top'.step # "params"
  <2>1. Top' = work'[n - 1]
    BY <1>5 DEF Top, Last
  <2>2. CASE n > 3
    BY <1>2, <1>9, <1>11, <2>1, <2>2
  <2>3. CASE ~(n > 3)
    <3>1. n - 1 = 2
      BY <1>2, <2>3
    <3> QED BY <1>10, <2>1, <3>1
  <2> QED BY <2>2, <2>3
<1>14. Nesting'
  <2>1. Len(work') > 1 /\ Len(scopes') > 1
    BY <1>2, <1>4, <1>5
  <2>2. Len(scopes'[1]) >= 1
    BY <1>4 DEF Shape, Nesting
  <2>3. ASSUME NEW i \in 3..(n - 1), NEW j \in 3..(n - 1), i < j,
               work'[i].step = "endscope", work'[j].step = "endscope"
        PROVE  work'[i].n < work'[j].n
    <3>1. work'[i] = work[i] /\ work'[j] = work[j] /\ i \in 3..n /\ j \in 3..n
      BY <1>2, <1>11
    <3> QED BY <1>8, <2>3, <3>1
  <2> QED BY <1>5, <1>13, <2>1, <2>2, <2>3 DEF Nesting
<1>15. Emitted'
  <2>1. Len(work) > 1
    BY <1>2 DEF n
  <2>2. funs # <<>> /\ \A i \in 1..Len(funs) : funs[i].offset <= bytes.used
    BY <1>1, <2>1, Zenon DEF Shape, Emitted
  <2> QED BY <1>3, <2>2 DEF Emitted
<1>16. Len(work') > 1
  BY <1>2, <1>5
<1> QED BY <1>6, <1>12, <1>13, <1>14, <1>15, <1>16 DEF Shape, Kept

LEMMA EmitReturnStep ==
    ASSUME SourceTypes, Shape, NEW expr \in BOOLEAN, EmitReturn(expr)
    PROVE  Kept
<1> DEFINE end  == ItemWith("endreturn", NewCell)
           ex   == ItemWith("expr", NewCell)
           code == <<Instr("leave", 0, 0), Instr("ret", 0, 0)>>
<1>1. Top.step = "stmts" /\ Top.step \notin {"decls", "endfun", "params"}
  BY DEF EmitReturn, At
<1>2. OthersAdd /\ ScopesAdd
  <2>1. (IF expr THEN 2 ELSE 1) \in Int
    OBVIOUS
  <2>2. budget' \in Nat
    BY <2>1, StmtCostType, Zenon DEF EmitReturn
  <2> QED BY <2>2, OthersSame, ScopesSame DEF EmitReturn
<1>3. CASE expr
  <2>1. TypesAdd /\ NewCell \in 1..Len(types') /\ NewCell \in Nat
    BY <1>3, TypesMake DEF EmitReturn, Types
  <2>2. Adds
    BY <1>2, <1>3, <2>1, BytesSame DEF EmitReturn, Adds
  <2>3. /\ end \in Items /\ end.step = "endreturn" /\ end.cell = NewCell
        /\ ex \in Items /\ ex.step = "expr" /\ ex.cell = NewCell
    <3>1. "endreturn" \in Steps /\ "expr" \in Steps
      BY DEF Steps
    <3> QED BY <2>1, <3>1, CellItem, Zenon
  <2>4. Become(<<More, end, ex>>)
    BY <1>3 DEF EmitReturn
  <2> HIDE DEF end, ex
  <2>5. <<More, end, ex>> \in Seq(Items) /\ Fits(<<More, end, ex>>)
    BY <1>1, <2>1, <2>3, MoreFits, FitCell, FitsThree, Zenon
  <2> QED BY <1>1, <2>2, <2>4, <2>5, StepInFunction, Zenon
<1>4. CASE ~expr
  <2>1. "leave" \in Ops /\ "ret" \in Ops /\ 0 \in Int /\ 0 \in Widths \cup {0}
    BY DEF Ops
  <2>2. code \in Seq(InstrRecords)
    BY <2>1, TwoInstrs, Zenon
  <2>3. bytes' = EmitAll(bytes, code) /\ Become(<<More>>) /\ UNCHANGED types
    BY <1>4 DEF EmitReturn
  <2> HIDE DEF code
  <2>4. Adds
    BY <1>2, <2>2, <2>3, BytesEmit, TypesSame, Zenon DEF Adds
  <2>5. <<More>> \in Seq(Items) /\ Fits(<<More>>)
    BY <1>1, MoreFits, FitsOne, Zenon
  <2> QED BY <1>1, <2>3, <2>4, <2>5, StepInFunction, Zenon
<1> QED BY <1>3, <1>4, Zenon

LEMMA EndReturnStep ==
    ASSUME SourceTypes, Shape, EndReturn
    PROVE  Kept
<1> DEFINE cast == CastCode(Cell, fun_ret_type)
           tail == <<Instr("leave", 0, 0), Instr("ret", 0, 0)>>
           code == cast \o tail
<1>1. /\ Top.step = "endreturn" /\ Top.step \notin {"decls", "endfun", "params"}
      /\ Top.step \in CellSteps
  BY DEF EndReturn, At, CellSteps
<1>2. CASE fun_ret_type = "unit" \/ CastFails(Cell, fun_ret_type)
  BY <1>2, FailStep, Zenon DEF EndReturn
<1>3. CASE ~(fun_ret_type = "unit" \/ CastFails(Cell, fun_ret_type))
  <2>1. "leave" \in Ops /\ "ret" \in Ops /\ 0 \in Int /\ 0 \in Widths \cup {0}
    BY DEF Ops
  <2>2. tail \in Seq(InstrRecords)
    BY <2>1, TwoInstrs, Zenon
  <2>3. cast \in Seq(InstrRecords)
    <3>1. Cell \in Types /\ fun_ret_type \in Types
      BY <1>1, CellType DEF SourceTypes
    <3> QED BY <1>3, <3>1, CastType, Zenon
  <2>4. /\ bytes' = EmitAll(bytes, code)
        /\ work' = Front(work)
        /\ UNCHANGED <<funs, main_idx, offset_counter, scopes, fun_ret_type, types,
                       budget, status>>
    BY <1>3 DEF EndReturn
  <2> HIDE DEF cast, tail
  <2>5. code \in Seq(InstrRecords)
    BY <2>2, <2>3, ConcatProperties, Zenon
  <2> HIDE DEF code
  <2>6. BytesAdd
    BY <2>4, <2>5, BytesEmit, Zenon
  <2>7. Adds
    BY <2>4, <2>6, TypesSame, ScopesSame, OthersSame DEF Adds, SourceTypes
  <2> QED BY <1>1, <2>4, <2>7, PopStep, Zenon
<1> QED BY <1>2, <1>3, Zenon

-----------------------------------------------------------------------------
(* Expressions keep the types and the shape.                               *)

LEMMA ExprCell ==
    ASSUME SourceTypes, Shape, Top.step = "expr"
    PROVE  /\ Top.step \notin {"decls", "endfun", "params"}
           /\ Top.cell \in 1..Len(types) /\ Top.cell \in Nat
           /\ Cell \in Types
           /\ \A t \in Types : Infer(t) \in Types
<1>1. Top.step \in CellSteps
  BY DEF CellSteps
<1>2. Top.cell \in 1..Len(types) /\ Top.cell \in Nat /\ Cell \in Types
  BY <1>1, CellType, Zenon
<1> QED BY <1>2 DEF Infer

LEMMA CapType ==
    ASSUME NEW w \in Widths
    PROVE  Cap(w) \in Nat /\ Cap(w) > 0
<1> DEFINE b2 == ByteBase * ByteBase
<1>1. ByteBase \in Nat /\ ByteBase > 0
  BY ByteAssumption
<1>2. b2 \in Nat /\ b2 > 0
  BY <1>1
<1> DEFINE b4 == b2 * b2
<1> HIDE DEF b2
<1>3. b4 \in Nat /\ b4 > 0
  BY <1>2
<1>4. b4 * b4 \in Nat /\ b4 * b4 > 0
  <2> HIDE DEF b4
  <2> QED BY <1>3
<1>5. b2 * b2 * b2 * b2 = b4 * b4
  BY <1>2
<1> QED BY <1>1, <1>2, <1>3, <1>4, <1>5 DEF Cap, Widths, b2

\* An immediate is cut to its width.
LEMMA ImmediateType ==
    ASSUME NEW v \in Nat, NEW w \in Widths
    PROVE  v % Cap(w) \in Int /\ v % Cap(w) \in 0..(Cap(w) - 1)
<1>1. Cap(w) \in Nat /\ Cap(w) > 0
  BY CapType
<1> QED BY <1>1

LEMMA LiteralStep ==
    ASSUME SourceTypes, Shape, NEW id \in {"int", "float", "string"},
           NEW v \in Literals \cup FloatImages, Literal(id, v)
    PROVE  Kept
<1> DEFINE t == Infer(IF id = "float" THEN "f32" ELSE "i32")
           w == TypeSize(t)
           code == <<Instr("mov_imm", w, v % Cap(w))>>
<1>1. Top.step = "expr"
  BY DEF Literal, At
<1>2. t \in Types /\ t # "unit"
  <2>1. (IF id = "float" THEN "f32" ELSE "i32") \in Types \ {"unit"}
    BY DEF Types, FloatTypes, IntTypes
  <2> QED BY <1>1, <2>1, ExprCell DEF Infer
<1>3. \/ Fail
      \/ /\ SetCell(t)
         /\ bytes' = EmitAll(bytes, code)
         /\ work' = Front(work)
         /\ UNCHANGED <<funs, main_idx, offset_counter, scopes, fun_ret_type, budget, status>>
  BY DEF Literal
<1>4. code \in Seq(InstrRecords)
  <2>1. w \in Widths /\ w \in Widths \cup {0} /\ "mov_imm" \in Ops
    BY <1>2, SizeOfType DEF Ops
  <2> HIDE DEF w, t
  <2>2. v % Cap(w) \in Int
    BY <2>1, ImmediateType, SourceAssumption
  <2> QED BY <2>1, <2>2, OneInstr, Zenon
<1> HIDE DEF code, t
<1>5. CASE Fail
  BY <1>5, FailStep, Zenon
<1>6. CASE /\ SetCell(t)
           /\ bytes' = EmitAll(bytes, code)
           /\ work' = Front(work)
           /\ UNCHANGED <<funs, main_idx, offset_counter, scopes, fun_ret_type, budget, status>>
  <2>1. TypesAdd
    BY <1>1, <1>2, <1>6, ExprCell, TypesSet, Zenon
  <2>2. BytesAdd
    BY <1>4, <1>6, BytesEmit, Zenon
  <2>3. Adds
    BY <1>6, <2>1, <2>2, ScopesSame, OthersSame DEF Adds, SourceTypes
  <2> QED BY <1>1, <1>6, <2>3, ExprCell, PopStep, Zenon
<1> QED BY <1>3, <1>5, <1>6, Zenon

\* A handler that emits its code and is done.
LEMMA CodeStep ==
    ASSUME SourceTypes, Shape, Top.step \notin {"decls", "endfun", "params"},
           NEW s \in Seq(InstrRecords), bytes' = EmitAll(bytes, s), work' = Front(work), TypesAdd,
           UNCHANGED <<funs, main_idx, offset_counter, scopes, fun_ret_type, budget, status>>
    PROVE  Kept
<1>1. BytesAdd
  BY BytesEmit, Zenon
<1>2. Adds
  BY <1>1, ScopesSame, OthersSame DEF Adds, SourceTypes
<1> QED BY <1>2, PopStep, Zenon

LEMMA LocalField ==
    ASSUME NEW l \in Locals
    PROVE  l.type \in Types /\ l.offset \in Int /\ l.params \in Seq(Types)
  BY DEF Locals

LEMMA IdentStep ==
    ASSUME SourceTypes, Shape, NEW name \in UsedNames, Ident(name)
    PROVE  Kept
<1> DEFINE local == Find(name)
           t     == Infer(local.type)
           load  == <<Instr("mov_offset_a", TypeSize(local.type), local.offset)>>
           cast  == CastCode(local.type, t)
<1>1. Top.step = "expr"
  BY DEF Ident, At
<1>2. CASE ~Declared(name) \/ local.id # "var" \/ CastFails(local.type, t)
  <2>1. Fail
    BY <1>2 DEF Ident
  <2> QED BY <2>1, FailStep, Zenon
<1>3. CASE Declared(name) /\ ~(local.id # "var" \/ CastFails(local.type, t))
  <2>1. local \in Locals
    BY <1>3, FindType, Zenon DEF SourceTypes
  <2>2. local.type \in Types /\ local.offset \in Int /\ t \in Types
    BY <1>1, <2>1, LocalField, ExprCell, Zenon
  <2>3. load \o cast \in Seq(InstrRecords)
    <3>1. TypeSize(local.type) \in Widths \cup {0} /\ "mov_offset_a" \in Ops
      BY <2>2, SizeOfType DEF Ops, WithOperand
    <3>2. load \in Seq(InstrRecords)
      BY <2>2, <3>1, OneInstr, Zenon
    <3>3. cast \in Seq(InstrRecords)
      BY <1>3, <2>2, CastType, Zenon
    <3> HIDE DEF load, cast
    <3> QED BY <3>2, <3>3, ConcatProperties, Zenon
  <2>4. /\ SetCell(t)
        /\ bytes' = EmitAll(bytes, load \o cast)
        /\ work' = Front(work)
        /\ UNCHANGED <<funs, main_idx, offset_counter, scopes, fun_ret_type, budget, status>>
    BY <1>3 DEF Ident
  <2> HIDE DEF load, cast, t, local
  <2>5. TypesAdd
    BY <1>1, <2>2, <2>4, ExprCell, TypesSet, Zenon
  <2> QED BY <1>1, <2>3, <2>4, <2>5, ExprCell, CodeStep, Zenon
<1> QED BY <1>2, <1>3, Zenon

LEMMA CallStep ==
    ASSUME SourceTypes, Shape, NEW name \in UsedNames, NEW nargs \in 0..MaxArgs, Call(name, nargs)
    PROVE  Kept
<1> DEFINE local == Find(name)
           t     == Infer(local.type)
           it    == Item("args")
           args  == [it EXCEPT !.n = nargs, !.fun = local]
<1>1. Top.step = "expr" /\ nargs \in Nat
  BY SourceAssumption DEF Call, At
<1>2. budget' \in Nat
  BY <1>1, SpendType DEF Call
<1>3. UNCHANGED <<funs, main_idx, offset_counter, scopes, fun_ret_type>>
  BY DEF Call
<1>4. CASE ~Declared(name) \/ local.id = "var" \/ Len(local.params) # nargs
  <2>1. status' = "failed" /\ UNCHANGED <<bytes, types, work>>
    BY <1>4 DEF Call
  <2>2. Shape'
    BY <1>3, <2>1, SameShape, Zenon
  <2>3. SourceTypes'
    BY <1>2, <1>3, <2>1 DEF SourceTypes
  <2> QED BY <2>1, <2>2, <2>3, SameWork
<1>5. CASE ~(~Declared(name) \/ local.id = "var" \/ Len(local.params) # nargs)
  <2>1. SetCell(t) /\ Become(<<args>>) /\ UNCHANGED <<bytes, status>>
    BY <1>5 DEF Call
  <2>2. local \in Locals
    BY <1>5, FindType, Zenon DEF SourceTypes
  <2>3. t \in Types
    BY <1>1, <2>2, LocalField, ExprCell, Zenon
  <2>4. Len(local.params) = nargs
    BY <1>5
  <2>5. it \in Items /\ it.step = "args"
    <3>1. "args" \in Steps
      BY DEF Steps
    <3> QED BY <3>1, ItemType, Zenon
  <2> HIDE DEF t, local, it
  <2>6. args \in Items /\ args.step = "args" /\ args.n = nargs /\ args.fun = local
    BY <1>1, <2>2, <2>5 DEF Items
  <2> HIDE DEF args
  <2>7. args.n <= Len(args.fun.params)
    BY <1>1, <2>4, <2>6
  <2>8. Fit(args)
    BY <2>6, <2>7, Zenon DEF Fit, Nested, CellSteps
  <2>9. TypesAdd
    BY <1>1, <2>1, <2>3, ExprCell, TypesSet, Zenon
  <2>10. Adds
    BY <1>2, <1>3, <2>1, <2>9, ScopesSame, BytesSame, OthersSame DEF Adds
  <2> QED BY <1>1, <2>1, <2>6, <2>8, <2>10, ExprCell, FitsOne, StepInFunction, Zenon
<1> QED BY <1>4, <1>5, Zenon

LEMMA ArgStep ==
    ASSUME SourceTypes, Shape, Arg
    PROVE  Kept
<1> DEFINE it  == Top
           end == [it EXCEPT !.step = "endarg", !.cell = NewCell]
           ex  == ItemWith("expr", NewCell)
           t   == it.fun.params[it.n]
<1>1. it.step = "args" /\ it.n > 0 /\ Top.step \notin {"decls", "endfun", "params"}
  BY DEF Arg, At
<1>2. it \in Items /\ Nested(it, Len(types), Len(scopes))
  BY <1>1, TopInFunction, Zenon
<1>3. MakeCell(t) /\ Become(<<end, ex>>)
  BY DEF Arg
<1>4. it.n \in Nat /\ it.fun \in Locals /\ it.n <= Len(it.fun.params)
  <2> HIDE DEF it
  <2>1. it.n \in Nat /\ it.fun \in Locals
    BY <1>2 DEF Items
  <2>2. it.n <= Len(it.fun.params)
    BY <1>1, <1>2, Zenon DEF Nested
  <2> QED BY <2>1, <2>2
<1>5. it.n \in 1..Len(it.fun.params) /\ t \in Types
  <2> HIDE DEF it
  <2>1. it.fun.params \in Seq(Types)
    BY <1>4, LocalField, Zenon
  <2> QED BY <1>1, <1>4, <2>1
<1>6. TypesAdd /\ NewCell \in 1..Len(types') /\ NewCell \in Nat
  BY <1>3, <1>5, TypesMake, Zenon
<1>7. Adds
  BY <1>6, ScopesSame, BytesSame, OthersSame DEF Arg, Adds, SourceTypes
<1>8. ex \in Items /\ ex.step = "expr" /\ ex.cell = NewCell
  <2>1. "expr" \in Steps
    BY DEF Steps
  <2> QED BY <1>6, <2>1, CellItem, Zenon
<1> HIDE DEF it, ex
<1>9. end \in Items /\ end.step = "endarg" /\ end.cell = NewCell /\ end.n = it.n /\ end.fun = it.fun
  <2>1. "endarg" \in Steps
    BY DEF Steps
  <2> QED BY <1>2, <1>6, <2>1 DEF Items
<1> HIDE DEF end
<1>10. Fit(end) /\ end.step # "endscope"
  BY <1>5, <1>6, <1>9, Zenon DEF Fit, Nested, CellSteps
<1>11. Fit(ex) /\ ex.step # "endscope"
  BY <1>6, <1>8, FitCell, Zenon
<1>12. <<end, ex>> \in Seq(Items) /\ Fits(<<end, ex>>)
  BY <1>8, <1>9, <1>10, <1>11, FitsTwo, Zenon
<1> QED BY <1>1, <1>3, <1>7, <1>12, StepInFunction, Zenon

LEMMA EndArgStep ==
    ASSUME SourceTypes, Shape, EndArg
    PROVE  Kept
<1> DEFINE it   == Top
           size == TypeSize(Cell)
           args == [it EXCEPT !.step = "args", !.n = @ - 1, !.pop = @ + size]
           code == <<Instr("push", size, 0)>>
<1>1. /\ it.step = "endarg" /\ Top.step \notin {"decls", "endfun", "params"}
      /\ Top.step \in CellSteps
  BY DEF EndArg, At, CellSteps
<1>2. it \in Items /\ Nested(it, Len(types), Len(scopes))
  BY <1>1, TopInFunction, Zenon
<1>3. size \in Widths \cup {0} /\ size \in Nat
  BY <1>1, CellType, Zenon
<1>4. CASE Cell \in FloatTypes
  BY <1>4, FailStep, Zenon DEF EndArg
<1>5. CASE Cell \notin FloatTypes
  <2>1. /\ bytes' = EmitAll(bytes, code)
        /\ Become(<<args>>)
        /\ UNCHANGED <<funs, main_idx, offset_counter, scopes, fun_ret_type, types,
                       budget, status>>
    BY <1>5 DEF EndArg
  <2> HIDE DEF it, size
  <2>2. BytesAdd
    <3>1. "push" \in Ops /\ 0 \in Int
      BY DEF Ops
    <3>2. code \in Seq(InstrRecords)
      BY <1>3, <3>1, OneInstr, Zenon
    <3> HIDE DEF code
    <3> QED BY <2>1, <3>2, BytesEmit, Zenon
  <2>3. Adds
    BY <2>1, <2>2, TypesSame, ScopesSame, OthersSame DEF Adds, SourceTypes
  <2>4. it.n \in 1..Len(it.fun.params)
    BY <1>1, <1>2, Zenon DEF Nested, it
  <2>5. Len(it.fun.params) \in Nat
    <3>1. it.fun \in Locals
      BY <1>2 DEF Items
    <3> QED BY <3>1, LocalField
  <2>6. args \in Items /\ args.step = "args" /\ args.n = it.n - 1 /\ args.fun = it.fun
    <3>1. "args" \in Steps
      BY DEF Steps
    <3>2. it.n - 1 \in Nat
      BY <2>4
    <3>3. it.pop + size \in Nat
      BY <1>2, <1>3 DEF Items
    <3>4. args = [it EXCEPT !.step = "args", !.n = it.n - 1, !.pop = it.pop + size]
      BY <1>2 DEF Items
    <3> QED BY <1>2, <3>1, <3>2, <3>3, <3>4 DEF Items
  <2> HIDE DEF args
  <2>7. args.n <= Len(args.fun.params)
    BY <2>4, <2>5, <2>6
  <2>8. Fit(args)
    BY <2>6, <2>7, Zenon DEF Fit, Nested, CellSteps
  <2> QED BY <1>1, <2>1, <2>3, <2>6, <2>8, FitsOne, StepInFunction, Zenon
<1> QED BY <1>4, <1>5, Zenon

LEMMA EndCallStep ==
    ASSUME SourceTypes, Shape, EndCall
    PROVE  Kept
<1> DEFINE fun  == Top.fun
           pop  == Top.pop
           call == <<IF fun.id = "sysfun" THEN Instr("sysfun", 0, SysFunIdx(fun))
                                          ELSE Instr("call", 0, fun.offset)>>
           tail == IF pop = 0 THEN <<>> ELSE <<Instr("add_sp", 0, pop)>>
<1>1. Top.step = "args" /\ Top.step \notin {"decls", "endfun", "params"}
  BY DEF EndCall, At
<1>2. Top \in Items
  BY <1>1, TopInFunction, Zenon
<1>3. fun \in Locals /\ pop \in Int
  BY <1>2 DEF Items
<1>4. CallCode(Top.fun, Top.pop) = call \o tail
  BY DEF CallCode
<1> HIDE DEF fun, pop
<1>5. "sysfun" \in Ops /\ "call" \in Ops /\ "add_sp" \in Ops /\ 0 \in Widths \cup {0}
  BY DEF Ops, WithOperand
<1>6. call \in Seq(InstrRecords)
  <2>1. SysFunIdx(fun) \in Int
    BY DEF SysFunIdx
  <2>2. fun.offset \in Int
    BY <1>3, LocalField, Zenon
  <2>3. Instr("sysfun", 0, SysFunIdx(fun)) \in InstrRecords /\ Instr("call", 0, fun.offset) \in InstrRecords
    BY <1>5, <2>1, <2>2, InstrType, Zenon
  <2> QED BY <2>3
<1>7. tail \in Seq(InstrRecords)
  <2>1. <<Instr("add_sp", 0, pop)>> \in Seq(InstrRecords)
    BY <1>3, <1>5, OneInstr, Zenon
  <2>2. <<>> \in Seq(InstrRecords)
    OBVIOUS
  <2> QED BY <2>1, <2>2, Zenon
<1> HIDE DEF call, tail
<1>8. call \o tail \in Seq(InstrRecords)
  BY <1>6, <1>7, ConcatProperties, Zenon
<1>9. /\ bytes' = EmitAll(bytes, call \o tail)
      /\ work' = Front(work)
      /\ UNCHANGED <<funs, main_idx, offset_counter, scopes, fun_ret_type, types, budget, status>>
  BY <1>4 DEF EndCall
<1>10. TypesAdd
  BY <1>9, TypesSame
<1> QED BY <1>1, <1>8, <1>9, <1>10, CodeStep, Zenon

LEMMA EmitUnaryStep ==
    ASSUME SourceTypes, Shape, NEW op \in UnOps, EmitUnary(op)
    PROVE  Kept
<1> DEFINE it  == ItemWith("endunary", Top.cell)
           end == [it EXCEPT !.word = op]
           ex  == ItemWith("expr", Top.cell)
<1>1. Top.step = "expr"
  BY DEF EmitUnary, At
<1>2. TypesAdd /\ Len(types') = Len(types)
  BY TypesSame DEF EmitUnary
<1>3. Adds
  BY <1>2, SpendType, ScopesSame, BytesSame, OthersSame DEF EmitUnary, Adds
<1>4. Top.cell \in Nat /\ Top.cell \in 1..Len(types')
  BY <1>1, <1>2, ExprCell
<1>5. /\ it \in Items /\ it.step = "endunary" /\ it.cell = Top.cell
      /\ ex \in Items /\ ex.step = "expr" /\ ex.cell = Top.cell
  <2>1. "endunary" \in Steps /\ "expr" \in Steps
    BY DEF Steps
  <2> QED BY <1>4, <2>1, CellItem, Zenon
<1>6. Become(<<end, ex>>)
  BY DEF EmitUnary
<1>7. op \in UnaryOps /\ op \in Names \cup Operators
  BY SourceAssumption DEF Operators
<1> HIDE DEF it, ex
<1>8. end \in Items /\ end.step = "endunary" /\ end.cell = Top.cell /\ end.word = op
  BY <1>5, <1>7 DEF Items
<1> HIDE DEF end
<1>9. Fit(end) /\ end.step # "endscope"
  BY <1>4, <1>7, <1>8, Zenon DEF Fit, Nested, CellSteps
<1>10. Fit(ex) /\ ex.step # "endscope"
  BY <1>4, <1>5, FitCell, Zenon
<1>11. <<end, ex>> \in Seq(Items) /\ Fits(<<end, ex>>)
  BY <1>5, <1>8, <1>9, <1>10, FitsTwo, Zenon
<1> QED BY <1>1, <1>3, <1>6, <1>11, ExprCell, StepInFunction, Zenon

\* What the top knows of its operator.
LEMMA TopWord ==
    ASSUME SourceTypes, Shape
    PROVE  /\ Top.step = "endunary" => Top.word \in UnaryOps
           /\ Top.step \in {"push", "endbin"} => Top.word \in ArithOps \cup SetOps
           /\ Top.step = "endassgn" => Top.word \in {"add", "sub", "mul", "div", "mod"}
<1>1. ASSUME Top.step = "endunary" PROVE Top.word \in UnaryOps
  <2>1. Top.step \notin {"decls", "endfun"}
    BY <1>1
  <2> QED BY <1>1, <2>1, TopInFunction, Zenon DEF Nested
<1>2. ASSUME Top.step \in {"push", "endbin"} PROVE Top.word \in ArithOps \cup SetOps
  <2>1. Top.step \notin {"decls", "endfun"}
    BY <1>2
  <2> QED BY <1>2, <2>1, TopInFunction, Zenon DEF Nested
<1>3. ASSUME Top.step = "endassgn" PROVE Top.word \in {"add", "sub", "mul", "div", "mod"}
  <2>1. Top.step \notin {"decls", "endfun"}
    BY <1>3
  <2> QED BY <1>3, <2>1, TopInFunction, Zenon DEF Nested
<1> QED BY <1>1, <1>2, <1>3

LEMMA EndUnaryStep ==
    ASSUME SourceTypes, Shape, EndUnary
    PROVE  Kept
<1> DEFINE code == <<Instr(Top.word, TypeSize(Cell), 0)>>
<1>1. /\ Top.step = "endunary" /\ Top.step \notin {"decls", "endfun", "params"}
      /\ Top.step \in CellSteps
  BY DEF EndUnary, At, CellSteps
<1>2. CASE Cell = "unit"
  BY <1>2, FailStep, Zenon DEF EndUnary
<1>3. CASE Cell # "unit"
  <2>1. /\ bytes' = EmitAll(bytes, code)
        /\ work' = Front(work)
        /\ UNCHANGED <<funs, main_idx, offset_counter, scopes, fun_ret_type, types,
                       budget, status>>
    BY <1>3 DEF EndUnary
  <2>2. code \in Seq(InstrRecords)
    <3>1. Top.word \in Ops /\ 0 \in Int
      BY <1>1, TopWord DEF Ops
    <3> QED BY <1>1, <3>1, CellType, OneInstr, Zenon
  <2> HIDE DEF code
  <2>3. TypesAdd
    BY <2>1, TypesSame
  <2> QED BY <1>1, <2>1, <2>2, <2>3, CodeStep, Zenon
<1> QED BY <1>2, <1>3, Zenon

LEMMA EmitBinaryStep ==
    ASSUME SourceTypes, Shape, NEW op \in BinOps, EmitBinary(op)
    PROVE  Kept
<1> DEFINE it   == ItemWith("push", Top.cell)
           push == [it EXCEPT !.word = op]
           ex   == ItemWith("expr", Top.cell)
<1>1. Top.step = "expr"
  BY DEF EmitBinary, At
<1>2. TypesAdd /\ Len(types') = Len(types)
  BY TypesSame DEF EmitBinary
<1>3. Adds
  BY <1>2, SpendType, ScopesSame, BytesSame, OthersSame DEF EmitBinary, Adds
<1>4. Top.cell \in Nat /\ Top.cell \in 1..Len(types')
  BY <1>1, <1>2, ExprCell
<1>5. /\ it \in Items /\ it.step = "push" /\ it.cell = Top.cell
      /\ ex \in Items /\ ex.step = "expr" /\ ex.cell = Top.cell
  <2>1. "push" \in Steps /\ "expr" \in Steps
    BY DEF Steps
  <2> QED BY <1>4, <2>1, CellItem, Zenon
<1>6. Become(<<push, ex>>)
  BY DEF EmitBinary
<1>7. op \in ArithOps \cup SetOps /\ op \in Names \cup Operators
  BY SourceAssumption DEF Operators
<1> HIDE DEF it, ex
<1>8. push \in Items /\ push.step = "push" /\ push.cell = Top.cell /\ push.word = op
  BY <1>5, <1>7 DEF Items
<1> HIDE DEF push
<1>9. Fit(push) /\ push.step # "endscope"
  BY <1>4, <1>7, <1>8, Zenon DEF Fit, Nested, CellSteps
<1>10. Fit(ex) /\ ex.step # "endscope"
  BY <1>4, <1>5, FitCell, Zenon
<1>11. <<push, ex>> \in Seq(Items) /\ Fits(<<push, ex>>)
  BY <1>5, <1>8, <1>9, <1>10, FitsTwo, Zenon
<1> QED BY <1>1, <1>3, <1>6, <1>11, ExprCell, StepInFunction, Zenon

LEMMA PushStep ==
    ASSUME SourceTypes, Shape, Push
    PROVE  Kept
<1> DEFINE code == <<Instr("push", TypeSize(Cell), 0)>>
           it   == Top
           end  == [it EXCEPT !.step = "endbin"]
           ex   == ItemWith("expr", it.cell)
<1>1. /\ it.step = "push" /\ Top.step \notin {"decls", "endfun", "params"}
      /\ Top.step \in CellSteps
  BY DEF Push, At, CellSteps
<1>2. CASE Cell \in FloatTypes \cup {"unit"}
  BY <1>2, FailStep, Zenon DEF Push
<1>3. CASE Cell \notin FloatTypes \cup {"unit"}
  <2>1. /\ bytes' = EmitAll(bytes, code)
        /\ Become(<<end, ex>>)
        /\ UNCHANGED <<funs, main_idx, offset_counter, scopes, fun_ret_type, types,
                       budget, status>>
    BY <1>3 DEF Push
  <2>2. code \in Seq(InstrRecords)
    <3>1. "push" \in Ops /\ 0 \in Int
      BY DEF Ops
    <3> QED BY <1>1, <3>1, CellType, OneInstr, Zenon
  <2>3. it \in Items /\ it.word \in ArithOps \cup SetOps
    BY <1>1, TopInFunction, TopWord
  <2>4. TypesAdd /\ Len(types') = Len(types)
    BY <2>1, TypesSame
  <2>5. it.cell \in Nat /\ it.cell \in 1..Len(types')
    BY <1>1, <2>3, <2>4, CellType DEF Items
  <2> HIDE DEF code, it
  <2>6. Adds
    BY <2>1, <2>2, <2>4, BytesEmit, ScopesSame, OthersSame DEF Adds, SourceTypes
  <2>7. "endbin" \in Steps /\ "expr" \in Steps
    BY DEF Steps
  <2>8. end \in Items /\ end.step = "endbin" /\ end.cell = it.cell /\ end.word = it.word
    BY <2>3, <2>7 DEF Items
  <2>9. ex \in Items /\ ex.step = "expr" /\ ex.cell = it.cell
    BY <2>5, <2>7, CellItem, Zenon
  <2> HIDE DEF end, ex
  <2>10. Fit(end) /\ end.step # "endscope"
    BY <2>3, <2>5, <2>8, Zenon DEF Fit, Nested, CellSteps
  <2>11. Fit(ex) /\ ex.step # "endscope"
    BY <2>5, <2>9, FitCell, Zenon
  <2>12. <<end, ex>> \in Seq(Items) /\ Fits(<<end, ex>>)
    BY <2>8, <2>9, <2>10, <2>11, FitsTwo, Zenon
  <2> QED BY <1>1, <2>1, <2>6, <2>12, StepInFunction, Zenon
<1> QED BY <1>2, <1>3, Zenon

LEMMA EndBinaryStep ==
    ASSUME SourceTypes, Shape, EndBinary
    PROVE  Kept
<1> DEFINE code == BinCode(Top.word, TypeSize(Cell))
<1>1. /\ Top.step = "endbin" /\ Top.step \notin {"decls", "endfun", "params"}
      /\ Top.step \in CellSteps
  BY DEF EndBinary, At, CellSteps
<1>2. /\ bytes' = EmitAll(bytes, code)
      /\ work' = Front(work)
      /\ UNCHANGED <<funs, main_idx, offset_counter, scopes, fun_ret_type, types,
                     budget, status>>
  BY DEF EndBinary
<1>3. code \in Seq(InstrRecords)
  <2>1. Top.word \in Ops /\ "cmp" \in Ops /\ 0 \in Int /\ 0 \in Widths \cup {0}
    BY <1>1, TopWord DEF Ops
  <2>2. TypeSize(Cell) \in Widths \cup {0}
    BY <1>1, CellType, Zenon
  <2>3. <<Instr("cmp", TypeSize(Cell), 0), Instr(Top.word, 0, 0)>> \in Seq(InstrRecords)
    BY <2>1, <2>2, TwoInstrs, Zenon
  <2>4. <<Instr(Top.word, TypeSize(Cell), 0)>> \in Seq(InstrRecords)
    BY <2>1, <2>2, OneInstr, Zenon
  <2> QED BY <2>3, <2>4, Zenon DEF BinCode
<1> HIDE DEF code
<1>4. TypesAdd
  BY <1>2, TypesSame
<1> QED BY <1>1, <1>2, <1>3, <1>4, CodeStep, Zenon

LEMMA AssignStep ==
    ASSUME SourceTypes, Shape, NEW name \in UsedNames, NEW op \in AssignOps, Assign(name, op)
    PROVE  Kept
<1> DEFINE local == Find(name)
           t     == Infer(local.type)
           w     == TypeSize(t)
           step  == IF op = "assign" THEN "store" ELSE "endassgn"
           it    == ItemWith(step, Top.cell)
           store == [it EXCEPT !.word = op, !.offset = local.offset]
           ex    == ItemWith("expr", Top.cell)
           code  == <<Instr("mov_offset_a", w, local.offset), Instr("push", w, 0)>>
<1>1. Top.step = "expr"
  BY DEF Assign, At
<1>2. budget' \in Nat
  BY SpendType DEF Assign
<1>3. UNCHANGED <<funs, main_idx, offset_counter, scopes, fun_ret_type>>
  BY DEF Assign
<1>4. CASE ~Declared(name) \/ (op # "assign" /\ t \in FloatTypes \cup {"unit"})
  <2>1. status' = "failed" /\ UNCHANGED <<bytes, types, work>>
    BY <1>4 DEF Assign
  <2>2. Shape'
    BY <1>3, <2>1, SameShape, Zenon
  <2>3. SourceTypes'
    BY <1>2, <1>3, <2>1 DEF SourceTypes
  <2> QED BY <2>1, <2>2, <2>3, SameWork
<1>5. CASE ~(~Declared(name) \/ (op # "assign" /\ t \in FloatTypes \cup {"unit"}))
  <2>1. /\ SetCell(t)
        /\ bytes' = IF op = "assign" THEN bytes ELSE EmitAll(bytes, code)
        /\ Become(<<store, ex>>)
        /\ UNCHANGED status
    BY <1>5 DEF Assign
  <2>2. local \in Locals
    BY <1>5, FindType, Zenon DEF SourceTypes
  <2>3. t \in Types /\ local.offset \in Int
    BY <1>1, <2>2, LocalField, ExprCell, Zenon
  <2>4. TypesAdd /\ Len(types') = Len(types)
    BY <1>1, <2>1, <2>3, ExprCell, TypesSet, Zenon
  <2>5. Top.cell \in Nat /\ Top.cell \in 1..Len(types')
    BY <1>1, <2>4, ExprCell
  <2>6. code \in Seq(InstrRecords)
    <3>1. "mov_offset_a" \in Ops /\ "push" \in Ops /\ 0 \in Int
      BY DEF Ops, WithOperand
    <3>2. w \in Widths \cup {0}
      BY <2>3, SizeOfType
    <3> QED BY <2>3, <3>1, <3>2, TwoInstrs, Zenon
  <2> HIDE DEF code
  <2>7. BytesAdd
    <3>1. UNCHANGED bytes \/ bytes' = EmitAll(bytes, code)
      BY <2>1
    <3> QED BY <2>6, <3>1, BytesSame, BytesEmit, Zenon
  <2>8. Adds
    BY <1>2, <1>3, <2>1, <2>4, <2>7, ScopesSame, OthersSame DEF Adds
  <2>9. /\ it \in Items /\ it.step = step /\ it.cell = Top.cell
        /\ ex \in Items /\ ex.step = "expr" /\ ex.cell = Top.cell
    <3>1. "store" \in Steps /\ "endassgn" \in Steps /\ "expr" \in Steps
      BY DEF Steps
    <3>2. step \in Steps
      BY <3>1
    <3> HIDE DEF step
    <3> QED BY <2>5, <3>1, <3>2, CellItem, Zenon
  <2>10. /\ op \in Names \cup Operators
         /\ op # "assign" => op \in {"add", "sub", "mul", "div", "mod"}
    BY SourceAssumption DEF Operators, ArithOps
  <2>11. (step = "store") \/ (step = "endassgn" /\ op # "assign")
    OBVIOUS
  <2> HIDE DEF it, ex, step, t, local
  <2>12. store \in Items /\ store.step = step /\ store.cell = Top.cell /\ store.word = op
    BY <2>3, <2>9, <2>10 DEF Items
  <2> HIDE DEF store
  <2>13. Fit(store) /\ store.step # "endscope"
    <3>1. CASE step = "store"
      BY <2>5, <2>12, <3>1, FitCell, Zenon
    <3>2. CASE step = "endassgn" /\ op # "assign"
      BY <2>5, <2>10, <2>12, <3>2, Zenon DEF Fit, Nested, CellSteps
    <3> QED BY <2>11, <3>1, <3>2, Zenon
  <2>14. Fit(ex) /\ ex.step # "endscope"
    BY <2>5, <2>9, FitCell, Zenon
  <2>15. <<store, ex>> \in Seq(Items) /\ Fits(<<store, ex>>)
    BY <2>9, <2>12, <2>13, <2>14, FitsTwo, Zenon
  <2> QED BY <1>1, <2>1, <2>8, <2>15, ExprCell, StepInFunction, Zenon
<1> QED BY <1>4, <1>5, Zenon

\* The slot an assignment stores to.
LEMMA StoreStep ==
    ASSUME SourceTypes, Shape, Store
    PROVE  Kept
<1> DEFINE code == <<Instr("mov_a_offset", TypeSize(Cell), Top.offset)>>
<1>1. /\ Top.step = "store" /\ Top.step \notin {"decls", "endfun", "params"}
      /\ Top.step \in CellSteps
  BY DEF Store, At, CellSteps
<1>2. CASE Cell = "unit"
  BY <1>2, FailStep, Zenon DEF Store
<1>3. CASE Cell # "unit"
  <2>1. /\ bytes' = EmitAll(bytes, code)
        /\ work' = Front(work)
        /\ UNCHANGED <<funs, main_idx, offset_counter, scopes, fun_ret_type, types,
                       budget, status>>
    BY <1>3 DEF Store
  <2>2. code \in Seq(InstrRecords)
    <3>1. "mov_a_offset" \in Ops
      BY DEF Ops, WithOperand
    <3>2. Top.offset \in Int
      BY <1>1, TopInFunction DEF Items
    <3> QED BY <1>1, <3>1, <3>2, CellType, OneInstr, Zenon
  <2> HIDE DEF code
  <2>3. TypesAdd
    BY <2>1, TypesSame
  <2> QED BY <1>1, <2>1, <2>2, <2>3, CodeStep, Zenon
<1> QED BY <1>2, <1>3, Zenon

LEMMA EndAssgnStep ==
    ASSUME SourceTypes, Shape, EndAssgn
    PROVE  Kept
<1> DEFINE code == <<Instr(Top.word, TypeSize(Cell), 0),
                     Instr("mov_a_offset", TypeSize(Cell), Top.offset)>>
<1>1. /\ Top.step = "endassgn" /\ Top.step \notin {"decls", "endfun", "params"}
      /\ Top.step \in CellSteps
  BY DEF EndAssgn, At, CellSteps
<1>2. CASE Top.word = "mod"
  BY <1>2, FailStep, Zenon DEF EndAssgn
<1>3. CASE Top.word # "mod"
  <2>1. /\ bytes' = EmitAll(bytes, code)
        /\ work' = Front(work)
        /\ UNCHANGED <<funs, main_idx, offset_counter, scopes, fun_ret_type, types,
                       budget, status>>
    BY <1>3 DEF EndAssgn
  <2>2. code \in Seq(InstrRecords)
    <3>1. "mov_a_offset" \in Ops /\ 0 \in Int
      BY DEF Ops, WithOperand
    <3>2. Top.offset \in Int
      BY <1>1, TopInFunction DEF Items
    <3>3. Top.word \in Ops
      BY <1>1, TopWord DEF Ops, ArithOps
    <3> QED BY <1>1, <3>1, <3>2, <3>3, CellType, TwoInstrs, Zenon
  <2> HIDE DEF code
  <2>3. TypesAdd
    BY <2>1, TypesSame
  <2> QED BY <1>1, <2>1, <2>2, <2>3, CodeStep, Zenon
<1> QED BY <1>2, <1>3, Zenon

-----------------------------------------------------------------------------
(* Declarations keep the types and the shape.                              *)

\* Outside the statements of a function the stack has one height for each
\* handler at its top.
LEMMA TopOutside ==
    ASSUME SourceTypes, Shape
    PROVE  /\ work \in Seq(Items) /\ Len(work) \in Nat /\ Len(work) >= 1
           /\ scopes \in Seq(Seq(Locals)) /\ Len(scopes) \in Nat
           /\ Top = work[Len(work)]
           /\ Top \in Items
           /\ Top.step = "decls" => Len(work) <= 1 /\ Len(scopes) = 1
           /\ Top.step = "endfun" => Len(work) = 2 /\ Len(scopes) >= 2
           /\ Top.step = "params" => Len(work) = 3 /\ Len(scopes) = 2
<1> DEFINE n == Len(work)
           k == Len(scopes)
<1>1. /\ work \in Seq(Items) /\ n \in Nat /\ n >= 1
      /\ scopes \in Seq(Seq(Locals)) /\ k \in Nat /\ k >= 1
  BY DEF SourceTypes
<1>2. Top = work[n] /\ Top \in Items
  BY <1>1 DEF Top, Last
<1>3. /\ work[1].step = "decls"
      /\ n > 1 => work[2].step = "endfun"
      /\ \A i \in 3..n : /\ work[i].step \notin {"decls", "endfun"}
                         /\ work[i].step = "params" => n <= 3
      /\ n > 1 <=> k > 1
      /\ Top.step = "params" => k <= 2
  BY DEF Shape, Handlers, Nesting, Nested
<1> HIDE DEF n, k
<1>4. CASE n = 1
  <2>1. Top.step = "decls" /\ k = 1
    BY <1>1, <1>2, <1>3, <1>4
  <2> QED BY <1>1, <1>2, <1>4, <2>1 DEF n, k
<1>5. CASE n = 2
  <2>1. Top.step = "endfun" /\ k >= 2
    BY <1>1, <1>2, <1>3, <1>5
  <2> QED BY <1>1, <1>2, <1>5, <2>1 DEF n, k
<1>6. CASE n >= 3
  <2>1. /\ Top.step \notin {"decls", "endfun"}
        /\ Top.step = "params" => n = 3 /\ k = 2
    BY <1>1, <1>2, <1>3, <1>6
  <2> QED BY <1>1, <1>2, <2>1 DEF n, k
<1> QED BY <1>1, <1>4, <1>5, <1>6

\* The three steps that leave work and scopes of a known length.
LEMMA ThreeHandlers ==
    ASSUME Len(work') = 3, work'[1].step = "decls", work'[2].step = "endfun",
           work'[3].step \in {"params", "stmts"}, Top' = work'[3],
           Len(scopes') = 2, Len(scopes'[1]) >= 1
    PROVE  Handlers' /\ Nesting'
<1>1. \A i \in 3..Len(work') : i = 3
  OBVIOUS
<1>2. Nested(work'[3], Len(types'), Len(scopes'))
  BY DEF Nested, CellSteps
<1>3. Handlers'
  BY <1>1, <1>2 DEF Handlers
<1>4. Nesting'
  BY <1>1 DEF Nesting
<1> QED BY <1>3, <1>4

LEMMA DeclareFunStep ==
    ASSUME SourceTypes, Shape, NEW h \in FunHeads, DeclareFun(h)
    PROVE  Kept
<1> DEFINE local  == Local("fun", h.name, h.type, <<>>, 0)
           s      == Append(scopes[1], local)
           it1    == Item("endfun")
           it2    == Item("params")
           endfun == [it1 EXCEPT !.word = h.name]
           params == [it2 EXCEPT !.offset = 16]
           two    == <<endfun, params>>
<1>1. Top.step = "decls"
  BY DEF DeclareFun, At
<1>2. CASE Declared(h.name)
  BY <1>2, FailStep, Zenon DEF DeclareFun
<1>3. CASE ~Declared(h.name)
  <2>1. /\ scopes' = <<s, <<>>>>
        /\ fun_ret_type' = h.type
        /\ work' = work \o two
        /\ UNCHANGED <<bytes, funs, main_idx, offset_counter, types, budget, status>>
    BY <1>3 DEF DeclareFun
  <2>2. /\ work \in Seq(Items) /\ Len(work) = 1 /\ work[1].step = "decls"
        /\ scopes \in Seq(Seq(Locals)) /\ Len(scopes) = 1
        /\ scopes[1] \in Seq(Locals)
    BY <1>1, TopOutside
  <2>3. h.name \in Names /\ h.type \in Types
    BY SourceAssumption DEF Names
  <2>4. local \in Locals
    <3>1. "fun" \in {"var", "fun", "sysfun"} /\ <<>> \in Seq(Types) /\ 0 \in Int
      OBVIOUS
    <3> QED BY <2>3, <3>1, LocalType, Zenon
  <2> HIDE DEF local
  <2>5. s \in Seq(Locals) /\ Len(s) >= 1
    BY <2>2, <2>4, AppendProperties
  <2> HIDE DEF s
  <2>6. scopes' \in Seq(Seq(Locals)) /\ Len(scopes') = 2 /\ Len(scopes'[1]) >= 1
    <3>1. <<>> \in Seq(Locals)
      OBVIOUS
    <3> QED BY <2>1, <2>5, <3>1
  <2>7. /\ it1 \in Items /\ it1.step = "endfun"
        /\ it2 \in Items /\ it2.step = "params"
    <3>1. "endfun" \in Steps /\ "params" \in Steps
      BY DEF Steps
    <3> QED BY <3>1, ItemType, Zenon
  <2> HIDE DEF it1, it2
  <2>8. /\ endfun \in Items /\ endfun.step = "endfun"
        /\ params \in Items /\ params.step = "params"
    BY <2>3, <2>7 DEF Items
  <2> HIDE DEF endfun, params
  <2>9. two \in Seq(Items) /\ Len(two) = 2 /\ two[1] = endfun /\ two[2] = params
    BY <2>8
  <2> HIDE DEF two
  <2>10. /\ work' \in Seq(Items)
         /\ Len(work') = Len(work) + Len(two)
         /\ \A i \in 1 .. Len(work) + Len(two) :
                work'[i] = IF i <= Len(work) THEN work[i] ELSE two[i - Len(work)]
    BY <2>1, <2>2, <2>9, ConcatProperties, Zenon
  <2>11. /\ Len(work') = 3 /\ work'[1].step = "decls" /\ work'[2].step = "endfun"
         /\ work'[3].step = "params"
    BY <2>2, <2>8, <2>9, <2>10
  <2>12. Top' = work'[3]
    BY <2>11 DEF Top, Last
  <2>13. Handlers' /\ Nesting'
    BY <2>6, <2>11, <2>12, ThreeHandlers
  <2>14. Emitted'
    BY <2>1, <2>11, <2>12 DEF Shape, Emitted
  <2>15. SourceTypes'
    BY <2>1, <2>3, <2>6, <2>10, <2>11 DEF SourceTypes
  <2> QED BY <1>1, <2>13, <2>14, <2>15 DEF Shape, Kept, Inside
<1> QED BY <1>2, <1>3, Zenon

\* The stack while the parameters are read.
LEMMA ParamsBecome ==
    ASSUME SourceTypes, Shape, Top.step = "params", NEW it \in Items, Become(<<it>>)
    PROVE  /\ work' \in Seq(Items) /\ Len(work') = 3 /\ work'[3] = it /\ Top' = it
           /\ work'[1].step = "decls" /\ work'[2].step = "endfun"
<1>1. /\ work \in Seq(Items) /\ Len(work) = 3 /\ Len(work) >= 1
  BY TopOutside
<1>2. <<it>> \in Seq(Items) /\ Len(<<it>>) = 1 /\ <<it>>[1] = it
  OBVIOUS
<1>3. /\ work' \in Seq(Items)
      /\ Len(work') = Len(work) - 1 + Len(<<it>>)
      /\ \A i \in 1..Len(work') :
             work'[i] = IF i < Len(work) THEN work[i] ELSE <<it>>[i - (Len(work) - 1)]
  BY <1>1, <1>2, BecomeSeq
<1>4. Len(work') = 3 /\ work'[1] = work[1] /\ work'[2] = work[2] /\ work'[3] = it
  BY <1>1, <1>2, <1>3
<1>5. work[1].step = "decls" /\ work[2].step = "endfun"
  BY <1>1 DEF Shape, Handlers
<1> QED BY <1>3, <1>4, <1>5 DEF Top, Last

\* A parameter's type is added to its function's.
LEMMA ParamsType ==
    ASSUME NEW ls \in Seq(Locals), NEW k \in 1..Len(ls), NEW t \in Types
    PROVE  /\ [ls EXCEPT ![k].params = Append(@, t)] \in Seq(Locals)
           /\ Len([ls EXCEPT ![k].params = Append(@, t)]) = Len(ls)
           /\ \A i \in 1..Len(ls) : [ls EXCEPT ![k].params = Append(@, t)][i].id = ls[i].id
<1> DEFINE l   == ls[k]
           ps  == Append(l.params, t)
           l2  == [l EXCEPT !.params = ps]
           new == [ls EXCEPT ![k].params = Append(@, t)]
<1>1. l \in Locals
  OBVIOUS
<1>2. new = [ls EXCEPT ![k] = l2]
  OBVIOUS
<1> HIDE DEF l, new
<1>3. ps \in Seq(Types)
  BY <1>1, LocalField, AppendProperties, Zenon
<1> HIDE DEF ps
<1>4. l2 \in Locals /\ l2.id = l.id
  BY <1>1, <1>3 DEF Locals
<1> HIDE DEF l2
<1>5. /\ new \in Seq(Locals)
      /\ Len(new) = Len(ls)
      /\ \A i \in 1..Len(ls) : new[i] = IF i = k THEN l2 ELSE ls[i]
  BY <1>2, <1>4, ExceptSeq
<1>6. \A i \in 1..Len(ls) : new[i].id = ls[i].id
  BY <1>4, <1>5 DEF l
<1> QED BY <1>5, <1>6, Zenon DEF new

LEMMA AddParamStep ==
    ASSUME SourceTypes, Shape, NEW p \in Params, AddParam(p)
    PROVE  Kept
<1> DEFINE it    == Top
           next  == [it EXCEPT !.n = @ + 1, !.offset = @ + TypeSize(p.type)]
           local == Local("var", p.name, p.type, <<>>, it.offset)
           m     == Len(scopes[1])
           s1    == [scopes[1] EXCEPT ![m].params = Append(@, p.type)]
           s2    == Append(scopes[2], local)
<1>1. Top.step = "params"
  BY DEF AddParam, At
<1>2. CASE p.type = "unit"
  BY <1>2, FailStep, Zenon DEF AddParam
<1>3. CASE p.type # "unit"
  <2>1. /\ scopes' = [scopes EXCEPT ![1][m].params = Append(@, p.type), ![2] = Append(@, local)]
        /\ Become(<<next>>)
        /\ UNCHANGED <<bytes, funs, main_idx, offset_counter, fun_ret_type, types, budget, status>>
    BY <1>3 DEF AddParam
  <2>2. /\ work \in Seq(Items) /\ Len(work) = 3 /\ it \in Items /\ it.step = "params"
        /\ scopes \in Seq(Seq(Locals)) /\ Len(scopes) = 2
    BY <1>1, TopOutside
  <2>3. p.name \in Names /\ p.type \in Types /\ TypeSize(p.type) \in Nat
    BY SourceAssumption, SizeOfType DEF Names
  <2> HIDE DEF it
  <2>4. it.n \in Nat /\ it.offset \in Int
    BY <2>2 DEF Items
  <2>5. next \in Items /\ next.step = "params"
    <3>1. next = [it EXCEPT !.n = it.n + 1, !.offset = it.offset + TypeSize(p.type)]
      BY <2>2 DEF Items
    <3>2. it.n + 1 \in Nat /\ it.offset + TypeSize(p.type) \in Int
      BY <2>3, <2>4
    <3> QED BY <2>2, <3>1, <3>2 DEF Items
  <2> HIDE DEF next
  <2>6. local \in Locals
    <3>1. "var" \in {"var", "fun", "sysfun"} /\ <<>> \in Seq(Types)
      OBVIOUS
    <3> QED BY <2>3, <2>4, <3>1, LocalType, Zenon
  <2> HIDE DEF local
  <2>7. /\ scopes[1] \in Seq(Locals) /\ scopes[2] \in Seq(Locals)
        /\ m \in Nat /\ m >= 1 /\ scopes[1][m] \in Locals
    <3>1. scopes[1] \in Seq(Locals) /\ scopes[2] \in Seq(Locals)
      <4>1. 1 \in 1..Len(scopes) /\ 2 \in 1..Len(scopes)
        BY <2>2
      <4> QED BY <2>2, <4>1, ElementOfSeq, Zenon
    <3>2. m \in Nat /\ m >= 1
      BY <3>1 DEF Shape, Nesting
    <3> QED BY <3>1, <3>2
  <2>8. s1 \in Seq(Locals) /\ Len(s1) = m
    <3> DEFINE ls == scopes[1]
               t  == p.type
    <3>1. m \in 1..Len(ls) /\ ls \in Seq(Locals) /\ t \in Types
      BY <2>3, <2>7
    <3>2. s1 = [ls EXCEPT ![m].params = Append(@, t)]
      OBVIOUS
    <3>3. m = Len(ls)
      OBVIOUS
    <3> HIDE DEF s1, ls, t, m
    <3> QED BY <3>1, <3>2, <3>3, ParamsType
  <2>9. s2 \in Seq(Locals)
    BY <2>6, <2>7, AppendProperties
  <2>10. scopes' = [scopes EXCEPT ![1] = s1, ![2] = s2]
    BY <2>1, <2>2
  <2> HIDE DEF s1, s2
  <2>11. scopes' \in Seq(Seq(Locals)) /\ Len(scopes') = 2 /\ Len(scopes'[1]) >= 1
    BY <2>2, <2>7, <2>8, <2>9, <2>10
  <2>12. /\ work' \in Seq(Items) /\ Len(work') = 3 /\ work'[3] = next /\ Top' = next
         /\ work'[1].step = "decls" /\ work'[2].step = "endfun"
    BY <1>1, <2>1, <2>5, ParamsBecome, Zenon
  <2>13. Handlers' /\ Nesting'
    BY <2>5, <2>11, <2>12, ThreeHandlers
  <2>14. Emitted'
    BY <2>1, <2>5, <2>12 DEF Shape, Emitted
  <2>15. SourceTypes'
    BY <2>1, <2>11, <2>12 DEF SourceTypes
  <2> QED BY <1>1, <2>13, <2>14, <2>15 DEF Shape, Kept, Inside
<1> QED BY <1>2, <1>3, Zenon

\* The function's code starts here.
LEMMA PrologueStep ==
    ASSUME SourceTypes, Shape, Prologue
    PROVE  Kept
<1> DEFINE f     == [offset |-> bytes.used, nbytes |-> 0]
           code  == <<Instr("enter", 0, 0), Instr("add_sp", 0, 0)>>
           it    == Item("stmts")
           stmts == [it EXCEPT !.n = 1]
<1>1. Top.step = "params"
  BY DEF Prologue, At
<1>2. /\ funs' = Append(funs, f)
      /\ bytes' = EmitAll(bytes, code)
      /\ Become(<<stmts>>)
      /\ UNCHANGED <<main_idx, offset_counter, scopes, fun_ret_type, types, budget, status>>
  BY DEF Prologue
<1>3. BytesAdd /\ bytes'.used \in Nat /\ bytes.used \in Nat
  <2>1. "enter" \in Ops /\ "add_sp" \in Ops /\ 0 \in Int /\ 0 \in Widths \cup {0}
    BY DEF Ops, WithOperand
  <2>2. code \in Seq(InstrRecords)
    BY <2>1, TwoInstrs, Zenon
  <2> HIDE DEF code
  <2> QED BY <1>2, <2>2, BytesEmit DEF BytesAdd, SourceTypes, BytesOK
<1>4. f \in Funs /\ f.offset = bytes.used
  BY <1>3 DEF Funs
<1>5. stmts \in Items /\ stmts.step = "stmts"
  <2>1. "stmts" \in Steps
    BY DEF Steps
  <2>2. it \in Items /\ it.step = "stmts"
    BY <2>1, ItemType, Zenon
  <2> HIDE DEF it
  <2> QED BY <2>2 DEF Items
<1> HIDE DEF f, code, stmts
<1>6. /\ work' \in Seq(Items) /\ Len(work') = 3 /\ work'[3] = stmts /\ Top' = stmts
      /\ work'[1].step = "decls" /\ work'[2].step = "endfun"
  BY <1>1, <1>2, <1>5, ParamsBecome, Zenon
<1>7. /\ scopes' \in Seq(Seq(Locals)) /\ Len(scopes') = 2
      /\ Len(scopes'[1]) >= 1
  <2>1. scopes \in Seq(Seq(Locals)) /\ Len(scopes) = 2
    BY <1>1, TopOutside
  <2> QED BY <1>2, <2>1 DEF Shape, Nesting
<1>8. Handlers' /\ Nesting'
  BY <1>5, <1>6, <1>7, ThreeHandlers
<1>9. /\ funs' \in Seq(Funs) /\ Len(funs') = Len(funs) + 1 /\ funs' # <<>>
      /\ \A k \in 1..Len(funs) : funs'[k] = funs[k]
      /\ funs'[Len(funs) + 1] = f
      /\ Len(funs) \in Nat
  <2>1. funs \in Seq(Funs)
    BY DEF SourceTypes
  <2> QED BY <1>2, <1>4, <2>1, AppendProperties
<1>10. Emitted'
  <2>1. ASSUME NEW k \in 1..Len(funs') PROVE funs'[k].offset <= bytes'.used
    <3>1. CASE k <= Len(funs)
      <4>1. k \in 1..Len(funs) /\ funs'[k] = funs[k]
        BY <1>9, <3>1
      <4>2. funs[k].offset <= bytes.used
        BY <4>1, Zenon DEF Shape, Emitted
      <4>3. funs[k].offset \in Nat
        <5>1. funs[k] \in Funs
          BY <4>1 DEF SourceTypes
        <5> QED BY <5>1 DEF Funs
      <4> QED BY <1>3, <4>1, <4>2, <4>3 DEF BytesAdd
    <3>2. CASE ~(k <= Len(funs))
      <4>1. funs'[k] = f
        BY <1>9, <3>2
      <4> QED BY <1>3, <1>4, <4>1 DEF BytesAdd
    <3> QED BY <3>1, <3>2
  <2> QED BY <1>9, <2>1 DEF Emitted
<1>11. SourceTypes'
  <2>2. Len(work') > 0 /\ Len(scopes') > 0
    BY <1>6, <1>7
  <2>3. /\ BytesOK(bytes') /\ offset_counter' \in Int /\ fun_ret_type' \in Types
        /\ types' \in Seq(Types) /\ budget' \in Nat /\ status' \in {"compiling", "done", "failed"}
    BY <1>2, <1>3 DEF SourceTypes, BytesAdd
  <2> QED BY <1>6, <1>7, <1>9, <2>2, <2>3 DEF SourceTypes
<1> QED BY <1>1, <1>8, <1>10, <1>11 DEF Shape, Kept, Inside

LEMMA EndFunStep ==
    ASSUME SourceTypes, Shape, EndFun
    PROVE  Kept
<1> DEFINE f     == Last(funs)
           exit  == <<Instr("exit", 0, 0)>>
           tail  == <<Instr("mov_imm", 8, 0), Instr("leave", 0, 0), Instr("ret", 0, 0)>>
           code  == IF Top.word = "main" THEN exit ELSE tail
           b     == EmitAll(bytes, code)
           n     == Len(funs)
           f2    == [f EXCEPT !.nbytes = b.used - f.offset]
<1>1. Top.step = "endfun" /\ Top.step # "params" /\ Top.step # "decls"
  BY DEF EndFun, At
<1>2. /\ bytes' = Patch(b, f.offset + 1, offset_counter)
      /\ funs' = [funs EXCEPT ![n].nbytes = b.used - f.offset]
      /\ main_idx' = IF Top.word = "main" THEN n ELSE main_idx
      /\ offset_counter' = 0
      /\ scopes' = <<scopes[1]>>
      /\ work' = Front(work)
      /\ UNCHANGED <<fun_ret_type, types, budget, status>>
  BY DEF EndFun
<1>3. /\ work \in Seq(Items) /\ Len(work) = 2 /\ Len(work) >= 1 /\ Len(work) > 1
      /\ scopes \in Seq(Seq(Locals)) /\ Len(scopes) >= 2 /\ Len(scopes) \in Nat
  <2>1. /\ work \in Seq(Items) /\ Len(work) = 2
        /\ scopes \in Seq(Seq(Locals)) /\ Len(scopes) >= 2 /\ Len(scopes) \in Nat
    BY <1>1, TopOutside, Zenon
  <2>2. Len(work) >= 1 /\ Len(work) > 1
    BY <2>1
  <2> QED BY <2>1, <2>2
<1>4. /\ funs \in Seq(Funs) /\ n \in Nat /\ n >= 1 /\ f = funs[n] /\ f \in Funs
      /\ f.offset \in Nat /\ f.offset <= bytes.used
  <2>1. funs \in Seq(Funs) /\ funs # <<>>
    BY <1>1, <1>3 DEF SourceTypes, Shape, Emitted
  <2>2. n \in Nat /\ n >= 1 /\ f = funs[n] /\ f \in Funs /\ n \in 1..Len(funs)
    BY <2>1 DEF Last
  <2>3. funs[n].offset <= bytes.used
    BY <2>2, Zenon DEF Shape, Emitted
  <2>4. f.offset \in Nat
    <3> HIDE DEF f
    <3> QED BY <2>2 DEF Funs
  <2> QED BY <2>1, <2>2, <2>3, <2>4
<1>5. BytesOK(b) /\ b.used >= bytes.used
  <2>1. code \in Seq(InstrRecords)
    <3>1. /\ "exit" \in Ops /\ "mov_imm" \in Ops /\ "leave" \in Ops /\ "ret" \in Ops
          /\ 0 \in Int /\ 0 \in Widths \cup {0} /\ 8 \in Widths \cup {0}
      BY DEF Ops, Widths
    <3>2. exit \in Seq(InstrRecords)
      BY <3>1, OneInstr, Zenon
    <3>3. tail \in Seq(InstrRecords)
      <4>1. /\ Instr("mov_imm", 8, 0) \in InstrRecords /\ Instr("leave", 0, 0) \in InstrRecords
            /\ Instr("ret", 0, 0) \in InstrRecords
        BY <3>1, InstrType, Zenon
      <4> QED BY <4>1
    <3> HIDE DEF exit, tail
    <3> QED BY <3>2, <3>3
  <2> HIDE DEF code
  <2> QED BY <2>1, EmitAllType DEF SourceTypes
<1> HIDE DEF f, b, n
<1>6. BytesOK(bytes') /\ bytes'.used = b.used /\ b.used \in Nat /\ bytes.used \in Nat
  <2>1. offset_counter \in Int /\ BytesOK(bytes)
    BY DEF SourceTypes
  <2>2. BytesOK(bytes') /\ bytes'.used = b.used
    BY <1>2, <1>5, <2>1, PatchType
  <2> QED BY <1>5, <2>1, <2>2 DEF BytesOK
<1>7. f2 \in Funs /\ f2.offset = f.offset
  <2>1. b.used - f.offset \in Nat
    BY <1>4, <1>5, <1>6
  <2> QED BY <1>4, <2>1 DEF Funs
<1>8. funs' = [funs EXCEPT ![n] = f2]
  BY <1>2, <1>4
<1> HIDE DEF f2
<1>9. /\ funs' \in Seq(Funs) /\ Len(funs') = n
      /\ \A k \in 1..n : funs'[k] = IF k = n THEN f2 ELSE funs[k]
  <2>1. n \in 1..Len(funs)
    BY <1>4 DEF n
  <2> QED BY <1>4, <1>7, <1>8, <2>1, ExceptSeq DEF n
<1>10. Emitted'
  <2>1. ASSUME NEW k \in 1..n PROVE funs'[k].offset <= bytes'.used
    <3>1. funs'[k].offset = funs[k].offset
      BY <1>4, <1>7, <1>9
    <3>2. funs[k].offset <= bytes.used
      BY Zenon DEF Shape, Emitted, n
    <3>3. funs[k].offset \in Nat
      <4>1. funs[k] \in Funs
        BY <1>4 DEF n
      <4> QED BY <4>1 DEF Funs
    <3> QED BY <1>5, <1>6, <3>1, <3>2, <3>3
  <2>2. funs' # <<>>
    BY <1>4, <1>9
  <2> QED BY <1>9, <2>1, <2>2 DEF Emitted
<1>11. /\ work' \in Seq(Items) /\ Len(work') = 1 /\ work'[1].step = "decls" /\ Top' = work'[1]
  <2>1. /\ work' \in Seq(Items) /\ Len(work') = Len(work) - 1
        /\ \A i \in 1..(Len(work) - 1) : work'[i] = work[i]
    BY <1>2, <1>3, FrontType, Zenon DEF Front
  <2>2. Len(work') = 1 /\ work'[1] = work[1]
    BY <1>3, <2>1
  <2>3. work[1].step = "decls"
    BY DEF Shape, Handlers
  <2> QED BY <2>1, <2>2, <2>3 DEF Top, Last
<1>12. /\ scopes' \in Seq(Seq(Locals)) /\ Len(scopes') = 1 /\ scopes'[1] = scopes[1]
       /\ Len(scopes[1]) >= 1
  <2>1. scopes[1] \in Seq(Locals)
    <3>1. 1 \in 1..Len(scopes)
      BY <1>3
    <3> QED BY <1>3, <3>1, ElementOfSeq, Zenon
  <2>2. Len(scopes[1]) >= 1
    BY DEF Shape, Nesting
  <2> QED BY <1>2, <2>1, <2>2
<1>13. Handlers' /\ Nesting'
  <2>1. \A i \in 3..Len(work') : FALSE
    BY <1>11
  <2>2. ~(Len(work') > 1) /\ ~(Len(scopes') > 1)
    BY <1>11, <1>12
  <2>3. Handlers'
    BY <1>11, <2>1, <2>2, Zenon DEF Handlers
  <2>4. Nesting'
    <3>1. Top'.step # "params" /\ Len(scopes'[1]) >= 1
      BY <1>11, <1>12
    <3> QED BY <2>1, <2>2, <3>1, Zenon DEF Nesting
  <2> QED BY <2>3, <2>4
<1>14. SourceTypes'
  <2>2. Len(work') > 0 /\ Len(scopes') > 0 /\ offset_counter' \in Int
    BY <1>2, <1>11, <1>12
  <2>3. /\ fun_ret_type' \in Types
        /\ types' \in Seq(Types) /\ budget' \in Nat /\ status' \in {"compiling", "done", "failed"}
    BY <1>2 DEF SourceTypes
  <2> QED BY <1>6, <1>9, <1>11, <1>12, <2>2, <2>3 DEF SourceTypes
<1> QED BY <1>1, <1>10, <1>13, <1>14 DEF Shape, Kept, Inside

LEMMA EndProgramStep ==
    ASSUME SourceTypes, Shape, EndProgram
    PROVE  Kept
<1>1. Shape'
  BY SameShape DEF EndProgram
<1>2. SourceTypes' /\ UNCHANGED work
  BY DEF EndProgram, SourceTypes
<1> QED BY <1>1, <1>2, SameWork

-----------------------------------------------------------------------------
LEMMA InitialShape == Afresh => SourceTypes /\ Shape
<1> SUFFICES ASSUME Afresh PROVE SourceTypes /\ Shape
  OBVIOUS
<1> DEFINE it == Item("decls")
<1>1. it \in Items /\ it.step = "decls"
  <2>1. "decls" \in Steps
    BY DEF Steps
  <2> QED BY <2>1, ItemType, Zenon
<1>2. work = <<it>>
  BY DEF Afresh
<1> HIDE DEF it
<1>3. work \in Seq(Items) /\ Len(work) = 1 /\ Top = it /\ work[1] = it
  BY <1>1, <1>2 DEF Top, Last
<1>4. SysFuns \in Seq(Locals) /\ Len(SysFuns) = 4
  <2> DEFINE l1 == Local("sysfun", "print8",  "unit", <<"i8">>,  0)
             l2 == Local("sysfun", "print16", "unit", <<"i16">>, 0)
             l3 == Local("sysfun", "print32", "unit", <<"i32">>, 0)
             l4 == Local("sysfun", "print64", "unit", <<"i64">>, 0)
  <2>1. /\ "sysfun" \in {"var", "fun", "sysfun"} /\ "unit" \in Types /\ 0 \in Int
        /\ "print8" \in Names /\ "print16" \in Names /\ "print32" \in Names /\ "print64" \in Names
    BY DEF Names, Types
  <2>2. /\ <<"i8">> \in Seq(Types) /\ <<"i16">> \in Seq(Types)
        /\ <<"i32">> \in Seq(Types) /\ <<"i64">> \in Seq(Types)
    <3>1. "i8" \in Types /\ "i16" \in Types /\ "i32" \in Types /\ "i64" \in Types
      BY DEF Types, IntTypes
    <3> QED BY <3>1
  <2>3. l1 \in Locals /\ l2 \in Locals /\ l3 \in Locals /\ l4 \in Locals
    BY <2>1, <2>2, LocalType, Zenon
  <2>4. SysFuns = <<l1, l2, l3, l4>>
    BY DEF SysFuns
  <2> HIDE DEF l1, l2, l3, l4
  <2> QED BY <2>3, <2>4
<1> HIDE DEF SysFuns
<1>5. scopes \in Seq(Seq(Locals)) /\ Len(scopes) = 1 /\ scopes[1] = SysFuns
  BY <1>4 DEF Afresh
<1>6. BytesOK(bytes)
  BY DEF Afresh, BytesOK
<1>7. SourceTypes
  <2>1. "unit" \in Types /\ MaxNodes \in Nat /\ <<>> \in Seq(Funs) /\ <<>> \in Seq(Types)
        /\ Len(<<>>) = 0
    BY SourceAssumption DEF Types
  <2> QED BY <1>3, <1>5, <1>6, <2>1 DEF Afresh, SourceTypes
<1>8. Handlers
  <2>1. ~(Len(work) > 1) /\ \A i \in 3..Len(work) : FALSE
    BY <1>3
  <2> QED BY <1>1, <1>3, <2>1 DEF Handlers
<1>9. Nesting
  BY <1>1, <1>3, <1>4, <1>5 DEF Nesting
<1>10. Emitted
  BY <1>3 DEF Afresh, Emitted
<1> QED BY <1>7, <1>8, <1>9, <1>10 DEF Shape

\* Every step keeps the types and the shape.
LEMMA ShapeStep ==
    ASSUME SourceTypes, Shape, [Next]_vars
    PROVE  Kept
<1>1. CASE UNCHANGED vars
  <2>1. Shape'
    BY <1>1, SameShape DEF vars
  <2>2. SourceTypes' /\ UNCHANGED work
    BY <1>1 DEF vars, SourceTypes
  <2> QED BY <2>1, <2>2, SameWork
<1>2. CASE Declaration
  BY <1>2, DeclareFunStep, AddParamStep, FailStep, PrologueStep, EndFunStep, EndProgramStep, Zenon
     DEF Declaration, DeclareVar
<1>3. CASE Statement
  BY <1>3, EndStmtsStep, EndScopeStep, EndVarStep, EndReturnStep, EmitIfStep, IfJzStep,
     EndIfStep, EmitWhileStep, WhileJzStep, EndWhileStep, EmitBlockStep, EmitMatchStep,
     EmitExprStmtStep, EmitVarStep, IfJmpStep, EmitReturnStep, Zenon
     DEF Statement
<1>4. CASE Expression
  BY <1>4, LiteralStep, ArgStep, EndArgStep, EndCallStep, EndUnaryStep, PushStep,
     EndBinaryStep, StoreStep, EndAssgnStep, IdentStep, CallStep, EmitUnaryStep,
     EmitBinaryStep, AssignStep, Zenon
     DEF Expression
<1> QED BY <1>1, <1>2, <1>3, <1>4 DEF Next, Compiled

LEMMA InitialSource == Init => Afresh
  BY DEF Init, Afresh, Types

\* Inside a function no function is added, and none is found to be main.
LEMMA StatementFuns ==
    ASSUME Statement \/ Expression
    PROVE  UNCHANGED <<funs, main_idx, fun_ret_type>>
<1> DEFINE Same == UNCHANGED <<funs, main_idx, fun_ret_type>>
<1> SUFFICES Same
  OBVIOUS
<1>1. EndStmts \/ EndScope \/ EndVar \/ EndReturn => Same
  BY DEF EndStmts, EndScope, EndVar, EndReturn, Fail
<1>2. EmitIf \/ IfJz \/ EndIf \/ EmitWhile \/ WhileJz \/ EndWhile => Same
  BY DEF EmitIf, IfJz, EndIf, EmitWhile, WhileJz, EndWhile, Fail
<1>3. EmitBlock \/ EmitMatch \/ EmitExprStmt => Same
  BY DEF EmitBlock, EmitMatch, EmitExprStmt
<1>4. ASSUME NEW name \in VarNames, NEW t \in VarTypes, NEW init \in BOOLEAN,
             EmitVar(name, t, init)
      PROVE  Same
  BY <1>4, SMTT(30) DEF EmitVar
<1>5. ASSUME NEW else \in {"none", "elseif", "else"}, IfJmp(else) PROVE Same
  BY <1>5 DEF IfJmp
<1>6. ASSUME NEW expr \in BOOLEAN, EmitReturn(expr) PROVE Same
  BY <1>6 DEF EmitReturn
<1>7. ASSUME NEW id \in {"int", "float", "string"}, NEW v \in Literals \cup FloatImages,
             Literal(id, v)
      PROVE  Same
  BY <1>7 DEF Literal, Fail
<1>8. Arg \/ EndArg \/ EndCall \/ EndUnary \/ Push \/ EndBinary \/ Store \/ EndAssgn => Same
  BY DEF Arg, EndArg, EndCall, EndUnary, Push, EndBinary, Store, EndAssgn, Fail
<1>9. ASSUME NEW name \in UsedNames, Ident(name) PROVE Same
  BY <1>9 DEF Ident, Fail
<1>10. ASSUME NEW name \in UsedNames, NEW n \in 0..MaxArgs, Call(name, n) PROVE Same
  BY <1>10 DEF Call
<1>11. ASSUME NEW op \in UnOps, EmitUnary(op) PROVE Same
  BY <1>11 DEF EmitUnary
<1>12. ASSUME NEW op \in BinOps, EmitBinary(op) PROVE Same
  BY <1>12 DEF EmitBinary
<1>13. ASSUME NEW name \in UsedNames, NEW op \in AssignOps, Assign(name, op) PROVE Same
  BY <1>13 DEF Assign
<1> HIDE DEF Same
<1>14. CASE Statement
  BY <1>1, <1>2, <1>3, <1>4, <1>5, <1>6, <1>14, Zenon DEF Statement
<1>15. CASE Expression
  BY <1>7, <1>8, <1>9, <1>10, <1>11, <1>12, <1>13, <1>15, Zenon DEF Expression
<1> QED BY <1>14, <1>15, Zenon

\* Inside a function a compilation may fail, but it is never done.
LEMMA StatementStatus ==
    ASSUME Statement \/ Expression
    PROVE  status = "compiling" /\ status' \in {"compiling", "failed"}
<1> DEFINE Goes == status = "compiling" /\ status' \in {"compiling", "failed"}
<1> SUFFICES Goes
  OBVIOUS
<1>1. EndStmts \/ EndScope \/ EndVar \/ EndReturn => Goes
  BY DEF EndStmts, EndScope, EndVar, EndReturn, Fail, At
<1>2. EmitIf \/ IfJz \/ EndIf \/ EmitWhile \/ WhileJz \/ EndWhile => Goes
  BY DEF EmitIf, IfJz, EndIf, EmitWhile, WhileJz, EndWhile, Fail, At
<1>3. EmitBlock \/ EmitMatch \/ EmitExprStmt => Goes
  BY DEF EmitBlock, EmitMatch, EmitExprStmt, At
<1>4. ASSUME NEW name \in VarNames, NEW t \in VarTypes, NEW init \in BOOLEAN,
             EmitVar(name, t, init)
      PROVE  Goes
  BY <1>4, SMTT(30) DEF EmitVar, At
<1>5. ASSUME NEW else \in {"none", "elseif", "else"}, IfJmp(else) PROVE Goes
  BY <1>5 DEF IfJmp, At
<1>6. ASSUME NEW expr \in BOOLEAN, EmitReturn(expr) PROVE Goes
  BY <1>6 DEF EmitReturn, At
<1>7. ASSUME NEW id \in {"int", "float", "string"}, NEW v \in Literals \cup FloatImages,
             Literal(id, v)
      PROVE  Goes
  BY <1>7 DEF Literal, Fail, At
<1>8. Arg \/ EndArg \/ EndCall \/ EndUnary \/ Push \/ EndBinary \/ Store \/ EndAssgn => Goes
  BY DEF Arg, EndArg, EndCall, EndUnary, Push, EndBinary, Store, EndAssgn, Fail, At
<1>9. ASSUME NEW name \in UsedNames, Ident(name) PROVE Goes
  BY <1>9 DEF Ident, Fail, At
<1>10. ASSUME NEW name \in UsedNames, NEW n \in 0..MaxArgs, Call(name, n) PROVE Goes
  BY <1>10 DEF Call, At
<1>11. ASSUME NEW op \in UnOps, EmitUnary(op) PROVE Goes
  BY <1>11 DEF EmitUnary, At
<1>12. ASSUME NEW op \in BinOps, EmitBinary(op) PROVE Goes
  BY <1>12 DEF EmitBinary, At
<1>13. ASSUME NEW name \in UsedNames, NEW op \in AssignOps, Assign(name, op) PROVE Goes
  BY <1>13 DEF Assign, At
<1> HIDE DEF Goes
<1>14. CASE Statement
  BY <1>1, <1>2, <1>3, <1>4, <1>5, <1>6, <1>14, Zenon DEF Statement
<1>15. CASE Expression
  BY <1>7, <1>8, <1>9, <1>10, <1>11, <1>12, <1>13, <1>15, Zenon DEF Expression
<1> QED BY <1>14, <1>15, Zenon

\* main_idx is set to a function there is, and functions stay.
LEMMA MainIdxStep ==
    ASSUME StateTypes, Shape, [Next]_vars
    PROVE  main_idx' \in 0..Len(funs')
<1>1. funs \in Seq(Funs) /\ Len(funs) \in Nat /\ main_idx \in 0..Len(funs)
  BY DEF StateTypes, SourceTypes
<1>2. CASE UNCHANGED <<main_idx, funs>>
  BY <1>1, <1>2
<1>3. CASE Prologue
  BY <1>1, <1>3 DEF Prologue
<1>4. CASE EndFun
  <2>1. Len(funs') = Len(funs) /\ main_idx' \in {main_idx, Len(funs)}
    BY <1>1, <1>4 DEF EndFun
  <2> QED BY <1>1, <2>1
<1>5. CASE Declaration /\ ~Prologue /\ ~EndFun
  BY <1>2, <1>5 DEF Declaration, DeclareFun, AddParam, DeclareVar, Fail, EndProgram
<1>6. CASE Statement \/ Expression
  BY <1>2, <1>6, StatementFuns
<1> QED BY <1>2, <1>3, <1>4, <1>5, <1>6 DEF Next, Compiled, vars

\* The shape of the stack of handlers is what the recursion of gh_emit_fun,
\* gh_emit_statement and gh_emit_expr says it is, throughout.
THEOREM ShapeCorrect == Spec => [](StateTypes /\ Shape)
<1>1. Init => StateTypes /\ Shape
  <2> SUFFICES ASSUME Init PROVE StateTypes /\ Shape
    OBVIOUS
  <2>1. SourceTypes /\ Shape
    BY InitialSource, InitialShape
  <2>2. main_idx \in 0..Len(funs)
    BY DEF Init
  <2> QED BY <2>1, <2>2 DEF StateTypes
<1>2. StateTypes /\ Shape /\ [Next]_vars => (StateTypes /\ Shape)'
  BY ShapeStep, MainIdxStep DEF Kept, StateTypes
<1> QED BY <1>1, <1>2, PTL DEF Spec

=============================================================================
