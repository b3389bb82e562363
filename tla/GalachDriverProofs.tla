------------------------- MODULE GalachDriverProofs -------------------------
(***************************************************************************)
(* What main() does with several sources, for every value of the           *)
(* constants: the properties of GalachDriver, and those of the code of a   *)
(* single source, which hold of every source although each starts on the   *)
(* statics that the one before it has left.                                *)
(*                                                                         *)
(* The inductive invariants are those of the code generator, which ask of  *)
(* a start no more than Afresh, and three about what outlives a source:    *)
(* Chosen (compile_success), Emptied (offset_counter), Entering (main_idx).*)
(***************************************************************************)
EXTENDS GalachDriver, GalachCodegenAccesses

DriverNext == DriverStep \/ Halted

-----------------------------------------------------------------------------
(* Every source is compiled as if it were the only one.                    *)

Base == SourceTypes /\ Shape /\ Layout /\ Branches /\ JumpsLand

\* The driver compiles, starts on another source, or leaves all of it alone.
LEMMA DriverMoves ==
    ASSUME [DriverNext]_allvars
    PROVE  [Next]_vars \/ StartSource
<1>1. CASE CompileSource
  BY <1>1 DEF CompileSource, Next
<1>2. CASE StartSource
  BY <1>2
<1>3. CASE ~CompileSource /\ ~StartSource
  <2>1. UNCHANGED vars
    BY <1>3 DEF DriverNext, DriverStep, Option, UnknownOption, Unreadable, Unparsable, EndSource,
                EndArgs, RunMachine, Halted, allvars
  <2> QED BY <2>1
<1> QED BY <1>1, <1>2, <1>3

\* The head of gh_bytecode_compile is a fresh start, whatever came before.
LEMMA StartIsAfresh ==
    ASSUME Base, StartSource
    PROVE  Afresh'
<1>1. /\ bytes' = [code |-> <<>>, used |-> 0]
      /\ funs' = <<>>
      /\ scopes' = <<SysFuns>>
      /\ types' = <<>>
      /\ work' = <<Item("decls")>>
      /\ budget' = MaxNodes
      /\ status' = "compiling"
      /\ offset_counter' = offset_counter
      /\ fun_ret_type' = fun_ret_type
  BY DEF StartSource
<1>2. offset_counter \in Int /\ offset_counter <= 0 /\ fun_ret_type \in Types
  BY DEF Base, SourceTypes, Layout, FrameBelow
<1> HIDE DEF Item, SysFuns
<1> QED BY <1>1, <1>2 DEF Afresh

LEMMA AfreshBase == Afresh => Base
  BY InitialShape, InitialLayout, InitialBranches, InitialJumpsLand DEF Base

LEMMA AfreshBaseNext == Afresh' => Base'
  BY AfreshBase, PTL

LEMMA AfreshAccesses == Afresh' => (Reached /\ Assigned /\ AccessesInFrame)'
  BY InitialAccesses, PTL

LEMMA BaseStep ==
    ASSUME Base, [DriverNext]_allvars
    PROVE  Base'
<1>1. CASE StartSource
  BY <1>1, StartIsAfresh, AfreshBaseNext
<1>2. CASE [Next]_vars
  BY <1>2, ShapeStep, LayoutStep, BranchesStep, JumpsLandStep DEF Base, Kept
<1> QED BY <1>1, <1>2, DriverMoves

LEMMA DriverBase == DriverSpec => []Base
<1>1. DriverInit => Base
  BY InitialSource, AfreshBase DEF DriverInit
<1>2. Base /\ [DriverNext]_allvars => Base'
  BY BaseStep
<1> QED BY <1>1, <1>2, PTL DEF DriverSpec, DriverNext

\* In every source on the command line, the first or a later one, given up or
\* not, variables in scope are apart.
THEOREM DriverFramesDisjoint == DriverSpec => []SlotsDisjoint
<1>1. Base => SlotsDisjoint
  BY LayoutDisjoint DEF Base
<1> QED BY <1>1, DriverBase, PTL

\* So do its branches go where they should, ...
THEOREM DriverJumpsInside == DriverSpec => []JumpsLand
<1>1. Base => JumpsLand
  BY DEF Base
<1> QED BY <1>1, DriverBase, PTL

\* ... and its accesses stay inside the frame the prologue reserves: what a
\* source that was given up leaves in offset_counter makes frames larger, never
\* smaller.
THEOREM DriverAccessesStayInside ==
    ASSUME OrdinarySource
    PROVE  DriverSpec => []AccessesInFrame
<1> DEFINE Inv == Base /\ Reached /\ Assigned /\ AccessesInFrame
<1>1. DriverInit => Inv
  BY InitialSource, AfreshBase, InitialAccesses DEF DriverInit
<1>2. ASSUME Inv, [DriverNext]_allvars
      PROVE  Inv'
  <2>1. Base'
    BY <1>2, BaseStep
  <2>2. CASE StartSource
    BY <1>2, <2>1, <2>2, StartIsAfresh, AfreshAccesses
  <2>3. CASE [Next]_vars
    BY <1>2, <2>1, <2>3, ReachedStep, AccessesStep DEF Base
  <2> QED BY <1>2, <2>2, <2>3, DriverMoves
<1>3. Inv => AccessesInFrame
  OBVIOUS
<1> HIDE DEF Inv
<1>4. Inv /\ [DriverNext]_allvars => Inv'
  BY <1>2
<1> QED BY <1>1, <1>3, <1>4, PTL DEF DriverSpec, DriverNext

-----------------------------------------------------------------------------
(* What the machine is run on.                                             *)

Chosen ==
    /\ history \in Seq(BOOLEAN)
    /\ nsources \in Nat
    /\ compile_success \in BOOLEAN
    /\ compile_success <=> history # <<>> /\ history[1]
    /\ at \in {"args", "source", "options", "ran"} => history = <<>> \/ history[1]
    /\ at \in {"args", "options", "ran"} => nsources = Len(history)
    /\ at = "source" => nsources = Len(history) + 1
    /\ at \in {"options", "ran"} => nsources > 0
    /\ at = "refused" => nsources > Len(history) \/ ~history[1]

\* The outcome of a source is added behind those before it.
LEMMA Appended ==
    ASSUME history \in Seq(BOOLEAN), NEW ok \in BOOLEAN, history' = Append(history, ok)
    PROVE  /\ history' \in Seq(BOOLEAN) /\ history' # <<>>
           /\ Len(history) \in Nat /\ Len(history') = Len(history) + 1
           /\ \A k \in 1..Len(history) : history'[k] = history[k]
           /\ history'[Len(history) + 1] = ok
           /\ history = <<>> <=> Len(history) = 0
           /\ history = <<>> => history'[1] = ok
           /\ history # <<>> => history'[1] = history[1]
<1>1. /\ history' \in Seq(BOOLEAN) /\ Len(history) \in Nat /\ Len(history') = Len(history) + 1
      /\ \A k \in 1..Len(history) : history'[k] = history[k]
      /\ history'[Len(history) + 1] = ok
  BY AppendProperties
<1>2. history = <<>> <=> Len(history) = 0
  OBVIOUS
<1> QED BY <1>1, <1>2

LEMMA ChosenStep ==
    ASSUME Chosen, [DriverNext]_allvars
    PROVE  Chosen'
<1>1. CASE UNCHANGED <<at, nsources, compile_success, history>>
  BY <1>1 DEF Chosen
<1>2. CASE UnknownOption
  BY <1>2 DEF Chosen, UnknownOption
<1>3. CASE Unreadable
  BY <1>3 DEF Chosen, Unreadable
<1>4. CASE StartSource
  BY <1>4 DEF Chosen, StartSource
<1>5. CASE EndArgs
  BY <1>5 DEF Chosen, EndArgs
<1>6. CASE RunMachine
  BY <1>6 DEF Chosen, RunMachine
<1>7. CASE Unparsable
  <2>1. history' = Append(history, FALSE) /\ FALSE \in BOOLEAN
    BY <1>7 DEF Unparsable, Returned
  <2>2. /\ at = "args" /\ compile_success' = compile_success /\ nsources' = nsources + 1
        /\ at' = IF compile_success' THEN "args" ELSE "refused"
    BY <1>7 DEF Unparsable, Returned
  <2>3. /\ history' \in Seq(BOOLEAN) /\ history' # <<>>
        /\ Len(history) \in Nat /\ Len(history') = Len(history) + 1
        /\ history = <<>> => history'[1] = FALSE
        /\ history # <<>> => history'[1] = history[1]
    BY <2>1, Appended DEF Chosen
  <2> QED BY <2>2, <2>3 DEF Chosen
<1>8. CASE EndSource
  <2> DEFINE ok == status = "done"
  <2>1. history' = Append(history, ok) /\ ok \in BOOLEAN
    BY <1>8 DEF EndSource, Returned
  <2>2. /\ at = "source" /\ compile_success' = (compile_success \/ ok) /\ nsources' = nsources
        /\ at' = IF compile_success' THEN "args" ELSE "refused"
    BY <1>8 DEF EndSource, Returned
  <2> HIDE DEF ok
  <2> QED BY <2>1, <2>2, Appended DEF Chosen
<1>9. Option \/ CompileSource \/ Halted \/ UNCHANGED allvars
        => UNCHANGED <<at, nsources, compile_success, history>>
  BY DEF Option, CompileSource, Halted, allvars, drivervars
<1> QED BY <1>1, <1>2, <1>3, <1>4, <1>5, <1>6, <1>7, <1>8, <1>9 DEF DriverNext, DriverStep

LEMMA InitialChosen == DriverInit => Chosen
<1>1. <<>> \in Seq(BOOLEAN) /\ Len(<<>>) = 0 /\ 0 \in Nat
  OBVIOUS
<1> QED BY <1>1 DEF DriverInit, Chosen

\* However options, files that cannot be read, sources that do not parse and
\* sources that fail to compile follow each other on the command line, the
\* machine is run only when the first of them compiled, and -1 is returned only
\* after a failure.
THEOREM OnlyCompiledRuns == DriverSpec => []RunsOnlyCompiled
<1>1. DriverInit => Chosen
  BY InitialChosen
<1>2. Chosen /\ [DriverNext]_allvars => Chosen'
  BY ChosenStep
<1>3. Chosen => RunsOnlyCompiled
  BY DEF Chosen, RunsOnlyCompiled
<1> QED BY <1>1, <1>2, <1>3, PTL DEF DriverSpec, DriverNext

-----------------------------------------------------------------------------
(* Where a frame starts.                                                   *)

\* A source behind one that compiled has been given up.
GivenUp == \E k \in 2..Len(history) : ~history[k]

\* Otherwise offset_counter is back at 0 whenever no function is being emitted.
Emptied ==
    /\ status = "compiling" => GivenUp \/ EmptyFrame
    /\ status = "done" \/ at = "args" => GivenUp \/ offset_counter = 0

\* A step of the code generator: gh_emit_fun ends where it began.
LEMMA EmptyFrameStep ==
    ASSUME SourceTypes, Shape, EmptyFrame, Declaration \/ Statement \/ Expression
    PROVE  /\ status' = "compiling" => EmptyFrame'
           /\ status' = "done" => offset_counter' = 0
<1>1. CASE Statement \/ Expression
  <2>1. Top'.step # "params" /\ Len(work') > 1 /\ Len(work') \in Nat
    <3>1. Kept /\ Inside
      BY <1>1, ShapeStep, StatementScopes DEF Next
    <3> QED BY <3>1 DEF Kept, SourceTypes
  <2>2. EmptyFrame'
    BY <2>1 DEF EmptyFrame
  <2>3. status' # "done"
    BY <1>1, StatementStatus
  <2> QED BY <2>2, <2>3
<1>2. CASE EndFun
  BY <1>2 DEF EndFun, At, EmptyFrame
<1>3. CASE Declaration /\ ~EndFun
  <2>1. /\ Top.step \in {"decls", "params"}
        /\ UNCHANGED offset_counter
    BY <1>3 DEF Declaration, DeclareFun, AddParam, DeclareVar, Prologue, EndProgram, Fail, At
  <2>2. Top.step = "decls" => Len(work) <= 1
    BY TopOutside, Zenon
  <2>3. offset_counter' = 0
    BY <2>1, <2>2 DEF EmptyFrame
  <2> QED BY <2>3 DEF EmptyFrame
<1> QED BY <1>1, <1>2, <1>3

LEMMA EmptiedStep ==
    ASSUME Base, Chosen, Emptied, [DriverNext]_allvars
    PROVE  Emptied'
<1>1. CASE UNCHANGED <<vars, at, history>>
  <2>1. GivenUp' = GivenUp /\ EmptyFrame' = EmptyFrame
    BY <1>1 DEF GivenUp, EmptyFrame, Top, vars
  <2> QED BY <1>1, <2>1 DEF Emptied, vars
<1>2. CASE at' # "args" /\ UNCHANGED <<vars, history>>
  <2>1. GivenUp' = GivenUp /\ EmptyFrame' = EmptyFrame
    BY <1>2 DEF GivenUp, EmptyFrame, Top, vars
  <2> QED BY <1>2, <2>1 DEF Emptied, vars
<1>3. CASE StartSource
  <2>1. at = "args" /\ UNCHANGED <<history, offset_counter>> /\ at' = "source" /\ status' = "compiling"
    BY <1>3 DEF StartSource
  <2>2. GivenUp' = GivenUp
    BY <2>1 DEF GivenUp
  <2> QED BY <2>1, <2>2 DEF Emptied, EmptyFrame
<1>4. CASE CompileSource
  <2>1. UNCHANGED <<at, history>> /\ at = "source" /\ (Declaration \/ Statement \/ Expression)
    BY <1>4 DEF CompileSource, drivervars
  <2>2. GivenUp' = GivenUp
    BY <2>1 DEF GivenUp
  <2>3. status = "compiling"
    BY <2>1, StatementStatus
       DEF Declaration, DeclareFun, AddParam, DeclareVar, Prologue, EndFun, EndProgram, At
  <2>4. CASE GivenUp
    BY <2>2, <2>4 DEF Emptied
  <2>5. CASE EmptyFrame
    BY <2>1, <2>5, EmptyFrameStep DEF Emptied, Base
  <2> QED BY <2>3, <2>4, <2>5 DEF Emptied
<1>5. CASE Unparsable \/ EndSource
  <2> DEFINE ok == EndSource /\ status = "done"
  <2>1. /\ UNCHANGED vars
        /\ ok \in BOOLEAN /\ history' = Append(history, ok)
        /\ at' = "args" => compile_success'
        /\ compile_success' = (compile_success \/ ok)
        /\ at = "args" \/ status # "compiling"
    BY <1>5 DEF Unparsable, EndSource, Returned, Chosen
  <2> HIDE DEF ok
  <2>2. /\ history' \in Seq(BOOLEAN) /\ Len(history) \in Nat /\ Len(history') = Len(history) + 1
        /\ \A k \in 1..Len(history) : history'[k] = history[k]
        /\ history'[Len(history) + 1] = ok
        /\ history = <<>> <=> Len(history) = 0
    BY <2>1, Appended DEF Chosen
  <2>3. GivenUp => GivenUp'
    <3>1. ASSUME NEW k \in 2..Len(history), ~history[k] PROVE GivenUp'
      <4>1. k \in 2..Len(history') /\ ~history'[k]
        BY <2>2, <3>1
      <4> QED BY <4>1 DEF GivenUp
    <3> QED BY <3>1 DEF GivenUp
  <2>4. at' = "args" /\ ~ok => GivenUp'
    <3>1. ASSUME at' = "args", ~ok PROVE GivenUp'
      <4>1. history # <<>>
        BY <2>1, <3>1 DEF Chosen
      <4>2. Len(history') \in 2..Len(history') /\ ~history'[Len(history')]
        BY <2>2, <3>1, <4>1
      <4> QED BY <4>2 DEF GivenUp
    <3> QED BY <3>1
  <2>5. EmptyFrame' = EmptyFrame
    BY <2>1 DEF EmptyFrame, Top, vars
  <2> QED BY <2>1, <2>3, <2>4, <2>5 DEF Emptied, vars, ok
<1>6. \/ UNCHANGED <<vars, at, history>>
      \/ at' # "args" /\ UNCHANGED <<vars, history>>
      \/ StartSource \/ CompileSource \/ Unparsable \/ EndSource
  BY DEF DriverNext, DriverStep, Option, UnknownOption, Unreadable, EndArgs, RunMachine, Halted,
         allvars, drivervars
<1> QED BY <1>1, <1>2, <1>3, <1>4, <1>5, <1>6

\* However many sources are compiled into the one gh_bytecode, a function's locals
\* are laid out from the base pointer on, not below those of a function before it:
\* offset_counter is a static that only gh_emit_fun sets back, and after a first
\* source that was given up half-way no other one is read.
THEOREM FramesStartEmpty == DriverSpec => []FreshFrame
<1>1. DriverInit => Chosen /\ Emptied
  BY InitialChosen DEF DriverInit, Init, Emptied, EmptyFrame
<1>2. Base /\ Chosen /\ Emptied /\ [DriverNext]_allvars => (Chosen /\ Emptied)'
  BY ChosenStep, EmptiedStep
<1>3. Base /\ Emptied => FreshFrame
  <2>1. Base /\ Top.step = "decls" => Len(work) <= 1
    BY TopOutside, Zenon DEF Base
  <2> QED BY <2>1 DEF Emptied, EmptyFrame, FreshFrame, GivenUp
<1> QED BY <1>1, <1>2, <1>3, DriverBase, PTL DEF DriverSpec, DriverNext


-----------------------------------------------------------------------------
(* Which function main_idx names.                                          *)

\* What a step inside a function does to the lists of locals.
LEMMA StatementScoped ==
    ASSUME Statement \/ Expression
    PROVE  UNCHANGED scopes \/ OpenScope \/ EndScope \/ EndVar
<1> DEFINE Goes == UNCHANGED scopes \/ OpenScope \/ EndScope \/ EndVar
<1> SUFFICES Goes
  OBVIOUS
<1>1. EndScope \/ EndVar => Goes
  OBVIOUS
<1>2. EndStmts \/ EndReturn => Goes
  BY DEF EndStmts, EndReturn, Fail
<1>3. EmitIf \/ IfJz \/ EndIf \/ EmitWhile \/ WhileJz \/ EndWhile => Goes
  BY DEF EmitIf, IfJz, EndIf, EmitWhile, WhileJz, EndWhile, Fail
<1>4. EmitBlock \/ EmitMatch \/ EmitExprStmt => Goes
  BY DEF EmitBlock, EmitMatch, EmitExprStmt
<1>5. ASSUME NEW name \in VarNames, NEW t \in VarTypes, NEW init \in BOOLEAN,
             EmitVar(name, t, init)
      PROVE  Goes
  BY <1>5, SMTT(30) DEF EmitVar
<1>6. ASSUME NEW else \in {"none", "elseif", "else"}, IfJmp(else) PROVE Goes
  BY <1>6 DEF IfJmp
<1>7. ASSUME NEW expr \in BOOLEAN, EmitReturn(expr) PROVE Goes
  BY <1>7 DEF EmitReturn
<1>8. ASSUME NEW id \in {"int", "float", "string"}, NEW v \in Literals \cup FloatImages,
             Literal(id, v)
      PROVE  Goes
  BY <1>8 DEF Literal, Fail
<1>9. Arg \/ EndArg \/ EndCall \/ EndUnary \/ Push \/ EndBinary \/ Store \/ EndAssgn => Goes
  BY DEF Arg, EndArg, EndCall, EndUnary, Push, EndBinary, Store, EndAssgn, Fail
<1>10. ASSUME NEW name \in UsedNames, Ident(name) PROVE Goes
  BY <1>10 DEF Ident, Fail
<1>11. ASSUME NEW name \in UsedNames, NEW n \in 0..MaxArgs, Call(name, n) PROVE Goes
  BY <1>11 DEF Call
<1>12. ASSUME NEW op \in UnOps, EmitUnary(op) PROVE Goes
  BY <1>12 DEF EmitUnary
<1>13. ASSUME NEW op \in BinOps, EmitBinary(op) PROVE Goes
  BY <1>13 DEF EmitBinary
<1>14. ASSUME NEW name \in UsedNames, NEW op \in AssignOps, Assign(name, op) PROVE Goes
  BY <1>14 DEF Assign
<1> HIDE DEF Goes
<1>15. CASE Statement
  BY <1>1, <1>2, <1>3, <1>4, <1>5, <1>6, <1>7, <1>15, Zenon DEF Statement
<1>16. CASE Expression
  BY <1>8, <1>9, <1>10, <1>11, <1>12, <1>13, <1>14, <1>16, Zenon DEF Expression
<1> QED BY <1>15, <1>16, Zenon

\* No statement declares a function.
LEMMA StatementGlobals ==
    ASSUME SourceTypes, Shape, Statement \/ Expression
    PROVE  scopes'[1] = scopes[1]
<1>1. scopes \in Seq(Seq(Locals)) /\ Len(scopes) \in Nat /\ Len(scopes) >= 2
  BY StatementScopes, TopInFunction DEF Inside, SourceTypes
<1>2. CASE OpenScope
  <2>1. <<>> \in Seq(Locals)
    OBVIOUS
  <2> QED BY <1>1, <1>2, <2>1, AppendProperties DEF OpenScope
<1>3. CASE EndScope
  <2>1. Top.n \in 3..Len(scopes) /\ scopes' = SubSeq(scopes, 1, Top.n - 1)
    <3>1. Top.step = "endscope" /\ Top.step \notin {"decls", "endfun"}
      BY <1>3 DEF EndScope, At
    <3>2. Top.n \in 3..Len(scopes)
      BY <3>1, TopInFunction, Zenon DEF Nested
    <3> QED BY <1>3, <3>2 DEF EndScope
  <2>2. Top.n - 1 \in Nat /\ Top.n - 1 <= Len(scopes) /\ 1 \in 1..(Top.n - 1)
    BY <1>1, <2>1
  <2>3. \A i \in 1..(Top.n - 1) : SubSeq(scopes, 1, Top.n - 1)[i] = scopes[i]
    BY <1>1, <2>2, PrefixType, Zenon
  <2> QED BY <2>1, <2>2, <2>3
<1>4. CASE EndVar
  <2>1. \/ UNCHANGED scopes
        \/ \E s : scopes' = [scopes EXCEPT ![Len(scopes)] = s]
    BY <1>4 DEF EndVar, AddLocal
  <2> QED BY <1>1, <2>1
<1> QED BY <1>2, <1>3, <1>4, StatementScoped

\* ... nor does it leave the function it is in.
LEMMA StatementRests ==
    ASSUME SourceTypes, Shape, Branches, Statement \/ Expression
    PROVE  Len(work) >= 3 /\ work'[2] = work[2]
<1>1. Len(work) >= 3 /\ Len(work) \in Nat
  BY StatementScopes, TopInFunction DEF Inside, SourceTypes
<1>2. ASSUME NEW T, Leaves(T) PROVE work'[2] = work[2]
  BY <1>1, <1>2 DEF Leaves
<1>3. SourceTypes'
  BY ShapeStep DEF Kept, Next
<1>4. EmitWhile => work'[2] = work[2]
  BY <1>2, EmitWhileAccesses
<1>5. IfJz \/ WhileJz => work'[2] = work[2]
  BY <1>2, GuardAccesses
<1>6. ASSUME NEW else \in {"none", "elseif", "else"}, IfJmp(else) PROVE work'[2] = work[2]
  BY <1>2, <1>3, <1>6, IfJmpAccesses
<1>7. EndIf \/ EndWhile => work'[2] = work[2]
  BY <1>2, EndBranchAccesses
<1> QED BY <1>1, <1>2, <1>4, <1>5, <1>6, <1>7, StatementCode

\* The functions declared are those emitted, behind the system functions, and
\* the one being read; at the bottom of the stack is its name; and the one that
\* main_idx is the index of is called main.
Named ==
    /\ main_idx \in 0..Len(funs)
    /\ Len(scopes[1]) = Len(SysFuns) + Len(funs) + (IF Top.step = "params" THEN 1 ELSE 0)
    /\ Len(work) > 1 => work[2].word = scopes[1][Len(scopes[1])].name
    /\ main_idx > 0 => scopes[1][Len(SysFuns) + main_idx].name = "main"
    /\ status = "done" => main_idx > 0

LEMMA StatementNamed ==
    ASSUME SourceTypes, Shape, Branches, Named, Statement \/ Expression
    PROVE  Named'
<1>1. UNCHANGED <<funs, main_idx>> /\ scopes'[1] = scopes[1] /\ status' # "done"
  BY StatementFuns, StatementGlobals, StatementStatus
<1>2. Top.step # "params" /\ Top'.step # "params"
  <2>1. Kept /\ Inside
    BY ShapeStep, StatementScopes DEF Next
  <2> QED BY <2>1 DEF Kept, Inside
<1>3. Len(work) > 1 /\ work'[2] = work[2]
  BY StatementRests DEF SourceTypes
<1> HIDE DEF SysFuns
<1> QED BY <1>1, <1>2, <1>3 DEF Named

LEMMA SameNamed ==
    ASSUME Named, UNCHANGED <<funs, main_idx, scopes, work>>, status' # "done" \/ main_idx' > 0
    PROVE  Named'
  BY DEF Named, Top

LEMMA DeclareFunNamed ==
    ASSUME SourceTypes, Shape, Named, NEW h \in FunHeads, DeclareFun(h)
    PROVE  Named'
<1> DEFINE local  == Local("fun", h.name, h.type, <<>>, 0)
           s      == Append(scopes[1], local)
           it1    == Item("endfun")
           it2    == Item("params")
           endfun == [it1 EXCEPT !.word = h.name]
           params == [it2 EXCEPT !.offset = 16]
           two    == <<endfun, params>>
<1>1. Top.step = "decls" /\ status = "compiling"
  BY DEF DeclareFun, At
<1>2. CASE Declared(h.name)
  BY <1>2, SameNamed DEF DeclareFun, Fail
<1>3. CASE ~Declared(h.name)
  <2>1. scopes' = <<s, <<>>>> /\ work' = work \o two /\ UNCHANGED <<funs, main_idx, status>>
    BY <1>3 DEF DeclareFun
  <2>2. /\ work \in Seq(Items) /\ Len(work) = 1
        /\ scopes \in Seq(Seq(Locals)) /\ Len(scopes) = 1
        /\ scopes[1] \in Seq(Locals)
    BY <1>1, TopOutside
  <2>3. h.name \in Names /\ h.type \in Types
    BY SourceAssumption DEF Names
  <2>4. local \in Locals /\ local.name = h.name
    <3>1. "fun" \in {"var", "fun", "sysfun"} /\ <<>> \in Seq(Types) /\ 0 \in Int
      OBVIOUS
    <3>2. local \in Locals
      BY <2>3, <3>1, LocalType, Zenon
    <3> QED BY <3>2 DEF Local
  <2> HIDE DEF local
  <2>5. /\ s \in Seq(Locals) /\ Len(s) = Len(scopes[1]) + 1 /\ Len(scopes[1]) \in Nat
        /\ \A i \in 1..Len(scopes[1]) : s[i] = scopes[1][i]
        /\ s[Len(scopes[1]) + 1] = local
    BY <2>2, <2>4, AppendProperties
  <2> HIDE DEF s
  <2>6. scopes'[1] = s
    BY <2>1
  <2>7. it1 \in Items /\ it2 \in Items /\ it2.step = "params"
    <3>1. "endfun" \in Steps /\ "params" \in Steps
      BY DEF Steps
    <3> QED BY <3>1, ItemType, Zenon
  <2> HIDE DEF it1, it2
  <2>8. endfun \in Items /\ endfun.word = h.name /\ params \in Items /\ params.step = "params"
    BY <2>3, <2>7 DEF Items
  <2> HIDE DEF endfun, params
  <2>9. two \in Seq(Items) /\ Len(two) = 2 /\ two[1] = endfun /\ two[2] = params
    BY <2>8
  <2> HIDE DEF two
  <2>10. /\ work' \in Seq(Items)
         /\ Len(work') = Len(work) + Len(two)
         /\ \A i \in 1 .. Len(work) + Len(two) :
                work'[i] = IF i <= Len(work) THEN work[i] ELSE two[i - Len(work)]
    BY <2>1, <2>2, <2>9, ConcatProperties, Zenon
  <2>11. Len(work') = 3 /\ work'[2] = endfun /\ Top'.step = "params"
    <3>1. Len(work') = 3 /\ work'[2] = endfun /\ work'[3] = params
      BY <2>2, <2>8, <2>9, <2>10
    <3> QED BY <2>8, <3>1 DEF Top, Last
  <2>12. Len(SysFuns) \in Nat /\ Len(funs) \in Nat
    BY DEF SysFuns, SourceTypes
  <2> HIDE DEF SysFuns
  <2>13. Len(s) = Len(SysFuns) + Len(funs) + 1
    <3>1. Top.step # "params"
      BY <1>1
    <3>2. Len(scopes[1]) = Len(SysFuns) + Len(funs)
      BY <2>12, <3>1 DEF Named
    <3> QED BY <2>5, <2>12, <3>2
  <2>14. ASSUME main_idx > 0 PROVE s[Len(SysFuns) + main_idx].name = "main"
    <3>1. Len(SysFuns) + main_idx \in 1..Len(scopes[1])
      BY <1>1, <2>12, <2>14 DEF Named
    <3> QED BY <2>5, <2>14, <3>1 DEF Named
  <2> QED BY <1>1, <2>1, <2>4, <2>5, <2>6, <2>8, <2>11, <2>13, <2>14 DEF Named
<1> QED BY <1>2, <1>3

\* A parameter changes nothing about a function but the types of its parameters.
LEMMA ParamsName ==
    ASSUME NEW ls \in Seq(Locals), NEW k \in 1..Len(ls), NEW t \in Types
    PROVE  \A i \in 1..Len(ls) : [ls EXCEPT ![k].params = Append(@, t)][i].name = ls[i].name
<1> DEFINE l   == ls[k]
           ps  == Append(l.params, t)
           l2  == [l EXCEPT !.params = ps]
           new == [ls EXCEPT ![k].params = Append(@, t)]
<1>1. l \in Locals
  OBVIOUS
<1>2. new = [ls EXCEPT ![k] = l2]
  OBVIOUS
<1> HIDE DEF l, new
<1>3. ps \in Seq(Types)
  BY <1>1, LocalField, AppendProperties, Zenon
<1> HIDE DEF ps
<1>4. l2 \in Locals /\ l2.name = l.name
  BY <1>1, <1>3 DEF Locals
<1> HIDE DEF l2
<1>5. \A i \in 1..Len(ls) : new[i] = IF i = k THEN l2 ELSE ls[i]
  BY <1>2, <1>4, ExceptSeq
<1>6. \A i \in 1..Len(ls) : new[i].name = ls[i].name
  BY <1>4, <1>5 DEF l
<1> QED BY <1>6, Zenon DEF new


LEMMA AddParamNamed ==
    ASSUME SourceTypes, Shape, Named, NEW p \in Params, AddParam(p)
    PROVE  Named'
<1>1. Top.step = "params" /\ status = "compiling"
  BY DEF AddParam, At
<1>2. CASE p.type = "unit"
  BY <1>2, SameNamed DEF AddParam, Fail
<1>3. CASE p.type # "unit"
  <2> DEFINE it    == Top
             next  == [it EXCEPT !.n = @ + 1, !.offset = @ + TypeSize(p.type)]
             local == Local("var", p.name, p.type, <<>>, it.offset)
             ls    == scopes[1]
             m     == Len(ls)
             t     == p.type
             s1    == [ls EXCEPT ![m].params = Append(@, t)]
             s2    == Append(scopes[2], local)
  <2>1. /\ scopes' = [scopes EXCEPT ![1][m].params = Append(@, p.type), ![2] = Append(@, local)]
        /\ Become(<<next>>)
        /\ UNCHANGED <<funs, main_idx, status>>
    BY <1>3 DEF AddParam
  <2>2. /\ it \in Items /\ it.step = "params" /\ Len(work) = 3
        /\ scopes \in Seq(Seq(Locals)) /\ Len(scopes) = 2
    BY <1>1, TopOutside, Zenon
  <2>3. t \in Types /\ TypeSize(t) \in Nat
    BY SourceAssumption, SizeOfType
  <2>4. ls \in Seq(Locals) /\ m \in 1..Len(ls) /\ m = Len(ls)
    <3>1. ls \in Seq(Locals)
      BY <2>2, ElementOfSeq
    <3>2. Len(ls) \in Nat /\ Len(ls) >= 1
      BY <3>1 DEF Shape, Nesting
    <3> QED BY <3>1, <3>2
  <2>5. scopes' = [scopes EXCEPT ![1] = s1, ![2] = s2]
    BY <2>1, <2>2
  <2>6. scopes'[1] = s1
    <3> HIDE DEF s1, s2
    <3> QED BY <2>2, <2>5
  <2>7. next \in Items /\ next.step = "params"
    <3> HIDE DEF it, t
    <3>1. next = [it EXCEPT !.n = it.n + 1, !.offset = it.offset + TypeSize(p.type)]
      BY <2>2 DEF Items
    <3>2. it.n + 1 \in Nat /\ it.offset + TypeSize(p.type) \in Int
      BY <2>2, <2>3 DEF Items, t
    <3> QED BY <2>2, <3>1, <3>2 DEF Items
  <2> HIDE DEF next
  <2>8. Len(work') = 3 /\ Top'.step = "params"
    BY <1>1, <2>1, <2>7, ParamsBecome
  <2>9. work'[2] = work[2]
    <3>1. Leaves({})
      BY <2>1, <2>7, LeavesOne
    <3> QED BY <2>2, <3>1 DEF Leaves
  <2>10. Len(s1) = Len(ls) /\ \A i \in 1..Len(ls) : s1[i].name = ls[i].name
    <3>1. s1 = [ls EXCEPT ![m].params = Append(@, t)]
      OBVIOUS
    <3> HIDE DEF s1, ls, m, t
    <3> QED BY <2>3, <2>4, <3>1, ParamsType, ParamsName
  <2> HIDE DEF s1
  <2>11. Len(SysFuns) \in Nat /\ Len(funs) \in Nat
    BY DEF SysFuns, SourceTypes
  <2> HIDE DEF SysFuns
  <2>12. /\ Len(ls) = Len(SysFuns) + Len(funs) + 1
         /\ main_idx \in 0..Len(funs)
         /\ work[2].word = ls[Len(ls)].name
         /\ main_idx > 0 => ls[Len(SysFuns) + main_idx].name = "main"
    BY <1>1, <2>2 DEF Named
  <2> HIDE DEF ls, m
  <2>13. ASSUME main_idx > 0 PROVE s1[Len(SysFuns) + main_idx].name = "main"
    BY <2>10, <2>11, <2>12, <2>13
  <2> QED BY <1>1, <2>1, <2>2, <2>4, <2>6, <2>8, <2>9, <2>10, <2>12, <2>13 DEF Named
<1> QED BY <1>2, <1>3

LEMMA PrologueNamed ==
    ASSUME SourceTypes, Shape, Named, Prologue
    PROVE  Named'
<1> DEFINE it    == Item("stmts")
           stmts == [it EXCEPT !.n = 1]
<1>1. /\ Top.step = "params" /\ status = "compiling" /\ Become(<<stmts>>)
      /\ UNCHANGED <<main_idx, scopes, status>>
  BY DEF Prologue, At
<1>2. Len(funs) \in Nat /\ Len(funs') = Len(funs) + 1
  BY PrologueCode
<1>3. it \in Items /\ it.step = "stmts"
  BY BodyItems, ItemType, PendingSteps
<1> HIDE DEF it
<1>4. stmts \in Items /\ stmts.step = "stmts"
  BY <1>3, NumberedItem
<1> HIDE DEF stmts
<1>5. Len(work) = 3 /\ Top'.step = "stmts"
  BY <1>1, <1>4, ParamsBecome, TopOutside
<1>6. work'[2] = work[2]
  <2>1. Leaves({})
    BY <1>1, <1>4, LeavesOne
  <2> QED BY <1>5, <2>1 DEF Leaves
<1>7. Len(SysFuns) \in Nat
  BY DEF SysFuns
<1> HIDE DEF SysFuns
<1> QED BY <1>1, <1>2, <1>5, <1>6, <1>7 DEF Named

LEMMA EndFunNamed ==
    ASSUME SourceTypes, Shape, Branches, Named, EndFun
    PROVE  Named'
<1> DEFINE n == Len(funs)
<1>1. /\ Top.step = "endfun" /\ status = "compiling"
      /\ main_idx' = IF Top.word = "main" THEN n ELSE main_idx
      /\ scopes' = <<scopes[1]>> /\ work' = Front(work) /\ UNCHANGED status
  BY DEF EndFun, At
<1>2. n \in Nat /\ n >= 1 /\ Len(funs') = n
  BY EndFunCode
<1>3. work \in Seq(Items) /\ Len(work) = 2 /\ Top = work[2]
  BY <1>1, TopOutside
<1>4. Len(work') = 1 /\ work'[1] = work[1]
  <2>1. Len(work) >= 1
    BY <1>3
  <2>2. /\ Len(work') = Len(work) - 1
        /\ \A i \in 1..(Len(work) - 1) : work'[i] = work[i]
    BY <1>1, <1>3, <2>1, FrontType, Zenon DEF Front
  <2> QED BY <1>3, <2>2
<1>5. Top'.step = "decls"
  <2>1. work[1].step = "decls"
    BY DEF Shape, Handlers
  <2> QED BY <1>4, <2>1 DEF Top, Last
<1>6. scopes'[1] = scopes[1]
  BY <1>1
<1>7. Len(SysFuns) \in Nat
  BY DEF SysFuns
<1> HIDE DEF SysFuns, n
<1>8. /\ Len(scopes[1]) = Len(SysFuns) + n
      /\ work[2].word = scopes[1][Len(scopes[1])].name
      /\ main_idx \in 0..n
      /\ main_idx > 0 => scopes[1][Len(SysFuns) + main_idx].name = "main"
  BY <1>1, <1>2, <1>3, <1>7 DEF Named, n
<1>9. main_idx' \in 0..n /\ (main_idx' > 0 => scopes[1][Len(SysFuns) + main_idx'].name = "main")
  BY <1>1, <1>2, <1>3, <1>8
<1> QED BY <1>1, <1>2, <1>4, <1>5, <1>6, <1>7, <1>8, <1>9 DEF Named

LEMMA NamedStep ==
    ASSUME SourceTypes, Shape, Branches, Named, Declaration \/ Statement \/ Expression
    PROVE  Named'
<1>1. ASSUME EndProgram PROVE Named'
  <2>1. main_idx \in Nat
    BY DEF Named, SourceTypes
  <2> QED BY <1>1, <2>1, SameNamed DEF EndProgram
<1>2. ASSUME DeclareVar PROVE Named'
  BY <1>2, SameNamed DEF DeclareVar, Fail
<1> QED BY <1>1, <1>2, StatementNamed, DeclareFunNamed, AddParamNamed, PrologueNamed, EndFunNamed,
           Zenon DEF Declaration

\* Of the first source, and of the only one that compiled.
Entering ==
    /\ history = <<>> => Named
    /\ history = <<>> /\ at = "args" => main_idx = 0
    /\ Len(history) = 1 /\ at \in {"args", "options", "ran"} => Named /\ main_idx > 0

NoneNamed ==
    /\ funs = <<>> /\ main_idx = 0 /\ scopes = <<SysFuns>> /\ work = <<Item("decls")>>
    /\ status = "compiling"

LEMMA InitialNamed == NoneNamed => Named
<1> SUFFICES ASSUME NoneNamed PROVE Named
  OBVIOUS
<1>0. /\ funs = <<>> /\ main_idx = 0 /\ scopes = <<SysFuns>> /\ work = <<Item("decls")>>
      /\ status = "compiling"
  BY DEF NoneNamed
<1>1. Len(work) = 1 /\ Top.step = "decls"
  <2> DEFINE it == Item("decls")
  <2>1. it.step = "decls" /\ work = <<it>>
    BY <1>0 DEF Item
  <2> HIDE DEF it
  <2> QED BY <2>1 DEF Top, Last
<1>2. Len(funs) = 0 /\ Len(SysFuns) \in Nat
  BY <1>0 DEF SysFuns
<1> HIDE DEF SysFuns
<1> QED BY <1>0, <1>1, <1>2 DEF Named

LEMMA InitialNamedNext == NoneNamed' => Named'
  BY InitialNamed, PTL

LEMMA EnteringStep ==
    ASSUME Base, Chosen, Entering, [DriverNext]_allvars
    PROVE  Entering'
<1>1. Named /\ UNCHANGED vars => Named'
  BY SameNamed DEF Named, vars
<1>2. CASE UNCHANGED <<vars, at, history>>
  BY <1>1, <1>2 DEF Entering, vars
<1>3. CASE /\ UNCHANGED <<vars, history>>
           /\ \/ at' \notin {"args", "options", "ran"}
              \/ at \in {"args", "options"} /\ at' # "args"
  BY <1>1, <1>3 DEF Entering, vars
<1>4. CASE StartSource
  <2>1. /\ at = "args" /\ at' = "source" /\ UNCHANGED <<history, main_idx>>
        /\ funs' = <<>> /\ scopes' = <<SysFuns>> /\ work' = <<Item("decls")>>
        /\ status' = "compiling"
    BY <1>4 DEF StartSource
  <2>2. main_idx = 0 => Named'
    BY <2>1, InitialNamedNext DEF NoneNamed
  <2> QED BY <2>1, <2>2 DEF Entering
<1>5. CASE CompileSource
  <2>1. UNCHANGED <<at, history>> /\ at = "source" /\ (Declaration \/ Statement \/ Expression)
    BY <1>5 DEF CompileSource, drivervars
  <2>2. Named => Named'
    BY <2>1, NamedStep DEF Base
  <2> QED BY <2>1, <2>2 DEF Entering
<1>6. CASE Unparsable \/ EndSource
  <2> DEFINE ok == EndSource /\ status = "done"
  <2>1. /\ UNCHANGED vars
        /\ ok \in BOOLEAN /\ history' = Append(history, ok)
        /\ at' = IF compile_success' THEN "args" ELSE "refused"
        /\ compile_success' = (compile_success \/ ok)
    BY <1>6 DEF Unparsable, EndSource, Returned, Chosen
  <2>2. ok => status = "done"
    OBVIOUS
  <2> HIDE DEF ok
  <2>3. history' # <<>> /\ (Len(history') = 1 => history = <<>>)
    BY <2>1, Appended DEF Chosen
  <2>4. ASSUME Len(history') = 1, at' \in {"args", "options", "ran"}
        PROVE  Named' /\ main_idx' > 0
    <3>1. history = <<>> /\ ~compile_success
      BY <2>3, <2>4 DEF Chosen
    <3>2. status = "done"
      BY <2>1, <2>2, <2>4, <3>1
    <3>3. Named /\ main_idx > 0
      BY <3>1, <3>2 DEF Entering, Named
    <3> QED BY <1>1, <2>1, <3>3 DEF vars
  <2> QED BY <2>3, <2>4 DEF Entering
<1>7. \/ UNCHANGED <<vars, at, history>>
      \/ /\ UNCHANGED <<vars, history>>
         /\ at' \notin {"args", "options", "ran"} \/ (at \in {"args", "options"} /\ at' # "args")
      \/ StartSource \/ CompileSource \/ Unparsable \/ EndSource
  BY DEF DriverNext, DriverStep, Option, UnknownOption, Unreadable, EndArgs, RunMachine, Halted,
         allvars, drivervars
<1> QED BY <1>2, <1>3, <1>4, <1>5, <1>6, <1>7

\* Of a single source, the machine enters the function the source calls main:
\* main_idx, which gh_emit_fun finds by name before the function is in funs, is
\* its place in funs and among the functions in scope.
THEOREM EntersTheMain == DriverSpec => []EntersMain
<1>1. DriverInit => Chosen /\ Entering
  <2>1. DriverInit => Named
    BY InitialNamed DEF DriverInit, Init, NoneNamed
  <2>2. Len(<<>>) = 0
    OBVIOUS
  <2> QED BY <2>1, <2>2, InitialChosen DEF DriverInit, Init, Entering
<1>2. Base /\ Chosen /\ Entering /\ [DriverNext]_allvars => (Chosen /\ Entering)'
  BY ChosenStep, EnteringStep
<1>3. Base /\ Entering => EntersMain
  <2>1. Base => Len(funs) \in Nat
    BY DEF Base, SourceTypes
  <2> HIDE DEF SysFuns
  <2> QED BY <2>1 DEF Entering, Named, EntersMain
<1> QED BY <1>1, <1>2, <1>3, DriverBase, PTL DEF DriverSpec, DriverNext


=============================================================================
