# Galach: a verification development

Galach is a small language: a source is tokenised (`token.c`), parsed
(`ast.c`), compiled to bytecode (`bytecode.c`) and run by a virtual machine
(`vm.c`) in one process and one thread. The modules here model all four, the
convention that generator and machine share for calls, the listing of the
disassembler and the driver around them; TLC checks them on small instances and
TLAPS proves part of what TLC checks for every instance (section 4).

## 1. Inventory

| Part | State it keeps | Operations | Interacts with |
|---|---|---|---|
| code generator, `bytecode.c` | `bc->bytes`, `bc->funs`, `main_idx`/`main_defined`, `offset_counter`, `fun_ret_type`, the chain of `gh_local_list`, the C stack of its recursion | `gh_bytecode_compile`, `gh_emit_fun`, `_var`, `_block`, `_if`, `_while`, `_return`, `_statement`, `_expr` and the operators below it; `longjmp` on an error | reads the AST, leaves the image in the `gh_bytecode` |
| virtual machine, `vm.c` | `ip`, `a`, `bp`, three flags, the stack vector (`used` is the stack pointer) | one C function per group of opcodes, `gh_vm_run`'s fetch loop; `longjmp` on a failure | reads the `gh_bytecode` |
| calling convention | return addresses and saved base pointers inside the stack | `CALL`, `ENTER`, `ADD_SP`, `LEAVE`, `RET`, `SYSFUN` as the generator places them | a contract of both |
| driver, `galach.c` and `gh_bytecode_src` | `nsources`, `opt_disas`, the static `compile_success` | arguments one by one, then disassembly, then the machine | chains the others |
| vectors, `types.h` | `data`, `used`, `size` | `GROW_VEC`, `APPEND_VEC` | everything |
| parser, `ast.c` | token index, static `is_optional` | recursive descent; on an error a message unless `is_optional`, and a NULL that some callers do not look at | tokens in, AST out |
| lexer, `token.c` | position, line, start of the line | one token at a time | text in, tokens out; NULL on a character it does not know |
| disassembler, `debug.c` | position in a function's bytes | opcode by opcode, with a table of operands of its own | the image |
| logging, `log.c` | none | printing | everything |

Nothing is concurrent and nothing is persisted. What is hard is *order over long
sequences*: operands patched after other operands were patched, a frame's size
known after the frame was used, widths that must be the same when something is
pushed and when it is popped, names looked up through scopes that open and
close, statics that outlive what they were set for (`is_optional` among them),
failures that are not looked at and parsing that goes on behind them, links and
data in the same array, and limits (the stack's allocation, signed offsets against unsigned
positions). `PROJECT.json` lists each hazard at its line.

What makes each part correct:

* **lexer** - the tokens are the source, all of it (`TokensAreTheSource`), and
  only a source with a place no token begins at is refused (`RefusesNoSource`).
* **parser** - it accepts every program of the grammar, as the tree the grammar
  has for it (`AcceptsTheGrammar`), and on the paths that go on after an error it
  makes up no other program (`AcceptsNothingElse`) and says what it loses, as far
  as the code does (`LossesAreTold`).
* **generator** - every branch goes where its statement says (`JumpsLand`);
  frames are laid out without overlap and used only inside what is reserved
  (`SlotsDisjoint`, `AccessesInFrame`); the operand stack balances at the widths
  used (`OperandsBalanced`); calls reach what they name (`CallsReachCallee`).
* **machine** - whatever the code, nothing below the stack's allocation is
  written and only stores change what lies on the stack (`AboveBottom`,
  `StackKept`); the accumulator holds what the operators mean
  (`LowBytesExact`, `LowBitsExact`, `HighBytesExtend`).
* **together** - accepted programs run without leaving what the machine defines
  (`RunsClean`), with a level stack (`StackLevel`), nesting calls
  (`CallDiscipline`), to their end (`Terminates`), and print and compute what
  the source says (`DoesWhatItSays`).
* **disassembler** - it lists the instructions that were emitted
  (`ListsTheCode`).
* **driver** - of one source, nothing runs unless it compiled, and what runs is its
  main (`EntersMain`, `RunsOnlyCompiled`); a frame starts empty (`FreshFrame`). Of
  several sources the outcome of the first decides, and what runs is whatever the
  last one left, compiled or not (section 5).

## 2. Modules

```
GalachLexer                   token.c
  `-- GalachParser            ast.c
        `-- GalachFront       the two in gh_bytecode_src, and their properties
GalachGrammar                 reference: which tokens are a source, as which tree
GalachISA                     types, widths, instructions
  |-- GalachCodegen           bytecode.c
  |     |-- GalachVerify      what gh_bytecode_verify (bytecode.h:62) would check
  |     |-- GalachDisas       debug.c, gh_disas
  |     |-- GalachDriver      galach.c main(), gh_bytecode_src
  |     `-- GalachCodegenInv  inductive invariants, and from it the proofs:
  |           `-- GalachCodegenTypes -> GalachCodegenFrames
  |                 -> GalachCodegenBranches -> GalachCodegenAccesses
  |                      |-- GalachDriverProofs   (with GalachDriver)
  |                      `-- GalachVerifyProofs   (with GalachVerify, GalachDisas)
  |-- GalachWords             the accumulator's arithmetic
  |     |-- GalachAccumulator one instruction of it, and what it should leave
  |     `-- GalachVM          vm.c
  |           `-- GalachVMProofs   (with GalachAccumulator, GalachNaturals)
  `-- GalachEval              reference: what a source means
GalachNaturals                lemmas: induction and recursion over the naturals
GalachCalls                   abstract specification of calls and returns
GalachPipeline                GalachVerify + INSTANCE GalachVM, implements GalachCalls
  `-- GalachMeaning           the pipeline against GalachEval
MCFront, MCCodegen, MCPipeline, MCVM, MCWords, MCDriver      instances for TLC
```

`GalachGrammar` and `GalachEval` translate no code: they are what the code is
compared with, and are written differently from it on purpose.

### GalachLexer and GalachParser

`Lex` is `gh_token_init` on a source that is a string: `Scan` is its loop, with
the line and the start of the line it keeps. A token is its id (a keyword or an
operator is its own spelling), the value of an integer literal, line and column.
Letters are lower case; a character that is no part of any token stands for all
others the lexer refuses. Outside a string the model knows four blanks, inside it
ends at three control characters. `outcome` is `undefined` where the C reads
behind the terminating NUL (a string that ends in a backslash).

`Parse` is `gh_ast_init`: every handler is an operator from the parser's state to
the parser's state. The C's `EXPECT` is two operators, because
`EXPECT((*tidx)++, ...)` passes over the token it does not expect and
`EXPECT(*tidx, ...)` does not, which decides where parsing goes on when the
failure is not looked at. `Untested` marks the calls whose NULL is not looked at
(`ast.c:181, 209, 353, 381, 423, 458, 463`). `past` is set where the C goes on
behind the last token, which is undefined; nothing is claimed after it. A node is
its kind, one token that tells it from others, and its children, NULL included.

### GalachGrammar and GalachFront

`GalachGrammar` gives, for a span of tokens, the set of trees it is: a span is
split wherever it can be split. Operators have ranks instead of ten handlers.
Where the language is ambiguous without a rule (statements stand side by side
without a separator, an `if` after an `else`), the rule is stated there.

`GalachFront` writes a source piece by piece inside a frame (a *mode*), has it
tokenised and parsed - with either value of `is_optional`, a static that an
earlier source leaves behind (`found_opt`) - and states the five properties.
`HasLost` describes the gaps that a failure nobody looked at leaves in the tree.
`AcceptsNothingElse` claims every accepted tree without such a gap;
`LossesAreTold` is about those with one: outside the stretches in which
`is_optional` may be set, which it derives from the tokens alone, a gap has been
told, whatever was parsed before. Its one exception, a block without statements
(`HasEmpty`), TLC found: see section 5.

### GalachISA

`Instrs` are the instructions vm.h has opcodes for: an operation with one of the
widths it comes in (`WidthsOf`; none for an operation of one width). `ValidInstrs`
adds the operands each can have (`OperandsOf`): an immediate that fits its width,
an address that is not negative, one of the four system functions. The machine
runs any of `Instrs`, with any operand (`IsImage`); that the generator emits only
`ValidInstrs` is a theorem (`TypeCorrect`).

### GalachCodegen

The C recursion is an explicit stack `work`. An *item* is the rest of a handler
whose callee is running: `ifjmp` is `gh_emit_if` after its block, with the
address `iszero` in field `jz`; `endassgn` is `gh_emit_assgn` after its
expression; and so on. Each action is the stretch of a handler between two
calls, so it contains everything that stretch does.

| Code | Model |
|---|---|
| `bc->bytes` | `bytes`: a function from byte addresses to instructions, and `used`. Addresses are real: an instruction takes as many bytes as in vm.h |
| an operand written by moving `bc->bytes.used` | `Patch` |
| `gh_type *type`, in and out | an index (`cell`) into `types`; handlers that share a pointer share the index |
| `gh_local_list` chain | `scopes`, a sequence of sequences, outermost first |
| `found->emitted` | always true of a function that is found |
| `longjmp(compile_end)` | `Fail`: `status = "failed"` |
| the AST | not built: where a handler looks at its node, the action chooses the node among `Shapes`, names and literals. The behaviours are the compilations of every program the constants allow. Where the parser refuses an empty body the model has none; `budget` bounds the nodes |

Two flags of `Shapes` bound the inputs by meaning: `latercall` and `mixedassign`
admit sources for which the code is wrong (section 5). `funassign`,
`mainreturn`, `mainparams` and `recursion` admit assignments to functions,
`return` in main, parameters of main and recursive calls. Runs that must pass
have only the last, and the findings have the flag they are about. A passing
run therefore says: *apart from these, every source of this size is right.*

### GalachVerify

The header asks for a `gh_bytecode_verify`; this is what it would have to
establish. `Stacks` passes once over a function's body in the order its
instructions lie in: an operand stack is the number of bytes in use and the set
of places operands begin at (`[sp, starts]`), `Effect` what an instruction does
to it, `Bad` what is left when a pop does not find what was pushed for it. One
pass is enough because `OperandsBalanced` says that the stack is empty at both
ends of every branch.

### GalachVM

One action per group of opcodes. `sp` is `vm->stack.used`, `size` the allocation,
`mem` the bytes written so far. What C leaves undefined - reading what was never
written, writing outside the allocation, dividing by zero, fetching inside an
instruction, an offset whose sum with the access's width overflows, a system
function at the index the bound lets through - ends in `status = "undefined"`,
after which nothing is claimed; so where a property says `undefined` does not
happen, it has been shown not to. `fail` is `longjmp(fail_buf)`. `exhausted` is
the bound `MaxStack`. `out` are the integers printed: what each system function
makes of the bytes of its argument (`Printed`), which for `print8` is not the
signed value its parameter has.

Positions, addresses and the index of a system function are unsigned as in the C:
a position below zero wraps to one far outside the allocation (`BpPos`), a
negative jump address is past the end of the code (`InCode`), a negative index is
refused. `Spec` in `MCVM` starts from the images of its menu, `MachineSpec` from
any image at all (`IsImage`); an assumption of `MCVM` has TLC confirm that the
former are among the latter.

`GalachWords` has the arithmetic with a byte of `ByteBits` bits. C's promotion
of narrow operands to `int` is modelled: the accumulator may hold copies of a
sign above the operand's width. `GalachAccumulator` applies one operator to operands
of its width and states what the low bytes, the low bits and the bytes above are.

### GalachPipeline and GalachCalls

The generator's final state is the machine's image (`INSTANCE GalachVM WITH img
<- Image`). `Frames` reads the calls in progress off the stack's bytes: return
addresses and saved base pointers, chained by base pointers, with the two
moments between `CALL` and `ENTER` and between `LEAVE` and `RET` told apart by
the instruction about to run. Under this refinement mapping the pipeline
implements `GalachCalls!Spec`: only a call adds a frame, only a return removes
one, it goes back right after its call, and nothing in between changes any.

The history variable `src` lists the nodes the generator's actions have chosen
(`Choose`), in the order they were.

### GalachEval and GalachMeaning

`GalachEval` carries out the source that `src` lists: variables in nested blocks
hold integers, a call is a recursion, an expression is evaluated for the type its
context wants and cut to its width, a print is the integer printed. No address,
stack or instruction appears. `DoesWhatItSays` compares, when the machine has
reached its `EXIT`: the sequence printed (`out`), and the accumulator with the
value of the expression evaluated last. Where a source uses a value nothing
defines - that of a print, or of a function that returned without one - the
evaluation is `undefined` and nothing is claimed. The evaluator compares as signed
integers; the instances have signed types only, since the machine compares
unsigned operands as signed too. Two things the property says are not so in the
code (section 5): `print8` of a negative number, which `viol_print` shows, and a
negative result where a wider type is wanted. The passing runs print with
`print16`, and the functions they call return an `i16`.

### GalachDisas

`Listing` walks over the bytes of a function as `gh_disas_func` does, one `Line`
after the other, stepping by `Shown`, its own table of operand lengths, and gives
up where an operand is cut off by the function's end. Of a line only the address
is modelled.

### GalachDriver

`main()` for any sequence of options and sources. `StartSource` sets afresh what
`gh_init_code` and the locals of `gh_bytecode_compile` set afresh and leaves
`offset_counter`, `fun_ret_type`, `main_idx` and `compile_success`, which are
statics or live in the one `gh_bytecode`. A source may also be unreadable
(an immediate -1) or unparsable (not compiled; `compile_success` decides).

## 3. Runs

| Run | Checks | Instance |
|---|---|---|
| `front` | `TokensAreTheSource`, `RefusesNoSource`, `AcceptsTheGrammar`, `AcceptsNothingElse`, `LossesAreTold` | seven modes: 4 characters of 13; 5 pieces of 7 as expressions; 5 of 6 as arguments of a call; 4 pieces of 10 as statements; 4 of 9 as nested statements with two of them left open; 4 of 7 as declarations behind a function whose body assigns; 5 of 6 as gaps, assignments and returns over up to six functions. Both values of `is_optional` |
| `pipe_calls` | `TypeOK`, `ListsTheCode`, `RunsClean`, `DoesWhatItSays`, `StackLevel`, `CallDiscipline`, `Terminates` | f (with up to two parameters of 1 and 2 bytes, and one refused) and main, calls in arguments and conditions, prints, branches, returns, recursion, no loops, 6 nodes, stack bound 192 |
| `pipe_frames` | `OperandsBalanced`, `RunsClean`, `DoesWhatItSays`, `SlotsDisjoint`, `AccessesInFrame` | f and main, up to two parameters of 1 and 2 bytes, variables of 1 and 4 bytes under one name, initialised or not, blocks, assignments, differences, returns, calls without recursion, 5 nodes |
| `pipe_loops` | `OperandsBalanced`, `RunsClean`, `DoesWhatItSays`, `StackLevel`, `JumpsLand` | main with a byte variable, loops around if / else if / else, blocks, shadowing, prints and subtractions, 9 nodes; match, which emits nothing |
| `vm_wild` | `AboveBottom`, `StackKept` | every program of at most 4 of 23 instructions, one whose base pointer comes from memory, two with an offset out of range, and an image without main |
| `words` | `LowBytesExact`, `LowBitsExact`, `HighBytesExtend` | 1-bit bytes: every operator, width and operand pair; at width 8 the 13 operands around the powers of two |
| `drive` | `RunsOnlyCompiled`, `EntersMain`, `FreshFrame`, `AccessesInFrame` | up to three sources among options, each of variables, literals, an operator and assignments that compile or are refused half-way |
| `viol_*` | one finding each | section 5 |

**Bounds.** `MaxNodes` bounds the program; a statement is paid for together with
the nodes below it that it cannot be without, so that no choice leads to a program
that cannot be finished. The sizes are what TLC finishes in a few minutes. 9
nodes hold a branch in a branch in a loop, a loop in a loop, a branch with its
else in a loop, an if with its else if, or a variable and a loop that counts it
down; 5 nodes hold an operator over a call in an argument of a call, or a variable
after a block that shadowed it; 6 nodes hold a function that calls itself or
returns in a branch and a main that calls it. `MaxArgs` is 2 where there are
calls: of two parameters of different widths, one taken for the other has the
wrong bytes, which the 6 nodes of `pipe_calls` show (a return of a parameter, a
call with two values).
Two functions are enough for a wrong reset between them and, without `latercall`,
for every call. A byte has 4 values (2 bits), which makes offsets and addresses of
the images representable in the 8-byte words that hold links while keeping loops
short; word sizes in bytes are the code's, so layouts and addresses are exact.
`MaxStack` is three blocks in `pipe_calls`, two in the others. `BlockSize` is the
code's 64. `MaxPrints` (4) bounds what is printed before the machine counts as
exhausted, `MaxSteps` (60) the statements the evaluator carries out; a program
that reaches its `EXIT` in these runs needs fewer.

In `front`, `IntCap` (64, for the 2^64 of `u64`) lets three digits wrap;
`MaxLexeme` (6) is the longest lexeme of the modes' sources. The frames put the
pieces where they matter: five pieces in an expression hold an assignment of an
operation or two operators of different rank on either side, in an argument list
two or three arguments, a trailing comma or a call in a call, and every one of
them broken off or mismatched; four pieces among statements hold a chain of two
else branches or a branch in a loop; four pieces of a declaration hold a function
of two parameters, and five of the gaps an assignment, a function whose return
clears what it left and one with a gap behind it. Three sources are what it takes
for a counter left behind by the second to reach the code of the third.

`pipe_frames` has no recursion: frames that hold variables, nested deep enough,
outgrow the stack's allocation (`viol_growth`), which would be all the run
shows. In `pipe_calls`, whose frames hold none, every growth is by a push, and
the stack does grow there from one block to three.

**Fairness.** The process is one thread that never waits. `Spec` of the generator
has weak fairness of its next step, `PipelineSpec` weak fairness of each part's
next step: each is the only thing the process can do while enabled, so it is
done. `Terminates` uses it; the safety properties do not. The driver and the
machine alone have no fairness and no liveness property.

Every run checks for deadlock: the models say explicitly where the program has
ended (`Compiled`, `Stopped`, `Over`, `Halted`).

Each property of a passing run has a mutant in the module it is about (comments
`Mutant:`): a plausible slip in the code which makes TLC find the property
violated under the same configuration.

## 4. Proofs

The theorems below hold for every value of the constants, under the assumptions
the modules state of them: a byte has more than one value (`ByteAssumption`) and
as many as its bits allow (`BitsAssumption`), names and literals are of the right
kinds (`SourceAssumption`), the first allocation holds a word
(`StackAssumption`), the bound on sources is a number (`DriverAssumption`).

| Theorem | Property | Beyond those assumptions |
|---|---|---|
| `FramesDisjoint` (`GalachCodegenFrames`) | `SlotsDisjoint` | |
| `JumpsInside` (`GalachCodegenBranches`) | `JumpsLand` | |
| `AccessesStayInside` (`GalachCodegenAccesses`) | `AccessesInFrame` | `OrdinarySource` |
| `ListingIsTheCode` (`GalachVerifyProofs`) | `ListsTheCode` | |
| `TypeCorrect` (`GalachVerifyProofs`) | `TypeOK` | |
| `OperandsAreBalanced` (`GalachVerifyProofs`) | `OperandsBalanced` | |
| `MachineAboveBottom` (`GalachVMProofs`) | `AboveBottom` | `BitsClosed` |
| `MachineKeepsStack` (`GalachVMProofs`) | `StackKept` | `BitsClosed` |
| `LowBytesAreExact` (`GalachVMProofs`) | `LowBytesExact` | |
| `HighBytesAreExtended` (`GalachVMProofs`) | `HighBytesExtend` | `BitsFit` |
| `LowBitsAreExact` (`GalachVMProofs`) | `LowBitsExact` | `BitsFit`, `BitsAre` |
| `OnlyCompiledRuns` (`GalachDriverProofs`) | `RunsOnlyCompiled` | |
| `FramesStartEmpty` (`GalachDriverProofs`) | `FreshFrame` | |
| `EntersTheMain` (`GalachDriverProofs`) | `EntersMain` | |
| `DriverFramesDisjoint`, `DriverJumpsInside`, `DriverAccessesStayInside` | as in one source | `OrdinarySource` for the last |

`OrdinarySource` says that the sources have neither an assignment in a context
that wants another width than the variable's nor one to a function's name. The
code is wrong for both (section 5; without the first half `viol_frame` is a
counterexample), so the theorem says that nothing else makes an access leave its
frame. `BitsClosed` says that C's `&`, `|` and `^`, parameters of the module, take
naturals to naturals, `BitsFit` that they take words to words of the same width,
`BitsAre` that each is the set operation on bits C says it is; TLC confirms the
latter two of the operators in `words`. The operands in
`GalachAccumulator` are any words (`OperandsAssumption`), and the byte may have
the code's 8 bits, which TLC cannot enumerate.

**The generator.** None of its properties is inductive; each is proved from a
strengthening in `GalachCodegenInv`, and each of these from the ones before. All
ask no more of a start than `Afresh`, which is what `Init` and `StartSource` have
in common: the statics may hold what an earlier source left there.

* `Shape`. That `Top.cell` is an index of `types`, or that `Last(funs)` exists when
  a function ends, depends on *which* handlers are on the stack:
  `gh_bytecode_compile` at the bottom, then the function being emitted, then
  statement and expression handlers whose cells and scopes exist (`Handlers`); as
  many lists of locals as handlers hold (`Nesting`); a function's entry in `funs`
  once its prologue is out (`Emitted`). `StateTypes /\ Shape` is inductive: one lemma
  per action, over lemmas about emitting, patching, popping an item and replacing
  it by up to four. `StateTypes` are the types of the variables; `SourceTypes` is
  that without `main_idx`, for which it fails behind a second source
  (`viol_main_idx`).
* `Layout`. No variable is global; every variable is a parameter, at 16 or above,
  or lies between `offset_counter` and 0; any two are apart in their offsets; while
  parameters are read, those read lie below the next one's offset. Only four
  actions move locals or the counter (`EndVar`, `DeclareFun`, `AddParam`, `EndFun`)
  and one (`EndScope`) drops locals; the rest leave the layout alone, which is
  where `Shape` is needed. `LayoutDisjoint` gets from offsets to sets of bytes.
* `Branches`. The functions that are complete lie below the open one and are
  `Sealed`: no step writes there any more (`Frozen`). In the open one, a jump
  either goes to an instruction of the body already (or to the next one to be
  emitted, `Lands`), or some handler on the stack still has its address
  (`Waits`): `Landed`. What handlers have to patch are jumps, and what they will
  patch them with is a place that `Lands`: `Handled`. No patch can hit an operand
  or the code of another function. When `EndFun` closes the function no handler
  waits, and emits behind the last target, so every jump is inside.
* `Reached` and `Assigned`. `AccessesInFrame` speaks of the size in the prologue,
  which is patched last; before that the frame is what `offset_counter` says,
  which only goes down. Every access of the open function is at a parameter or at
  a slot laid out (`Reached`), and so will be the store of every assignment whose
  value is being computed: its width is the type in a cell that has the variable's
  type when the assignment begins, and a cell that has a type other than unit
  keeps it (`Assigned`). That last fact fails for mixed widths, which is
  `viol_frame`.

**The listing.** `ListsTheCode` is about complete functions; the invariant behind
it, `Packed`, is about the bytes: what has been emitted is one instruction after
the other, each behind the bytes of the one before, from where the function begins
to `used`, and every complete function is `Tiled` in the same way. Every emitter
keeps that (`EmitPacked`), patches change operands and no lengths. On tiled
bytes the disassembler's loop visits the instructions in their order
(`ListingShows`), because its table says of every instruction the generator emits
what the generator's says; the number of rounds is the function's bytes, so the
induction is over those (`Recursion`). That a program which is done has no open
function (`Finished`) brings the two together.

**The operands.** `OperandsBalanced` speaks of complete functions and one pass
over their code; while a function is being emitted, the operands pushed so far are
owed by the handlers on the generator's stack. The invariant `Evened` adds to the
generator's:

* `Operands`. Between any two handlers there is a stack of operands (`Held`), the
  innermost of them the one behind the code emitted so far. What a handler finds
  when the ones above it are through and what it has to leave are related by
  `Carries`: nothing changes, but `endbin` and `endassgn` have one operand more to
  pop, of the width of the type in their cell, and the handlers of a call the
  arguments pushed so far, as many bytes as its `ADD_SP` will drop (`Pushing`).
  Statements run on the empty stack.
* `Targets`. The stack is empty wherever a jump of the open function goes, and in
  front of every place some handler will patch one to go to.
* `Callables`. A name that can be called has no parameter of type unit, and a
  system function one parameter, as wide as the machine reads it.
* `AllBalanced`. A complete function is balanced, and stays so, because no step
  writes there (`CompleteCode`).

A step only touches the handler on top, replaces it by others and emits behind
the code (`Taken`, `Turn`), so there is one lemma per action about the top of the
stack only: expressions keep what their handler has to leave (`ExpressionTaken`),
statements leave nothing (`ClearedTaken`). What they rest on are the lemmas about
the simulation: code that is appended acts on the stack behind the code before it
(`EmitStack`), a patched operand changes no stack (`SameStacks`), popping what was
pushed gives the stack from before (`PopEffect`, `ArgumentsDrop`). Between a push
and its pop a cell keeps its type because no handler changes one that is not unit
(`Typed`). No assumption on sources is needed: neither of the two errors
`OrdinarySource` excludes unbalances the stack.

**The instructions.** The other half of `TypeOK` is `Coded`: what is emitted is one
of `ValidInstrs`. `OP_MULTI` and its kin add the index of a size to an opcode
without a look at the size, so for an operator, a push or a store this says that
the type it is emitted for is not unit (which has no width), and that only comes
from the handlers: a condition of type unit is refused, an operand that was pushed had a
type and its cell keeps it (`Operands`, through `Carries`), parameters are of no
type unit (`Callables`). A cast extends from 1, 2 or 4 bytes only since it goes to a
wider type. A literal is cut to its width, a call's operand is the offset of what
it names, the index of a system function is one of four, and every operand
patched later is a position in the code or the size of a frame. So `Coded` is
proved last, from `Evened`.

**The machine.** `MachineSpec` starts on any image. The invariant `Sane` says that
registers are numbers, `sp`, `bp` and every address written are not negative and
memory holds bytes; the last is needed because `LEAVE` takes a base pointer from
memory. The lemmas below it are about the arithmetic: every operator yields an
integer, every word read from memory is a natural. Words are read by a
recursive function and powers of two are one, so these need induction.
`GalachNaturals` has it: `Induction` and `Recursion` (a first value and a step
define a function on the naturals) are stated for sets and functions instead of
operators and proved from the well-foundedness of `<`, so that they can be used
where the library's induction theorems cannot.

**The accumulator.** An operator's value goes through promotions, truncations and
sign extensions before it is in the register. Each changes it by a multiple of the
narrower width (`SameLow`, `SignedLow`, `ResultLow`), because every width divides
every greater one (`Multiple`), so the low bytes are those of the operator's value,
and these those of its meaning (`TimesLow` for the product in two halves,
`QuotientIs` for division, where the reference says what rounding down means).
The bits of `LowBitsExact` are digits, and a digit of a number shifted, cut or
subtracted from all ones is a digit of the number or its opposite (`DigitShift`,
`DigitDrop`, `DigitCut`, `DigitFlip`), by `TwoTo[m + n] = TwoTo[m] * TwoTo[n]`.
What is above them is decided by the last extension alone (`Extended`,
`ResultHigh`); that half of int is half of its patterns needs bytes to be even,
which comes from `BitsAssumption` - a byte of more than one value has a bit. The
provers do not divide by a variable; the lemmas reduce `\div` and `%` to products
once (`Division`, `Remainder`).

**The driver.** `Base`, the generator's invariants, is kept by every step of the
driver, since a step compiles, starts afresh or leaves all of it alone
(`DriverMoves`); this is why the three properties of the code hold of later
sources too. Three more are about what outlives a source:

* `Chosen`: `compile_success` is the outcome of the first source, which is why
  only that one decides.
* `Emptied`: unless a source behind the first was given up, `offset_counter` is 0
  whenever no function is being emitted.
* `Named` and `Entering`: there are as many functions in scope, behind the system
  functions, as in `funs`, and the one whose parameters are being read; the handler
  at the bottom of the stack has the name of the last; and `main_idx` is 0 or the
  place of a `main` among them. A source that compiled has one.

TLC has checked each of these strengthenings as an invariant of the driver's
instance (`drive`), those of the generator on its other instances too, and those
of `Evened` on one with nested calls and parameters of 1 and 4 bytes: of
`Operands`, which has stacks of any size, with the stacks taken from the one
behind the code, of which all the others are parts.

**Only model-checked:**

* `Terminates` - liveness, out of the prover's reach.
* `RunsClean`, `StackLevel`, `CallDiscipline`, `DoesWhatItSays` - of generator and
  machine together. They need that at every instruction the stack is the frame and
  the operands `OperandsBalanced` simulates; `JumpsInside`, `AccessesStayInside`,
  `OperandsAreBalanced` and `MachineKeepsStack` are the parts of that argument that
  are proved. What is missing is that a step of the machine does to its stack what
  `Effect` does to the simulated one. That is not true of every source, so a theorem
  would carry as hypotheses what the instances have: the function that is called is
  the one at address 0 (`viol_call`), locals are defined before they are read, no
  divisor is zero, and the frames fit the first allocation of the stack.
* the five of the front end - their modules are written with RECURSIVE operators,
  as the parser is, and the prover has no SMT backend there.

## 5. Findings

Each is a run whose single property quotes the repository and is violated.

* `viol_call` - a call is emitted with address 0 whatever it names
  (`bytecode.c:433`; `vm.h:244` "Call a function at this address").
* `viol_frame` - an assignment stores at the context's width
  (`bytecode.c:567`), over the links (`bytecode.c:613-615`).
* `viol_growth` - `ADD_SP` moves the stack pointer beyond the allocation
  (`vm.c:278`; "places the variable on the stack", `bytecode.c:613`).
* `viol_print` - `print8` takes an i8 (`bytecode.c:300`) and prints it without its
  sign (`vm.c:341`), unlike the other three.
* `viol_main_idx` - `main_idx` outlives the `funs` it indexes (`bytecode.c:870`;
  `bytecode.h:26` "idx into funs").

Noted without a run, because no line of the repository claims the opposite:

* **lexer** - a word that begins with a keyword is that keyword and whatever
  follows in it is dropped (`token.c:130`: `endpoint` is `end`);
  `TokensAreTheSource` excludes such words. Integer literals wrap at 64 bits. A
  string whose last character is a backslash is read behind its end.
* **parser** - failures that are not looked at: arguments that do not parse make a
  call a plain name, a unary operator may be left without its operand, a match
  without its expression, a function without its parameters or its body. In most
  places a message is printed, but the program is compiled; after an assignment,
  where `is_optional` stays set (`ast.c:269`), and behind a `return`'s expression
  not even that (`LossesAreTold` has the rule). A block, branch or loop without
  statements is a failure too, and one that has no message at all: of `fun f() ->
  i8 begin x begin end end` the whole body is dropped in silence, since the NULL
  of the empty block (`ast.c:408`) is taken for an error and that of the body
  (`ast.c:463`) for an empty body. A failure at the EOF goes on behind it
  (`past`). The trees with a gap are the ones `AcceptsNothingElse` excludes
  (`HasLost`); the generator walks their NULL children.
* **generator** - a `return` in main leaves a frame nobody called
  (`bytecode.c:751`); the result of a call is not cast to what the context wants
  (`bytecode.c:397`; a variable's value is, 454), so where an i16 is wanted an i8
  below zero comes out positive, of which `DoesWhatItSays` would not hold; an
  assignment to a function's name is accepted; a trailing comma in a call writes
  one element behind `clist_copy` (`bytecode.c:414`).
* **machine** - unsigned operands are compared as signed.
* **driver** - of several sources only the last one's functions are left
  (`bytecode.c:171`); `compile_success` is never set back, so a later source that
  fails is not reported ("failed to compile", `bytecode.c:893`), does not stop
  `main()`, and what was emitted of it is run; a source given up half-way leaves
  `offset_counter`, so the next one's first frame is larger than it need be - and
  no more than that: `drive` checks `AccessesInFrame` there.
* **disassembler** - `mov_imm`'s 64-bit operand goes to stderr whatever stream the
  listing goes to (`debug.c:385`).

## 6. Not modelled

Floating point beyond the widths and images of literals (the code refuses its
arithmetic); the contents of strings and the spelling of names; upper-case
letters; memory and file management (a failed allocation exits or is an error at
once; `gh_ast_deinit` and the other destructors); messages, other than that one is
told; the printing of tokens, trees and operands. The content of memory after a
read of something never written is not modelled: the run stops there as
`undefined`. The trees the parser builds are not handed to the generator: its
model chooses its nodes itself, which reaches many more programs than the
characters of a source would within the same bounds. What it takes over from the
parser - bodies of if, while and begin are not empty, an else is last or followed
by more - is what `AcceptsNothingElse` shows of trees without a gap.

## 7. Plan

Done, in this order: ISA, generator, verifier, words, machine, calls, pipeline,
driver; the meaning of sources (`GalachEval`), lexer, parser and grammar,
disassembler, three sources; the proofs of section 4. Next: that each step of the
machine maps to a step of `GalachCalls` or a stutter, given `StackLevel` and that
stores stay in their frames.

Two extensions of the models remain: the machine on the image of several sources
(today `RunMachine` is one step of the driver), and unsigned types in `GalachEval`.
