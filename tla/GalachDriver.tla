---------------------------- MODULE GalachDriver ----------------------------
(***************************************************************************)
(* main() of galach.c and gh_bytecode_src of bytecode.c around the code    *)
(* generator: the arguments are taken one by one, an option is noted, a    *)
(* source is read, parsed and compiled; then the machine is run.           *)
(*                                                                         *)
(* What outlives one source is what C keeps in statics and in the one      *)
(* gh_bytecode of the run: compile_success, offset_counter, fun_ret_type,  *)
(* main_idx with main_defined.  A compilation starts on the rest afresh.   *)
(***************************************************************************)
EXTENDS GalachCodegen

CONSTANT MaxSources   \* bound: sources on the command line

ASSUME DriverAssumption == MaxSources \in Nat

VARIABLES
    at,              \* "args", "source" while one is compiled, "options", or how
                     \* main() ended: "ran", "refused" (-1) or "usage"
    nsources,
    opt_disas,
    compile_success, \* a static: nothing sets it back
    disassembled,
    history          \* of each source read, whether it compiled

drivervars == <<at, nsources, opt_disas, compile_success, disassembled, history>>
allvars    == <<vars, drivervars>>

-----------------------------------------------------------------------------
Option ==
    /\ at = "args"
    /\ opt_disas' = TRUE
    /\ UNCHANGED <<vars, at, nsources, compile_success, disassembled, history>>

UnknownOption ==
    /\ at = "args"
    /\ at' = "usage"
    /\ UNCHANGED <<vars, nsources, opt_disas, compile_success, disassembled, history>>

\* gh_bytecode_src, when the file cannot be read: it fails at once ...
Unreadable ==
    /\ at = "args"
    /\ nsources < MaxSources
    /\ nsources' = nsources + 1
    /\ at' = "refused"
    /\ UNCHANGED <<vars, opt_disas, compile_success, disassembled, history>>

\* Mutant: main() does not look at what gh_bytecode_src returned.
ReturnedIgnored(ok) ==
    /\ at' = "args"
    /\ history' = Append(history, ok)
    /\ UNCHANGED <<opt_disas, disassembled>>

\* ... and where it returns at the end, what it has compiled or not is told by
\* compile_success.
Returned(ok) ==
    /\ at' = IF compile_success' THEN "args" ELSE "refused"
    /\ history' = Append(history, ok)
    /\ UNCHANGED <<opt_disas, disassembled>>

\* A source that is no sequence of tokens or does not parse is not compiled.
Unparsable ==
    /\ at = "args"
    /\ nsources < MaxSources
    /\ nsources' = nsources + 1
    /\ UNCHANGED <<vars, compile_success>>
    /\ Returned(FALSE)

\* gh_init_code and the head of gh_bytecode_compile.
StartSource ==
    /\ at = "args"
    /\ nsources < MaxSources
    /\ nsources' = nsources + 1
    /\ at' = "source"
    /\ bytes' = [code |-> <<>>, used |-> 0]
    /\ funs' = <<>>
    /\ scopes' = <<SysFuns>>
    /\ types' = <<>>
    /\ work' = <<Item("decls")>>
    /\ budget' = MaxNodes
    /\ status' = "compiling"
    /\ UNCHANGED <<main_idx, offset_counter, fun_ret_type, opt_disas, compile_success,
                   disassembled, history>>

CompileSource ==
    /\ at = "source"
    /\ Declaration \/ Statement \/ Expression
    /\ UNCHANGED drivervars

EndSource ==
    /\ at = "source"
    /\ status # "compiling"
    /\ compile_success' = (compile_success \/ status = "done")
    /\ Returned(status = "done")
    /\ UNCHANGED <<vars, nsources>>

\* The arguments are used up.
EndArgs ==
    /\ at = "args"
    /\ at' = IF nsources = 0 THEN "usage" ELSE "options"
    /\ UNCHANGED <<vars, nsources, opt_disas, compile_success, disassembled, history>>

RunMachine ==
    /\ at = "options"
    /\ disassembled' = opt_disas
    /\ at' = "ran"
    /\ UNCHANGED <<vars, nsources, opt_disas, compile_success, history>>

Halted == at \in {"ran", "refused", "usage"} /\ UNCHANGED allvars

DriverInit ==
    /\ Init
    /\ at = "args"
    /\ nsources = 0
    /\ opt_disas = FALSE
    /\ compile_success = FALSE
    /\ disassembled = FALSE
    /\ history = <<>>

DriverStep == \/ Option \/ UnknownOption \/ Unreadable \/ Unparsable \/ StartSource
              \/ CompileSource \/ EndSource \/ EndArgs \/ RunMachine

DriverSpec == DriverInit /\ [][DriverStep \/ Halted]_allvars

-----------------------------------------------------------------------------
(* Properties.                                                             *)

\* Nothing runs unless the first source compiled, and -1 is returned only after
\* a source that did not: whatever options stand between them.
RunsOnlyCompiled ==
    /\ at = "ran" => history # <<>> /\ history[1]
    /\ at = "refused" => nsources > Len(history) \/ ~history[1]

\* Of one source, what the machine enters is the function the source calls main.
EntersMain ==
    at = "ran" /\ Len(history) = 1 =>
        /\ main_idx \in 1..Len(funs)
        /\ scopes[1][Len(SysFuns) + main_idx].name = "main"

\* A frame starts empty: no function's locals are laid out on top of those of
\* a function before it, unless a source behind one that compiled was given up
\* half-way, which leaves the counter where it was.
FreshFrame ==
    status = "compiling" /\ Top.step \in {"decls", "params"} =>
        offset_counter = 0 \/ \E k \in 2..Len(history) : ~history[k]

\* "main_idx; // idx into funs" (bytecode.h), when the machine reads it.
MainIdxInFuns == at = "ran" => main_idx \in 1..Len(funs)

=============================================================================
