------------------------------ MODULE NncDriver ------------------------------
(***************************************************************************)
(* The driver of the compiler (src/src/nnc_main.c, with nnc_error.c and    *)
(* the file operations of nnc_blob.c): every source is parsed, resolved    *)
(* and generated statement by statement and written as an assembler file;  *)
(* then `as' runs on every one, `ld' once, and the intermediate files are  *)
(* removed.  Errors are counted in glob_canarie and looked at between the  *)
(* phases; a fatal one ends in nnc_abort.                                  *)
(*                                                                         *)
(* The outcome of the phases is an input: which statement fails to parse   *)
(* or resolve, whether a file can be created or written, what the          *)
(* assembler and the linker return.  `as' and `ld' are external.           *)
(***************************************************************************)
EXTENDS Integers, FiniteSets

CONSTANTS NSources,   \* sources on the command line
          NStmts,     \* top-level statements of a source
          MaxErrors   \* bound on glob_canarie

ASSUME SourcesAssumption == NSources \in Nat \ {0} /\ NStmts \in Nat \ {0}
ASSUME ErrorsAssumption  == MaxErrors \in Nat \ {0}

Flags == [help : BOOLEAN, compile : BOOLEAN, gen_debug : BOOLEAN,
          ir : BOOLEAN, ast : BOOLEAN]

VARIABLES argv,      \* the flags of glob_argv the driver looks at
          pc,        \* the phase under way
          source,    \* index of the source under way
          stmt,      \* index of the statement under way
          canarie,   \* glob_canarie
          generated, \* statements of this source whose code is in glob_asm_file
          errno,     \* is errno different from zero?
          files,     \* the file system: what each file holds
          status,    \* exit status, or "running"
          cause      \* ghost: why the process was aborted

vars == <<argv, pc, source, stmt, canarie, generated, errno, files, status, cause>>

Sources == 1 .. NSources
Out == <<0, "out">>
DotS(i) == <<i, "s">>
DotO(i) == <<i, "o">>
Dump(i, kind) == <<i, kind>>
FileNames == {Out} \cup {<<i, ext>> : i \in Sources, ext \in {"s", "o", "ir", "ast"}}

(* "old" was there before this run; "empty" was created by nnc_create_file; *)
(* "asm", "obj", "exe" and "dump" are what the phases of this run wrote.    *)
Contents == {"absent", "old", "empty", "asm", "obj", "exe", "dump"}

(* main: nnc_reset_canarie and the parsed command line. *)
Init ==
  /\ argv \in Flags
  /\ pc = "start" /\ source = 1 /\ stmt = 1
  /\ canarie = 0 /\ generated = {} /\ errno = FALSE
  /\ files \in {[f \in FileNames |-> c] : c \in {"absent", "old"}}
  /\ status = "running" /\ cause = "none"

position == <<source, stmt, generated>>

(* nnc_abort: nnc_error counts, the arena is finalized, exit(EXIT_FAILURE). *)
Abort(why) ==
  /\ canarie' = canarie + 1
  /\ status' = "failure" /\ pc' = "exit" /\ cause' = why
  /\ UNCHANGED position

Continue(at) == pc' = at /\ UNCHANGED <<status, cause>>

(* Mutants: nnc_check_for_errors does not abort, or does not look. *)
CheckForErrors_Resets(at) ==
  Continue(at) /\ canarie' = 0 /\ UNCHANGED position
CheckForErrors_NoReset(at) ==
  IF canarie > 1
  THEN Abort("errors")
  ELSE Continue(at) /\ UNCHANGED <<canarie, position>>

(* nnc_check_for_errors; `at' is where it returns to. *)
CheckForErrors(at) ==
  IF canarie # 0
  THEN Abort("errors")
  ELSE Continue(at) /\ canarie' = 0 /\ UNCHANGED position

Running == status = "running"
-----------------------------------------------------------------------------
(* nnc_main up to the first source: --help prints the usage and exits. *)
Start ==
  /\ Running /\ pc = "start"
  /\ IF argv.help
     THEN status' = "success" /\ pc' = "exit" /\ UNCHANGED cause
     ELSE Continue("pass1")
  /\ UNCHANGED <<argv, position, canarie, errno, files>>

(* nnc_compile_pass1: nnc_check_for_errors (a no-op here), then nnc_parse.  *)
(* The lexer reports its errors and goes on; strtod leaves errno set on a   *)
(* literal out of range, nnc_int_new clears it.                             *)
Parse ==
  /\ Running /\ pc = "pass1"
  /\ generated' = {}
  /\ canarie' \in canarie .. MaxErrors
  /\ errno' \in BOOLEAN
  /\ Continue("parsed")
  /\ UNCHANGED <<argv, source, stmt, files>>

(* A syntax error, or a source that cannot be opened, is thrown out of      *)
(* nnc_compile into the handler of nnc_main, which reports it.              *)
ParseThrows ==
  /\ Running /\ pc = "pass1"
  /\ canarie' \in canarie + 1 .. MaxErrors
  /\ Continue("check")
  /\ UNCHANGED <<argv, position, errno, files>>

(* The second nnc_check_for_errors of pass 1. *)
Parsed ==
  /\ Running /\ pc = "parsed"
  /\ CheckForErrors("pass2")
  /\ UNCHANGED <<argv, errno, files>>

(* Mutant: the loop runs one statement too far. *)
Statement_OneTooFar ==
  /\ Running /\ pc = "pass2" /\ stmt =< NStmts + 1
  /\ canarie' \in canarie .. MaxErrors
  /\ generated' = IF canarie' = 0 THEN generated \cup {stmt} ELSE generated
  /\ stmt' = stmt + 1
  /\ UNCHANGED <<argv, pc, source, errno, files, status, cause>>

(* One iteration of nnc_compile_pass2: the statement is resolved (its       *)
(* errors are reported by the handlers) and, if no error was counted so     *)
(* far, generated.                                                          *)
Statement ==
  /\ Running /\ pc = "pass2" /\ stmt =< NStmts
  /\ canarie' \in canarie .. MaxErrors
  /\ generated' = IF canarie' = 0 THEN generated \cup {stmt} ELSE generated
  /\ stmt' = stmt + 1
  /\ UNCHANGED <<argv, pc, source, errno, files, status, cause>>

(* The resolver does not come back from a statement: nnc_unalias goes round *)
(* a name that renames itself (type a_t as a_t), and a walk down a          *)
(* declaration that contains itself overruns the stack (NncTypes!Returns    *)
(* says of which).                                                          *)
StatementNeverReturns ==
  /\ Running /\ pc = "pass2" /\ stmt =< NStmts
  /\ \/ pc' = "looping" /\ UNCHANGED status
     \/ pc' = "exit" /\ status' = "killed"
  /\ UNCHANGED <<argv, position, canarie, errno, files, cause>>

(* A phase gives up at once: an unknown option, an expression nnc_evald     *)
(* cannot evaluate, or memory that ran out calls nnc_abort.                 *)
PhaseAborts ==
  /\ Running
  /\ pc \in {"start", "pass1"} \/ (pc = "pass2" /\ stmt =< NStmts)
  /\ Abort("internal")
  /\ UNCHANGED <<argv, errno, files>>

(* The end of pass 2. *)
Resolved ==
  /\ Running /\ pc = "pass2" /\ stmt > NStmts
  /\ CheckForErrors("create")
  /\ UNCHANGED <<argv, errno, files>>

(* nnc_create_file("<source>.s") *)
CreateDotS ==
  /\ Running /\ pc = "create"
  /\ \/ /\ files' = [files EXCEPT ![DotS(source)] = "empty"]
        /\ Continue("write")
        /\ UNCHANGED <<position, canarie, errno>>
     \/ /\ Abort("create") /\ errno' = TRUE /\ UNCHANGED files
  /\ UNCHANGED argv

(* nnc_write_blob: a blob that is written in full is still refused when     *)
(* errno is set, and nothing in between has cleared it.                     *)
WriteDotS ==
  /\ Running /\ pc = "write"
  /\ \/ /\ files' = [files EXCEPT ![DotS(source)] = "asm"]
        /\ IF errno
           THEN Abort("stale errno")
           ELSE Continue("dump ir") /\ UNCHANGED <<position, canarie>>
        /\ UNCHANGED errno
     \/ /\ Abort("write") /\ errno' = TRUE /\ UNCHANGED files
  /\ UNCHANGED argv

(* Mutants: -c is ignored; the loop never advances. *)
NextSource_IgnoresCompile ==
  IF source < NSources
  THEN source' = source + 1 /\ stmt' = 1 /\ Continue("pass1")
  ELSE UNCHANGED <<source, stmt>> /\ Continue("output")
NextSource_Same ==
  stmt' = 1 /\ UNCHANGED source /\ Continue("pass1")

(* The loop of nnc_compile after a source: the next one, or the end. *)
NextSource ==
  IF source < NSources
  THEN source' = source + 1 /\ stmt' = 1 /\ Continue("pass1")
  ELSE UNCHANGED <<source, stmt>> /\ Continue(IF argv.compile THEN "check" ELSE "output")

(* --dump-ir and --dump-ast: nnc_create_file2 and the dump. *)
DumpIr ==
  /\ Running /\ pc = "dump ir"
  /\ \/ /\ files' = IF argv.ir THEN [files EXCEPT ![Dump(source, "ir")] = "dump"] ELSE files
        /\ Continue("dump ast")
        /\ UNCHANGED <<position, canarie, errno>>
     \/ /\ argv.ir
        /\ Abort("create") /\ errno' = TRUE /\ UNCHANGED files
  /\ UNCHANGED argv

DumpAst ==
  /\ Running /\ pc = "dump ast"
  /\ \/ /\ files' = IF argv.ast THEN [files EXCEPT ![Dump(source, "ast")] = "dump"] ELSE files
        /\ NextSource
        /\ UNCHANGED <<generated, canarie, errno>>
     \/ /\ argv.ast
        /\ Abort("create") /\ errno' = TRUE /\ UNCHANGED files
  /\ UNCHANGED argv

(* nnc_assemble, first line: the output file is created, or truncated. *)
CreateOutput ==
  /\ Running /\ pc = "output"
  /\ \/ /\ files' = [files EXCEPT ![Out] = "empty"]
        /\ source' = 1 /\ Continue("as")
        /\ UNCHANGED <<stmt, generated, canarie, errno>>
     \/ /\ Abort("create") /\ errno' = TRUE /\ UNCHANGED files
  /\ UNCHANGED argv

(* Mutant: a failed assembler does not abort, and the loop goes on. *)
Assemble_IgnoresFailure ==
  /\ Running /\ pc = "as"
  /\ \/ files' = [files EXCEPT ![DotO(source)] = "empty"]
     \/ /\ files' = [files EXCEPT ![DotO(source)] = "obj"]
  /\ IF source < NSources
     THEN source' = source + 1 /\ Continue("as")
     ELSE UNCHANGED source /\ Continue("ld")
  /\ UNCHANGED <<argv, stmt, generated, canarie, errno>>

(* One iteration of nnc_assemble: nnc_create_file("<source>.o") and the     *)
(* shell command, which fails or turns the assembler file into an object.   *)
Assemble ==
  /\ Running /\ pc = "as"
  /\ \/ /\ Abort("create") /\ errno' = TRUE /\ UNCHANGED files
     \/ /\ files' = [files EXCEPT ![DotO(source)] = "empty"]
        /\ Abort("as") /\ UNCHANGED errno
     \/ /\ files' = [files EXCEPT ![DotO(source)] = "obj"]
        /\ IF source < NSources
           THEN source' = source + 1 /\ Continue("as")
           ELSE UNCHANGED source /\ Continue("ld")
        /\ UNCHANGED <<stmt, generated, canarie, errno>>
  /\ UNCHANGED argv

(* nnc_link *)
Link ==
  /\ Running /\ pc = "ld"
  /\ \/ /\ Abort("ld") /\ UNCHANGED <<errno, files>>
     \/ /\ files' = [files EXCEPT ![Out] = "exe"]
        /\ Continue("check")
        /\ UNCHANGED <<position, canarie, errno>>
  /\ UNCHANGED argv

(* nnc_check_for_errors of nnc_main. *)
Check ==
  /\ Running /\ pc = "check"
  /\ CheckForErrors("cleanup")
  /\ UNCHANGED <<argv, errno, files>>

(* Mutant: -g keeps the objects. *)
Removed_KeepsObjects ==
  IF argv.gen_debug THEN {} ELSE {DotO(i) : i \in Sources} \cup
    (IF argv.compile THEN {} ELSE {DotS(i) : i \in Sources})

(* The files nnc_cleanup removes. *)
Removed ==
  {DotO(i) : i \in Sources} \cup
  (IF argv.compile \/ argv.gen_debug THEN {} ELSE {DotS(i) : i \in Sources})

(* nnc_cleanup, and the end of main. *)
Cleanup ==
  /\ Running /\ pc = "cleanup"
  /\ files' = [f \in FileNames |-> IF f \in Removed THEN "absent" ELSE files[f]]
  /\ status' = "success" /\ pc' = "exit"
  /\ UNCHANGED <<argv, position, canarie, errno, cause>>

Exited == ~Running /\ UNCHANGED vars
Looping == pc = "looping" /\ UNCHANGED vars

Step ==
  \/ Start \/ Parse \/ ParseThrows \/ Parsed \/ Statement \/ StatementNeverReturns \/ PhaseAborts \/ Resolved
  \/ CreateDotS \/ WriteDotS \/ DumpIr \/ DumpAst
  \/ CreateOutput \/ Assemble \/ Link \/ Check \/ Cleanup

Next == Step \/ Exited \/ Looping

(* The process is scheduled, and `as' and `ld' return.  That a statement is *)
(* resolved is not assumed: StatementNeverReturns is a step, too.           *)
Spec == Init /\ [][Next]_vars /\ WF_vars(Step)

-----------------------------------------------------------------------------
(* TypeOK: the shape of the driver's state. *)
TypeOK ==
  /\ argv \in Flags
  /\ source \in Sources /\ stmt \in 1 .. NStmts + 1
  /\ canarie \in 0 .. MaxErrors + 1 /\ (Running => canarie =< MaxErrors)
  /\ generated \subseteq 1 .. NStmts
  /\ errno \in BOOLEAN /\ files \in [FileNames -> Contents]
  /\ status \in {"running", "success", "failure", "killed"}
  /\ pc \in {"start", "pass1", "parsed", "pass2", "create", "write", "dump ir",
             "dump ast", "output", "as", "ld", "check", "cleanup", "looping", "exit"}

(* A run that exits with EXIT_SUCCESS did what was asked: without --help    *)
(* every source was compiled, an executable was linked unless -c was given, *)
(* and no error was counted on the way.                                     *)
SuccessMeansBuilt ==
  status = "success" /\ ~argv.help =>
    /\ canarie = 0
    /\ argv.compile => \A i \in Sources : files[DotS(i)] = "asm"
    /\ ~argv.compile => files[Out] = "exe"

(* A successful run leaves no intermediate files behind: no objects, and    *)
(* assembler files only with -c or -g (nnc_cleanup).                        *)
SuccessLeavesNoTemporaries ==
  status = "success" /\ ~argv.help =>
    \A i \in Sources :
      /\ files[DotO(i)] = "absent"
      /\ ~argv.compile /\ ~argv.gen_debug => files[DotS(i)] = "absent"

(* An assembler file is written only when every statement of its source was *)
(* resolved and generated: one error anywhere in a source stops its code    *)
(* generation for good and keeps the assembler and the linker from running. *)
OnlyWholeSourcesWritten ==
  /\ pc \in {"create", "write"} => generated = 1 .. NStmts /\ canarie = 0
  /\ pc \in {"output", "as", "ld", "cleanup"} =>
       canarie = 0 /\ \A i \in Sources : files[DotS(i)] = "asm"

(* An executable is linked from objects of this run only; a stale object of *)
(* an earlier run is never picked up (nnc_assemble recreates every one).    *)
LinksFreshObjects ==
  [][files'[Out] = "exe" /\ files[Out] # "exe" =>
       \A i \in Sources : files[DotO(i)] = "obj"]_vars

(* -c means "Compile only; do not assemble or link" (nnc_argv.h): the       *)
(* output file of an earlier run survives.                                  *)
CompileOnlyKeepsOutput ==
  [][argv.compile => files'[Out] = files[Out]]_vars

(* How far the compilation is at each phase: the sources behind it have     *)
(* their assembler file, the objects behind it are assembled.               *)
Progress ==
  /\ Running <=> pc # "exit"
  /\ pc \notin {"start", "exit"} => ~argv.help
  /\ pc \in {"start", "pass1"} => canarie = 0 /\ stmt = 1
  /\ pc = "start" => source = 1
  /\ pc = "parsed" => stmt = 1 /\ generated = {}
  /\ pc = "pass2" /\ canarie = 0 => generated = 1 .. stmt - 1
  /\ pc \in {"create", "write", "dump ir", "dump ast"} =>
       canarie = 0 /\ generated = 1 .. NStmts
  /\ pc \in {"pass1", "parsed", "pass2", "create", "write"} =>
       \A i \in 1 .. source - 1 : files[DotS(i)] = "asm"
  /\ pc \in {"dump ir", "dump ast"} =>
       \A i \in 1 .. source : files[DotS(i)] = "asm"
  /\ pc \in {"output", "as", "ld"} =>
       canarie = 0 /\ ~argv.compile /\ \A i \in Sources : files[DotS(i)] = "asm"
  /\ pc = "as" => \A i \in 1 .. source - 1 : files[DotO(i)] = "obj"
  /\ pc = "ld" => \A i \in Sources : files[DotO(i)] = "obj"
  /\ (pc = "check" /\ canarie = 0) \/ pc = "cleanup" =>
       /\ canarie = 0 /\ \A i \in Sources : files[DotS(i)] = "asm"
       /\ ~argv.compile => files[Out] = "exe"

(* The inductive invariant of NncDriverProofs. *)
DriverInv ==
  /\ TypeOK /\ Progress /\ SuccessMeansBuilt /\ SuccessLeavesNoTemporaries
  /\ OnlyWholeSourcesWritten

(* Every run ends: the process exits with a status whatever fails, unless   *)
(* the resolver goes round a name that renames itself (nnc_unalias).        *)
AlwaysExits == <>(status # "running" \/ pc = "looping")

(* What the message of nnc_write_blob says ("cannot write data to"): the    *)
(* compiler gives up on an assembler file only when it could not write it.  *)
WriteErrorIsReal == cause # "stale errno"
==============================================================================
