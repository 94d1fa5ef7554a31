--------------------------- MODULE NncDriverProofs ---------------------------
(***************************************************************************)
(* Proofs about NncDriver, for every number of sources and of statements:  *)
(* DriverInv is inductive.  Termination stays with TLC.                    *)
(***************************************************************************)
EXTENDS NncDriver, TLAPS

(* The names of files are distinct, so that writing one leaves the others.  *)
LEMMA Names ==
  /\ Out \in FileNames
  /\ \A i \in Sources : DotS(i) \in FileNames /\ DotO(i) \in FileNames
  /\ \A i \in Sources, k \in {"ir", "ast"} : Dump(i, k) \in FileNames
  /\ \A i, j \in Sources : /\ DotS(i) # DotO(j) /\ DotS(i) # Out /\ DotO(i) # Out
                           /\ DotS(i) = DotS(j) => i = j
                           /\ DotO(i) = DotO(j) => i = j
  /\ \A i, j \in Sources, k \in {"ir", "ast"} :
       Dump(i, k) # DotS(j) /\ Dump(i, k) # DotO(j) /\ Dump(i, k) # Out
BY DEF Out, DotS, DotO, Dump, FileNames, Sources

(* The initial state. *)
LEMMA InitInv == Init => DriverInv
<1> SUFFICES ASSUME Init PROVE DriverInv  OBVIOUS
<1> USE SourcesAssumption, ErrorsAssumption DEF Init
<1>1. TypeOK
  <2>1. files \in [FileNames -> Contents]  BY DEF Contents
  <2>2. source \in Sources /\ stmt \in 1 .. NStmts + 1 /\ canarie \in 0 .. MaxErrors + 1
    BY DEF Sources
  <2>3. /\ argv \in Flags /\ generated = {} /\ errno \in BOOLEAN
        /\ status = "running" /\ pc = "start" /\ canarie = 0
    OBVIOUS
  <2>4. canarie =< MaxErrors  BY <2>3
  <2> HIDE DEF Init
  <2> QED  BY <2>1, <2>2, <2>3, <2>4 DEF TypeOK, Running
<1>2. Progress  BY DEF Progress, Running
<1>3. SuccessMeansBuilt /\ SuccessLeavesNoTemporaries /\ OnlyWholeSourcesWritten
  BY DEF SuccessMeansBuilt, SuccessLeavesNoTemporaries, OnlyWholeSourcesWritten
<1> QED  BY <1>1, <1>2, <1>3 DEF DriverInv

(* nnc_abort ends the run with a failure, whatever the phase. *)
LEMMA AbortInv ==
  ASSUME DriverInv, NEW why, Abort(why), Running, argv' = argv,
         errno' \in BOOLEAN, files' \in [FileNames -> Contents]
  PROVE  DriverInv'
<1>0. canarie \in 0 .. MaxErrors
  <2>1. TypeOK  BY DEF DriverInv
  <2>2. canarie \in 0 .. MaxErrors + 1 /\ canarie =< MaxErrors
    BY <2>1 DEF TypeOK
  <2> QED  BY <2>2, ErrorsAssumption
<1> USE SourcesAssumption, ErrorsAssumption DEF DriverInv, Abort, position
<1>1. TypeOK'
  <2>1. canarie' \in 0 .. MaxErrors + 1  BY <1>0
  <2>2. /\ pc' = "exit" /\ status' = "failure" /\ source' = source
        /\ stmt' = stmt /\ generated' = generated
    OBVIOUS
  <2> QED  BY <2>1, <2>2 DEF TypeOK, Running
<1>2. Progress'  BY DEF Progress, Running
<1>3. (SuccessMeansBuilt /\ SuccessLeavesNoTemporaries /\ OnlyWholeSourcesWritten)'
  BY DEF SuccessMeansBuilt, SuccessLeavesNoTemporaries, OnlyWholeSourcesWritten
<1> QED  BY <1>1, <1>2, <1>3
(* While the process runs, what is left to show is the type and Progress.   *)
LEMMA RunningInv == (TypeOK /\ Progress /\ Running)' => DriverInv'
<1> SUFFICES ASSUME TypeOK', Progress', Running' PROVE DriverInv'  OBVIOUS
<1>1. (SuccessMeansBuilt /\ SuccessLeavesNoTemporaries)'
  BY DEF SuccessMeansBuilt, SuccessLeavesNoTemporaries, Running
<1>2. OnlyWholeSourcesWritten'  BY DEF OnlyWholeSourcesWritten, Progress
<1> QED  BY <1>1, <1>2 DEF DriverInv

(* glob_canarie is a count. *)
LEMMA CanarieNat == TypeOK => canarie \in Nat
<1> SUFFICES ASSUME TypeOK PROVE canarie \in Nat  OBVIOUS
<1>1. canarie \in 0 .. MaxErrors + 1  BY DEF TypeOK
<1> QED  BY <1>1, ErrorsAssumption

(* nnc_check_for_errors at the end of pass 1, of pass 2 and of nnc_main.    *)
LEMMA CheckInv ==
  ASSUME DriverInv, Running, NEW at, CheckForErrors(at),
         argv' = argv, errno' = errno, files' = files,
         \/ pc = "parsed" /\ at = "pass2"
         \/ pc = "pass2" /\ stmt > NStmts /\ at = "create"
         \/ pc = "check" /\ at = "cleanup"
  PROVE  DriverInv'
<1> TypeOK /\ Progress  BY DEF DriverInv
<1>1. CASE canarie # 0
  <2>1. Abort("errors")  BY <1>1 DEF CheckForErrors
  <2>2. errno' \in BOOLEAN /\ files' \in [FileNames -> Contents]  BY DEF TypeOK
  <2> QED  BY <2>1, <2>2, AbortInv
<1>2. CASE canarie = 0
  <2>1. /\ pc' = at /\ status' = status /\ canarie' = 0
        /\ source' = source /\ stmt' = stmt /\ generated' = generated
    BY <1>2 DEF CheckForErrors, Continue, position
  <2>2. TypeOK'  BY <1>2, <2>1 DEF TypeOK, Running
  <2>3. Progress'
    <3>1. CASE pc = "parsed"  BY <1>2, <2>1, <3>1 DEF Progress, Running
    <3>2. CASE pc = "check"  BY <1>2, <2>1, <3>2 DEF Progress, Running
    <3>3. CASE pc = "pass2"
      <4>1. stmt = NStmts + 1  BY <3>3, SourcesAssumption DEF TypeOK
      <4>2. generated = 1 .. NStmts  BY <1>2, <3>3, <4>1, SourcesAssumption DEF Progress
      <4> QED  BY <1>2, <2>1, <3>3, <4>2 DEF Progress, Running
    <3> QED  BY <3>1, <3>2, <3>3
  <2>4. Running'  BY <2>1 DEF Running
  <2> QED  BY <2>2, <2>3, <2>4, RunningInv
<1>3. canarie \in Nat  BY CanarieNat
<1> QED  BY <1>1, <1>2

(* nnc_main before the first source. *)
LEMMA StartInv == DriverInv /\ Start => DriverInv'
<1> SUFFICES ASSUME DriverInv, Start PROVE DriverInv'  OBVIOUS
<1> TypeOK /\ Progress  BY DEF DriverInv
<1>0. /\ argv' = argv /\ source' = source /\ stmt' = stmt /\ generated' = generated
      /\ canarie' = canarie /\ errno' = errno /\ files' = files
      /\ Running /\ pc = "start"
  BY DEF Start, position
<1>1. CASE argv.help
  <2>1. status' = "success" /\ pc' = "exit"  BY <1>1 DEF Start
  <2>2. TypeOK'  BY <1>0, <2>1 DEF TypeOK, Running
  <2>3. Progress'  BY <1>0, <2>1 DEF Progress, Running
  <2>4. (SuccessMeansBuilt /\ SuccessLeavesNoTemporaries /\ OnlyWholeSourcesWritten)'
    BY <1>0, <1>1, <2>1
       DEF SuccessMeansBuilt, SuccessLeavesNoTemporaries, OnlyWholeSourcesWritten
  <2> QED  BY <2>2, <2>3, <2>4 DEF DriverInv
<1>2. CASE ~argv.help
  <2>1. status' = status /\ pc' = "pass1"  BY <1>2 DEF Start, Continue
  <2>2. TypeOK'  BY <1>0, <2>1 DEF TypeOK, Running
  <2>3. Progress'  BY <1>0, <1>2, <2>1 DEF Progress, Running
  <2>4. Running'  BY <1>0, <2>1 DEF Running
  <2> QED  BY <2>2, <2>3, <2>4, RunningInv
<1> QED  BY <1>1, <1>2

(* Parsing a source, and an error thrown out of the parser. *)
LEMMA ParseInv == DriverInv /\ (Parse \/ ParseThrows) => DriverInv'
<1> SUFFICES ASSUME DriverInv, Parse \/ ParseThrows PROVE DriverInv'  OBVIOUS
<1> TypeOK /\ Progress  BY DEF DriverInv
<1>0. /\ argv' = argv /\ source' = source /\ stmt' = stmt /\ files' = files
      /\ status' = status /\ Running /\ pc = "pass1"
      /\ errno' \in BOOLEAN
  BY DEF Parse, ParseThrows, Continue, position, TypeOK
<1>1. Running'  BY <1>0 DEF Running
<1>2. canarie' \in 0 .. MaxErrors
  <2>1. canarie \in Nat  BY CanarieNat
  <2> QED  BY <2>1, ErrorsAssumption DEF Parse, ParseThrows
<1>3. CASE Parse
  <2>1. pc' = "parsed" /\ generated' = {}  BY <1>3 DEF Parse, Continue
  <2>2. TypeOK'  BY <1>0, <1>1, <1>2, <2>1, ErrorsAssumption DEF TypeOK
  <2>3. Progress'  BY <1>0, <1>1, <2>1 DEF Progress
  <2> QED  BY <1>1, <2>2, <2>3, RunningInv
<1>4. CASE ParseThrows
  <2>1. pc' = "check" /\ generated' = generated /\ canarie' # 0
    <3>1. canarie \in Nat  BY CanarieNat
    <3> QED  BY <1>4, <3>1 DEF ParseThrows, Continue, position
  <2>2. TypeOK'  BY <1>0, <1>1, <1>2, <2>1, ErrorsAssumption DEF TypeOK
  <2>3. Progress'  BY <1>0, <1>1, <2>1 DEF Progress
  <2> QED  BY <1>1, <2>2, <2>3, RunningInv
<1> QED  BY <1>3, <1>4

(* One statement: it is generated only while no error was counted, so that  *)
(* without an error the code generated is that of the statements behind.    *)
LEMMA StatementInv == DriverInv /\ Statement => DriverInv'
<1> SUFFICES ASSUME DriverInv, Statement PROVE DriverInv'  OBVIOUS
<1> TypeOK /\ Progress  BY DEF DriverInv
<1>0. /\ argv' = argv /\ source' = source /\ files' = files /\ errno' = errno
      /\ status' = status /\ Running /\ pc = "pass2" /\ pc' = pc
      /\ stmt' = stmt + 1 /\ stmt =< NStmts
  BY DEF Statement
<1>1. Running'  BY <1>0 DEF Running
<1>2. canarie' \in 0 .. MaxErrors /\ (canarie' = 0 => canarie = 0)
  <2>1. canarie \in Nat  BY CanarieNat
  <2> QED  BY <2>1, ErrorsAssumption DEF Statement
<1>3. stmt \in 1 .. NStmts /\ stmt' \in 1 .. NStmts + 1
  BY <1>0, SourcesAssumption DEF TypeOK
<1>4. generated' = IF canarie' = 0 THEN generated \cup {stmt} ELSE generated
  BY DEF Statement
<1>5. generated' \subseteq 1 .. NStmts  BY <1>3, <1>4 DEF TypeOK
<1>6. TypeOK'  BY <1>0, <1>1, <1>2, <1>3, <1>5, ErrorsAssumption DEF TypeOK
<1>7. canarie' = 0 => generated' = 1 .. stmt' - 1
  <2> SUFFICES ASSUME canarie' = 0 PROVE generated' = 1 .. stmt' - 1  OBVIOUS
  <2>1. generated = 1 .. stmt - 1  BY <1>0, <1>2 DEF Progress
  <2>2. generated' = (1 .. stmt - 1) \cup {stmt}  BY <1>4, <2>1
  <2> QED  BY <1>0, <1>3, <2>2, SourcesAssumption
<1>8. Progress'  BY <1>0, <1>1, <1>7 DEF Progress
<1> QED  BY <1>1, <1>6, <1>8, RunningInv
(* A statement the resolver never comes back from changes nothing else.     *)
LEMMA NeverReturnsInv == DriverInv /\ StatementNeverReturns => DriverInv'
<1> SUFFICES ASSUME DriverInv, StatementNeverReturns PROVE DriverInv'  OBVIOUS
<1> TypeOK /\ Progress  BY DEF DriverInv
<1>0. /\ argv' = argv /\ source' = source /\ stmt' = stmt /\ generated' = generated
      /\ canarie' = canarie /\ files' = files /\ errno' = errno /\ Running /\ pc = "pass2"
  BY DEF StatementNeverReturns, position
<1>1. CASE pc' = "looping" /\ status' = status
  <2>1. Running'  BY <1>0, <1>1 DEF Running
  <2>2. TypeOK'  BY <1>0, <1>1, <2>1 DEF TypeOK
  <2>3. ~argv.help  BY <1>0 DEF Progress
  <2>4. Progress'  BY <1>0, <1>1, <2>1, <2>3 DEF Progress
  <2> QED  BY <2>1, <2>2, <2>4, RunningInv
<1>2. CASE pc' = "exit" /\ status' = "killed"
  <2>1. ~Running'  BY <1>2 DEF Running
  <2>2. TypeOK'  BY <1>0, <1>2, <2>1 DEF TypeOK
  <2>3. Progress'  BY <1>2, <2>1 DEF Progress
  <2>4. (SuccessMeansBuilt /\ SuccessLeavesNoTemporaries /\ OnlyWholeSourcesWritten)'
    BY <1>2 DEF SuccessMeansBuilt, SuccessLeavesNoTemporaries, OnlyWholeSourcesWritten
  <2> QED  BY <2>2, <2>3, <2>4 DEF DriverInv
<1> QED  BY <1>1, <1>2 DEF StatementNeverReturns

(* Writing a file keeps the type of the file system and the other files.    *)
LEMMA WriteFile ==
  ASSUME TypeOK, NEW f \in FileNames, NEW c \in Contents,
         files' = [files EXCEPT ![f] = c]
  PROVE  /\ files' \in [FileNames -> Contents]
         /\ files'[f] = c
         /\ \A g \in FileNames : g # f => files'[g] = files[g]
<1>1. files \in [FileNames -> Contents]  BY DEF TypeOK
<1> QED  BY <1>1

(* Creating and writing the assembler file of a source. *)
LEMMA DotSInv == DriverInv /\ (CreateDotS \/ WriteDotS) => DriverInv'
<1> SUFFICES ASSUME DriverInv, CreateDotS \/ WriteDotS PROVE DriverInv'  OBVIOUS
<1> TypeOK /\ Progress  BY DEF DriverInv
<1>0. argv' = argv /\ Running /\ source \in Sources
  BY DEF CreateDotS, WriteDotS, TypeOK
<1>a. files \in [FileNames -> Contents] /\ errno \in BOOLEAN  BY DEF TypeOK
<1>b. DotS(source) \in FileNames  BY <1>0, Names
<1>c. "empty" \in Contents /\ "asm" \in Contents  BY DEF Contents
<1>1. ASSUME NEW why, Abort(why), errno' \in BOOLEAN,
             files' = files \/ files' = [files EXCEPT ![DotS(source)] = "asm"]
      PROVE  DriverInv'
  <2>1. files' \in [FileNames -> Contents]  BY <1>1, <1>a, <1>b, <1>c, WriteFile
  <2> QED  BY <1>0, <1>1, <2>1, AbortInv
<1>2. ASSUME NEW c \in {"empty", "asm"}, files' = [files EXCEPT ![DotS(source)] = c],
             status' = status, position' = position, canarie' = canarie, errno' = errno,
             \/ pc = "create" /\ pc' = "write" /\ c = "empty"
             \/ pc = "write" /\ pc' = "dump ir" /\ c = "asm"
      PROVE  DriverInv'
  <2>1. source' = source /\ stmt' = stmt /\ generated' = generated
    BY <1>2 DEF position
  <2>2. /\ files' \in [FileNames -> Contents]
        /\ files'[DotS(source)] = c
        /\ \A g \in FileNames : g # DotS(source) => files'[g] = files[g]
    BY <1>2, <1>b, <1>c, WriteFile
  <2>3. Running'  BY <1>0, <1>2 DEF Running
  <2>4. TypeOK'  BY <1>0, <1>2, <2>1, <2>2, <2>3 DEF TypeOK
  <2>5. \A i \in 1 .. source - 1 : files'[DotS(i)] = "asm"
    <3> SUFFICES ASSUME NEW i \in 1 .. source - 1 PROVE files'[DotS(i)] = "asm"  OBVIOUS
    <3>1. i \in Sources /\ i # source  BY <1>0, SourcesAssumption DEF Sources
    <3>2. files[DotS(i)] = "asm"  BY <1>2 DEF Progress
    <3>3. DotS(i) \in FileNames /\ DotS(i) # DotS(source)  BY <1>0, <3>1, Names
    <3> QED  BY <2>2, <3>2, <3>3
  <2>6. c = "asm" => \A i \in 1 .. source : files'[DotS(i)] = "asm"
    <3> SUFFICES ASSUME c = "asm", NEW i \in 1 .. source PROVE files'[DotS(i)] = "asm"
      OBVIOUS
    <3>1. i = source \/ i \in 1 .. source - 1  BY <1>0, SourcesAssumption DEF Sources
    <3> QED  BY <2>2, <2>5, <3>1
  <2>7. ~argv'.help /\ canarie' = 0 /\ generated' = 1 .. NStmts
    BY <1>0, <1>2, <2>1 DEF Progress
  <2>8. Progress'
    <3>1. CASE pc' = "write"  BY <2>1, <2>3, <2>5, <2>7, <3>1 DEF Progress
    <3>2. CASE pc' = "dump ir"  BY <1>2, <2>1, <2>3, <2>6, <2>7, <3>2 DEF Progress
    <3> QED  BY <1>2, <3>1, <3>2
  <2> QED  BY <2>3, <2>4, <2>8, RunningInv
<1>3. CASE CreateDotS
  <2>1. CASE Abort("create") /\ errno' = TRUE /\ UNCHANGED files  BY <2>1, <1>1
  <2>2. CASE /\ files' = [files EXCEPT ![DotS(source)] = "empty"]
             /\ Continue("write") /\ UNCHANGED <<position, canarie, errno>>
    <3>1. pc = "create" /\ pc' = "write" /\ status' = status
      BY <1>3, <2>2 DEF CreateDotS, Continue
    <3> QED  BY <1>2, <2>2, <3>1
  <2> QED  BY <1>3, <2>1, <2>2 DEF CreateDotS
<1>4. CASE WriteDotS
  <2>1. CASE Abort("write") /\ errno' = TRUE /\ UNCHANGED files  BY <2>1, <1>1
  <2>2. CASE /\ files' = [files EXCEPT ![DotS(source)] = "asm"]
             /\ Abort("stale errno") /\ UNCHANGED errno
    BY <2>2, <1>1, <1>a
  <2>3. CASE /\ files' = [files EXCEPT ![DotS(source)] = "asm"]
             /\ Continue("dump ir") /\ UNCHANGED <<position, canarie, errno>>
    <3>1. pc = "write" /\ pc' = "dump ir" /\ status' = status
      BY <1>4, <2>3 DEF WriteDotS, Continue
    <3> QED  BY <1>2, <2>3, <3>1
  <2> QED  BY <1>4, <2>1, <2>2, <2>3 DEF WriteDotS
<1> QED  BY <1>3, <1>4

(* Dumping the intermediate code and the tree leaves the assembler files    *)
(* alone, and the next source finds all those behind it written.            *)
LEMMA DumpInv == DriverInv /\ (DumpIr \/ DumpAst) => DriverInv'
<1> SUFFICES ASSUME DriverInv, DumpIr \/ DumpAst PROVE DriverInv'  OBVIOUS
<1> TypeOK /\ Progress  BY DEF DriverInv
<1>0. argv' = argv /\ Running /\ source \in Sources /\ pc \in {"dump ir", "dump ast"}
  BY DEF DumpIr, DumpAst, TypeOK
<1>s. source \in Nat /\ source >= 1 /\ source =< NSources
  <2>1. source \in 1 .. NSources  BY DEF TypeOK, Sources
  <2> QED  BY <2>1, SourcesAssumption
<1>a. files \in [FileNames -> Contents]  BY DEF TypeOK
<1>b. /\ canarie = 0 /\ generated = 1 .. NStmts /\ ~argv.help
      /\ \A i \in 1 .. source : files[DotS(i)] = "asm"
  BY <1>0 DEF Progress
<1>1. CASE errno' = TRUE /\ UNCHANGED files /\ Abort("create")
  BY <1>0, <1>1, <1>a, AbortInv
<1>2. ASSUME NEW k \in {"ir", "ast"}, Running', generated' = generated,
             canarie' = canarie, errno' = errno,
             files' = files \/ files' = [files EXCEPT ![Dump(source, k)] = "dump"]
      PROVE  /\ files' \in [FileNames -> Contents]
             /\ \A i \in 1 .. source : files'[DotS(i)] = "asm"
  <2>1. Dump(source, k) \in FileNames  BY <1>0, Names
  <2>2. "dump" \in Contents  BY DEF Contents
  <2>3. /\ files' \in [FileNames -> Contents]
        /\ \A g \in FileNames : g # Dump(source, k) => files'[g] = files[g]
    BY <1>2, <1>a, <2>1, <2>2, WriteFile
  <2>4. ASSUME NEW i \in 1 .. source PROVE files'[DotS(i)] = "asm"
    <3>1. i \in Sources  BY <1>s, SourcesAssumption DEF Sources
    <3>2. DotS(i) \in FileNames /\ DotS(i) # Dump(source, k)  BY <1>0, <3>1, Names
    <3> QED  BY <1>b, <2>3, <3>2
  <2> QED  BY <2>3, <2>4
<1>3. CASE DumpIr /\ ~Abort("create")
  <2>1. /\ files' = files \/ files' = [files EXCEPT ![Dump(source, "ir")] = "dump"]
        /\ pc' = "dump ast" /\ status' = status /\ canarie' = canarie /\ errno' = errno
        /\ source' = source /\ stmt' = stmt /\ generated' = generated
    BY <1>3 DEF DumpIr, Continue, position
  <2>2. Running'  BY <1>0, <2>1 DEF Running
  <2>3. /\ files' \in [FileNames -> Contents]
        /\ \A i \in 1 .. source : files'[DotS(i)] = "asm"
    BY <1>2, <2>1, <2>2
  <2>4. TypeOK'  BY <1>0, <2>1, <2>2, <2>3 DEF TypeOK
  <2>5. Progress'  BY <1>0, <1>b, <2>1, <2>2, <2>3 DEF Progress
  <2> QED  BY <2>2, <2>4, <2>5, RunningInv
<1>4. CASE DumpAst /\ ~Abort("create")
  <2>1. /\ files' = files \/ files' = [files EXCEPT ![Dump(source, "ast")] = "dump"]
        /\ NextSource /\ canarie' = canarie /\ errno' = errno /\ generated' = generated
    BY <1>4 DEF DumpAst
  <2>2. status' = status  BY <2>1 DEF NextSource, Continue
  <2>3. Running'  BY <1>0, <2>2 DEF Running
  <2>4. /\ files' \in [FileNames -> Contents]
        /\ \A i \in 1 .. source : files'[DotS(i)] = "asm"
    BY <1>2, <2>1, <2>3
  <2>5. CASE source < NSources
    <3>1. source' = source + 1 /\ stmt' = 1 /\ pc' = "pass1"
      BY <2>1, <2>5 DEF NextSource, Continue
    <3>2. source' \in Sources /\ source' - 1 = source
      BY <1>s, <2>5, <3>1, SourcesAssumption DEF Sources
    <3>3. stmt' \in 1 .. NStmts + 1  BY <3>1, SourcesAssumption
    <3>4. TypeOK'  BY <1>0, <2>1, <2>2, <2>3, <2>4, <3>1, <3>2, <3>3 DEF TypeOK
    <3>5. Progress'  BY <1>0, <1>b, <2>1, <2>3, <2>4, <3>1, <3>2 DEF Progress
    <3> QED  BY <2>3, <3>4, <3>5, RunningInv
  <2>6. CASE ~(source < NSources)
    <3>1. /\ source' = source /\ stmt' = stmt
          /\ pc' = IF argv.compile THEN "check" ELSE "output"
      BY <2>1, <2>6 DEF NextSource, Continue
    <3>2. 1 .. source = Sources  BY <1>s, <2>6, SourcesAssumption DEF Sources
    <3>3. \A i \in Sources : files'[DotS(i)] = "asm"  BY <2>4, <3>2
    <3>4. TypeOK'  BY <1>0, <2>1, <2>2, <2>3, <2>4, <3>1 DEF TypeOK
    <3>5. Progress'
      <4>1. CASE argv.compile
        BY <1>0, <1>b, <2>1, <2>3, <3>1, <3>3, <4>1 DEF Progress
      <4>2. CASE ~argv.compile
        BY <1>0, <1>b, <2>1, <2>3, <3>1, <3>3, <4>2 DEF Progress
      <4> QED  BY <4>1, <4>2
    <3> QED  BY <2>3, <3>4, <3>5, RunningInv
  <2> QED  BY <2>5, <2>6
<1>5. Abort("create") => errno' = TRUE /\ UNCHANGED files
  <2>1. Abort("create") => status' # status  BY <1>0 DEF Abort, Running
  <2> QED  BY <2>1 DEF DumpIr, DumpAst, NextSource, Continue
<1> QED  BY <1>1, <1>3, <1>4, <1>5
(* nnc_assemble creates the output file, which is no assembler file. *)
LEMMA OutputInv == DriverInv /\ CreateOutput => DriverInv'
<1> SUFFICES ASSUME DriverInv, CreateOutput PROVE DriverInv'  OBVIOUS
<1> TypeOK /\ Progress  BY DEF DriverInv
<1>0. argv' = argv /\ Running /\ pc = "output"  BY DEF CreateOutput
<1>1. CASE Abort("create") /\ errno' = TRUE /\ UNCHANGED files
  <2>1. files' \in [FileNames -> Contents]  BY <1>1 DEF TypeOK
  <2> QED  BY <1>0, <1>1, <2>1, AbortInv
<1>2. CASE /\ files' = [files EXCEPT ![Out] = "empty"]
           /\ source' = 1 /\ Continue("as")
           /\ UNCHANGED <<stmt, generated, canarie, errno>>
  <2>1. pc' = "as" /\ status' = status  BY <1>2 DEF Continue
  <2>2. Running'  BY <1>0, <2>1 DEF Running
  <2>3. "empty" \in Contents  BY DEF Contents
  <2>4. /\ files' \in [FileNames -> Contents]
        /\ \A g \in FileNames : g # Out => files'[g] = files[g]
    BY <1>2, <2>3, Names, WriteFile
  <2>5. \A i \in Sources : files'[DotS(i)] = "asm"
    BY <1>0, <2>4, Names DEF Progress
  <2>6. 1 \in Sources  BY SourcesAssumption DEF Sources
  <2>7. TypeOK'  BY <1>0, <1>2, <2>1, <2>2, <2>4, <2>6 DEF TypeOK
  <2>8. canarie' = 0 /\ ~argv'.compile /\ ~argv'.help  BY <1>0, <1>2 DEF Progress
  <2>9. 1 .. source' - 1 = {}  BY <1>2
  <2>10. Progress'  BY <2>1, <2>2, <2>5, <2>8, <2>9 DEF Progress
  <2> QED  BY <2>2, <2>7, <2>10, RunningInv
<1> QED  BY <1>1, <1>2 DEF CreateOutput

(* Assembling a source adds its object to those behind. *)
LEMMA AssembleInv == DriverInv /\ Assemble => DriverInv'
<1> SUFFICES ASSUME DriverInv, Assemble PROVE DriverInv'  OBVIOUS
<1> TypeOK /\ Progress  BY DEF DriverInv
<1>0. argv' = argv /\ Running /\ pc = "as"  BY DEF Assemble
<1>a. source \in Sources /\ files \in [FileNames -> Contents] /\ errno \in BOOLEAN
  BY DEF TypeOK
<1>b. source \in Nat /\ source >= 1 /\ source =< NSources
  <2>1. source \in 1 .. NSources  BY <1>a DEF Sources
  <2> QED  BY <2>1, SourcesAssumption
<1>c. DotO(source) \in FileNames  BY <1>a, Names
<1>d. "empty" \in Contents /\ "obj" \in Contents  BY DEF Contents
<1>1. CASE Abort("create") /\ errno' = TRUE /\ UNCHANGED files
  BY <1>0, <1>1, <1>a, AbortInv
<1>2. CASE /\ files' = [files EXCEPT ![DotO(source)] = "empty"]
           /\ Abort("as") /\ UNCHANGED errno
  <2>1. files' \in [FileNames -> Contents]  BY <1>2, <1>c, <1>d, WriteFile
  <2> QED  BY <1>0, <1>2, <1>a, <2>1, AbortInv
<1>3. CASE /\ files' = [files EXCEPT ![DotO(source)] = "obj"]
           /\ IF source < NSources
              THEN source' = source + 1 /\ Continue("as")
              ELSE UNCHANGED source /\ Continue("ld")
           /\ UNCHANGED <<stmt, generated, canarie, errno>>
  <2>1. status' = status  BY <1>3 DEF Continue
  <2>2. Running'  BY <1>0, <2>1 DEF Running
  <2>3. /\ files' \in [FileNames -> Contents]
        /\ files'[DotO(source)] = "obj"
        /\ \A g \in FileNames : g # DotO(source) => files'[g] = files[g]
    BY <1>3, <1>c, <1>d, WriteFile
  <2>4. \A i \in Sources : files'[DotS(i)] = "asm"
    BY <1>0, <1>a, <2>3, Names DEF Progress
  <2>5. \A i \in 1 .. source : files'[DotO(i)] = "obj"
    <3> SUFFICES ASSUME NEW i \in 1 .. source PROVE files'[DotO(i)] = "obj"  OBVIOUS
    <3>1. i \in Sources /\ (i = source \/ i \in 1 .. source - 1)
      BY <1>b, SourcesAssumption DEF Sources
    <3>2. CASE i = source  BY <2>3, <3>2
    <3>3. CASE i \in 1 .. source - 1 /\ i # source
      <4>1. files[DotO(i)] = "obj"  BY <1>0, <3>3 DEF Progress
      <4>2. DotO(i) \in FileNames /\ DotO(i) # DotO(source)  BY <1>a, <3>1, <3>3, Names
      <4> QED  BY <2>3, <4>1, <4>2
    <3> QED  BY <3>1, <3>2, <3>3
  <2>6. canarie' = 0 /\ ~argv'.compile /\ ~argv'.help  BY <1>0, <1>3 DEF Progress
  <2>7. CASE source < NSources
    <3>1. source' = source + 1 /\ pc' = "as"  BY <1>3, <2>7 DEF Continue
    <3>2. source' \in Sources /\ source' - 1 = source
      BY <1>b, <2>7, <3>1, SourcesAssumption DEF Sources
    <3>3. TypeOK'  BY <1>0, <1>3, <2>1, <2>2, <2>3, <3>1, <3>2 DEF TypeOK
    <3>4. Progress'  BY <2>2, <2>4, <2>5, <2>6, <3>1, <3>2 DEF Progress
    <3> QED  BY <2>2, <3>3, <3>4, RunningInv
  <2>8. CASE ~(source < NSources)
    <3>1. source' = source /\ pc' = "ld"  BY <1>3, <2>8 DEF Continue
    <3>2. 1 .. source = Sources  BY <1>b, <2>8, SourcesAssumption DEF Sources
    <3>3. TypeOK'  BY <1>0, <1>3, <2>1, <2>2, <2>3, <3>1 DEF TypeOK
    <3>4. Progress'  BY <2>2, <2>4, <2>5, <2>6, <3>1, <3>2 DEF Progress
    <3> QED  BY <2>2, <3>3, <3>4, RunningInv
  <2> QED  BY <2>7, <2>8
<1> QED  BY <1>1, <1>2, <1>3 DEF Assemble

(* Linking turns the output file into the executable. *)
LEMMA LinkInv == DriverInv /\ Link => DriverInv'
<1> SUFFICES ASSUME DriverInv, Link PROVE DriverInv'  OBVIOUS
<1> TypeOK /\ Progress  BY DEF DriverInv
<1>0. argv' = argv /\ Running /\ pc = "ld"  BY DEF Link
<1>1. CASE Abort("ld") /\ UNCHANGED <<errno, files>>
  <2>1. errno' \in BOOLEAN /\ files' \in [FileNames -> Contents]  BY <1>1 DEF TypeOK
  <2> QED  BY <1>0, <1>1, <2>1, AbortInv
<1>2. CASE /\ files' = [files EXCEPT ![Out] = "exe"]
           /\ Continue("check") /\ UNCHANGED <<position, canarie, errno>>
  <2>1. /\ pc' = "check" /\ status' = status /\ canarie' = canarie /\ errno' = errno
        /\ source' = source /\ stmt' = stmt /\ generated' = generated
    BY <1>2 DEF Continue, position
  <2>2. Running'  BY <1>0, <2>1 DEF Running
  <2>3. "exe" \in Contents  BY DEF Contents
  <2>4. /\ files' \in [FileNames -> Contents] /\ files'[Out] = "exe"
        /\ \A g \in FileNames : g # Out => files'[g] = files[g]
    BY <1>2, <2>3, Names, WriteFile
  <2>5. \A i \in Sources : files'[DotS(i)] = "asm"
    BY <1>0, <2>4, Names DEF Progress
  <2>6. TypeOK'  BY <1>0, <2>1, <2>2, <2>4 DEF TypeOK
  <2>7. canarie' = 0 /\ ~argv'.help  BY <1>0, <2>1 DEF Progress
  <2>8. Progress'  BY <2>1, <2>2, <2>4, <2>5, <2>7 DEF Progress
  <2> QED  BY <2>2, <2>6, <2>8, RunningInv
<1> QED  BY <1>1, <1>2 DEF Link

(* nnc_cleanup removes the intermediate files and nothing that was asked    *)
(* for: not the executable, and with -c not the assembler files.            *)
LEMMA CleanupInv == DriverInv /\ Cleanup => DriverInv'
<1> SUFFICES ASSUME DriverInv, Cleanup PROVE DriverInv'  OBVIOUS
<1> TypeOK /\ Progress  BY DEF DriverInv
<1>0. /\ argv' = argv /\ pc = "cleanup" /\ pc' = "exit" /\ status' = "success"
      /\ source' = source /\ stmt' = stmt /\ generated' = generated
      /\ canarie' = canarie /\ errno' = errno
      /\ files' = [f \in FileNames |-> IF f \in Removed THEN "absent" ELSE files[f]]
  BY DEF Cleanup, position
<1>1. /\ canarie = 0 /\ \A i \in Sources : files[DotS(i)] = "asm"
      /\ ~argv.compile => files[Out] = "exe"
  BY <1>0 DEF Progress
<1>2. files' \in [FileNames -> Contents]
  <2>1. files \in [FileNames -> Contents] /\ "absent" \in Contents  BY DEF TypeOK, Contents
  <2> QED  BY <1>0, <2>1
<1>3. ~Running'  BY <1>0 DEF Running
<1>4. TypeOK'  BY <1>0, <1>2, <1>3 DEF TypeOK
<1>5. Progress'  BY <1>0, <1>3 DEF Progress
<1>6. \A i \in Sources : DotO(i) \in Removed  BY DEF Removed
<1>7. SuccessMeansBuilt'
  <2>1. Out \notin Removed  BY Names DEF Removed
  <2>2. argv.compile => \A i \in Sources : DotS(i) \notin Removed  BY Names DEF Removed
  <2>3. files'[Out] = files[Out]  BY <1>0, <2>1, Names
  <2>4. argv.compile => \A i \in Sources : files'[DotS(i)] = files[DotS(i)]
    BY <1>0, <2>2, Names
  <2> QED  BY <1>0, <1>1, <2>3, <2>4 DEF SuccessMeansBuilt
<1>8. SuccessLeavesNoTemporaries'
  <2>1. ~argv.compile /\ ~argv.gen_debug => \A i \in Sources : DotS(i) \in Removed
    BY DEF Removed
  <2> QED  BY <1>0, <1>6, <2>1, Names DEF SuccessLeavesNoTemporaries
<1>9. OnlyWholeSourcesWritten'  BY <1>0 DEF OnlyWholeSourcesWritten
<1> QED  BY <1>4, <1>5, <1>7, <1>8, <1>9 DEF DriverInv

(* Every step of the driver preserves DriverInv. *)
LEMMA NextInv == DriverInv /\ [Next]_vars => DriverInv'
<1> SUFFICES ASSUME DriverInv, [Next]_vars PROVE DriverInv'  OBVIOUS
<1>1. CASE UNCHANGED vars
  <2> USE <1>1 DEF vars, DriverInv, Running
  <2>1. TypeOK'  BY DEF TypeOK
  <2>2. Progress'  BY DEF Progress
  <2>3. (SuccessMeansBuilt /\ SuccessLeavesNoTemporaries /\ OnlyWholeSourcesWritten)'
    BY DEF SuccessMeansBuilt, SuccessLeavesNoTemporaries, OnlyWholeSourcesWritten
  <2> QED  BY <2>1, <2>2, <2>3
<1>2. CASE Parsed \/ Resolved \/ Check
  <2>1. CASE Parsed  BY <2>1, CheckInv DEF Parsed
  <2>2. CASE Resolved  BY <2>2, CheckInv DEF Resolved
  <2>3. CASE Check  BY <2>3, CheckInv DEF Check
  <2> QED  BY <1>2, <2>1, <2>2, <2>3
<1>3. CASE PhaseAborts
  <2>1. errno' \in BOOLEAN /\ files' \in [FileNames -> Contents]
    BY <1>3 DEF PhaseAborts, DriverInv, TypeOK
  <2> QED  BY <1>3, <2>1, AbortInv DEF PhaseAborts
<1> QED
  BY <1>1, <1>2, <1>3, StartInv, ParseInv, StatementInv, NeverReturnsInv, DotSInv, DumpInv,
     OutputInv, AssembleInv, LinkInv, CleanupInv DEF Next, Step, Exited, Looping

(* The driver, for any number of sources and statements: an exit status of  *)
(* success means that the command line was carried out with no error and    *)
(* no intermediate file left, and no source is written in part.             *)
THEOREM DriverCorrect == Spec => []DriverInv
BY InitInv, NextInv, PTL DEF Spec

(* EXIT_SUCCESS means that what was asked for was built. *)
THEOREM DriverSuccessMeansBuilt == Spec => []SuccessMeansBuilt
<1>1. DriverInv => SuccessMeansBuilt  BY DEF DriverInv
<1> QED  BY <1>1, DriverCorrect, PTL

(* No assembler file is written, and nothing assembled or linked, unless    *)
(* every statement of the source was generated without an error.            *)
THEOREM DriverOnlyWholeSources == Spec => []OnlyWholeSourcesWritten
<1>1. DriverInv => OnlyWholeSourcesWritten  BY DEF DriverInv
<1> QED  BY <1>1, DriverCorrect, PTL

(* -c leaves the output file of an earlier run alone, at every step. *)
THEOREM DriverCompileOnly == Spec => CompileOnlyKeepsOutput
<1>1. DriverInv /\ [Next]_vars => [argv.compile => files'[Out] = files[Out]]_vars
  <2> SUFFICES ASSUME DriverInv, Next, argv.compile PROVE files'[Out] = files[Out]
    BY DEF vars
  <2>0. /\ TypeOK /\ source \in Sources
        /\ "empty" \in Contents /\ "asm" \in Contents /\ "dump" \in Contents
    BY DEF DriverInv, TypeOK, Contents
  <2>1. CASE files' = files  BY <2>1
  <2>2. ASSUME NEW f \in FileNames, f # Out, NEW c \in Contents,
               files' = [files EXCEPT ![f] = c]
        PROVE  files'[Out] = files[Out]
    BY <2>0, <2>2, WriteFile, Names
  <2>3. CASE CreateDotS \/ WriteDotS
    <3>1. DotS(source) \in FileNames /\ DotS(source) # Out  BY <2>0, Names
    <3> QED  BY <2>0, <2>1, <2>2, <2>3, <3>1 DEF CreateDotS, WriteDotS
  <2>4. CASE DumpIr \/ DumpAst
    <3>1. \A k \in {"ir", "ast"} : Dump(source, k) \in FileNames /\ Dump(source, k) # Out
      BY <2>0, Names
    <3> QED  BY <2>0, <2>1, <2>2, <2>4, <3>1 DEF DumpIr, DumpAst
  <2>5. ~(CreateOutput \/ Assemble \/ Link)
    BY DEF DriverInv, Progress, CreateOutput, Assemble, Link
  <2>6. CASE Cleanup
    <3>1. Out \in FileNames /\ Out \notin Removed  BY Names DEF Removed
    <3> QED  BY <2>6, <3>1 DEF Cleanup
  <2> QED
    BY <2>1, <2>3, <2>4, <2>5, <2>6
       DEF Next, Step, Exited, Looping, vars, Start, Parse, ParseThrows, Parsed, Statement,
           StatementNeverReturns, PhaseAborts, Resolved, Check
<1> QED  BY <1>1, DriverCorrect, PTL DEF Spec, CompileOnlyKeepsOutput

(* nnc_link runs when each object is one that this run has assembled, at    *)
(* every step that makes the output an executable.                          *)
THEOREM DriverLinksFresh == Spec => LinksFreshObjects
<1>1. DriverInv /\ [Next]_vars =>
        [files'[Out] = "exe" /\ files[Out] # "exe" =>
           \A i \in Sources : files[DotO(i)] = "obj"]_vars
  <2> SUFFICES ASSUME DriverInv, Next, files'[Out] = "exe", files[Out] # "exe"
               PROVE  \A i \in Sources : files[DotO(i)] = "obj"
    BY DEF vars
  <2>0. /\ TypeOK /\ source \in Sources /\ Out \in FileNames
        /\ {"empty", "asm", "obj", "dump"} \subseteq Contents
    BY Names DEF DriverInv, TypeOK, Contents
  <2>1. files' # files  OBVIOUS
  <2>2. ASSUME NEW f \in FileNames, NEW c \in {"empty", "asm", "obj", "dump"}
        PROVE  files' # [files EXCEPT ![f] = c]
    BY <2>0, WriteFile, Names
  <2>3. ~(CreateDotS \/ WriteDotS \/ DumpIr \/ DumpAst \/ CreateOutput \/ Assemble)
    <3>1. /\ DotS(source) \in FileNames /\ DotO(source) \in FileNames
          /\ \A k \in {"ir", "ast"} : Dump(source, k) \in FileNames
      BY <2>0, Names
    <3> QED
      BY <2>0, <2>1, <2>2, <3>1
         DEF CreateDotS, WriteDotS, DumpIr, DumpAst, CreateOutput, Assemble
  <2>4. ~Cleanup
    BY <2>0 DEF Cleanup
  <2>5. CASE Link
    BY <2>5 DEF Link, DriverInv, Progress
  <2> QED
    BY <2>1, <2>3, <2>4, <2>5
       DEF Next, Step, Exited, Looping, vars, Start, Parse, ParseThrows, Parsed, Statement,
           StatementNeverReturns, PhaseAborts, Resolved, Check
<1> QED  BY <1>1, DriverCorrect, PTL DEF Spec, LinksFreshObjects
==============================================================================
