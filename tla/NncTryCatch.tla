----------------------------- MODULE NncTryCatch -----------------------------
(***************************************************************************)
(* The exception machinery of the compiler (src/src/nnc_try_catch.c and    *)
(* the TRY, ETRY, CATCH, CATCHALL, THROW and RETHROW macros): setjmp       *)
(* buffers in a stack of fixed depth, a parallel array of exception kinds, *)
(* and one global `thrown' exception.                                      *)
(*                                                                         *)
(* The compiler around it is reduced to the TRY statements it enters and   *)
(* leaves and the exceptions it throws.  A TRY statement is at one of the  *)
(* sites                                                                   *)
(*   "main"     nnc_main: reports the exception and goes on to exit;       *)
(*   "report"   pass 2, compound statements, parameters, struct members:   *)
(*              reports it and goes on with the next element of the loop;  *)
(*   "lex"      nnc_lex_next: reports it and calls itself;                 *)
(*   "retype"   nnc_resolve_binary_expr_type: throws it on, a semantic one *)
(*              with the context of the right operand.                     *)
(* `frames' is the ground truth the machinery has to agree with: the TRY   *)
(* statements that the C call stack is really in.                          *)
(***************************************************************************)
EXTENDS Integers, Sequences

CONSTANTS NNC_EXCEPTION_MAX_DEPTH,
          Kinds,      \* exception kinds; none is NNC_CONTEXT_SAVED
          NNC_SEMANTIC, NNC_CONTEXT_SAVED,
          MaxTries,   \* bound: TRY statements entered by running code
          MaxThrows   \* bound: exceptions raised in a run

ASSUME DepthAssumption == NNC_EXCEPTION_MAX_DEPTH \in Nat \ {0}
ASSUME KindAssumption  == NNC_SEMANTIC \in Kinds /\ NNC_CONTEXT_SAVED \notin Kinds
ASSUME BoundAssumption == MaxTries \in Nat /\ MaxThrows \in Nat

VARIABLES depth,       \* glob_exception_stack.depth
          stack,       \* glob_exception_stack.stack: which TRY filled a buffer
          exceptions,  \* glob_exception_stack.exceptions
          thrown,      \* glob_exception_stack.thrown, also called CATCHED
          frames,      \* the TRY statements the program is in
          pc,          \* where the program is
          tries,       \* TRY statements entered so far, names the next one
          raised,      \* exceptions raised so far
          canarie      \* glob_canarie: errors reported so far

globals == <<depth, stack, exceptions, thrown>>
vars == <<globals, frames, pc, tries, raised, canarie>>

Sites == {"main", "report", "lex", "retype"}
Frame == [site : Sites, id : Nat]

NoFrame == 0  \* a jump buffer that setjmp has not filled

Top == frames[Len(frames)]
Popped == SubSeq(frames, 1, Len(frames) - 1)

(* The outermost TRY statement is the one of nnc_main. *)
Init ==
  /\ depth = 0
  /\ stack = [d \in 0 .. NNC_EXCEPTION_MAX_DEPTH |-> NoFrame]
  /\ exceptions = [d \in 0 .. NNC_EXCEPTION_MAX_DEPTH - 1 |-> NNC_CONTEXT_SAVED]
  /\ thrown = NNC_CONTEXT_SAVED
  /\ frames = <<>>
  /\ pc = "start"
  /\ tries = 0 /\ raised = 0 /\ canarie = 0

-----------------------------------------------------------------------------
(* TRY for the first time, on top of the TRY statements `under': setjmp     *)
(* fills the buffer of the current depth, before nnc_try(NNC_CONTEXT_SAVED) *)
(* looks whether there is one left.                                         *)
EnterTry(site, under) ==
  /\ tries' = tries + 1
  /\ stack' = [stack EXCEPT ![depth] = tries']
  /\ IF depth = NNC_EXCEPTION_MAX_DEPTH
     THEN pc' = "aborted" /\ UNCHANGED <<depth, exceptions, frames>>
     ELSE /\ exceptions' = [exceptions EXCEPT ![depth] = NNC_CONTEXT_SAVED]
          /\ depth' = depth + 1
          /\ frames' = Append(under, [site |-> site, id |-> tries'])
          /\ pc' = "run"
  /\ UNCHANGED <<thrown, raised>>

(* nnc_main enters its TRY statement. *)
Start ==
  /\ pc = "start"
  /\ EnterTry("main", frames)
  /\ UNCHANGED canarie

(* The code inside a TRY statement enters another one.  The lexer calls     *)
(* nothing that does.                                                       *)
Try(site) ==
  /\ pc = "run" /\ Top.site # "lex" /\ tries < MaxTries
  /\ EnterTry(site, frames)
  /\ UNCHANGED canarie

(* Mutants: an ETRY that is run twice, and one that is forgotten. *)
Etry_Twice ==
  /\ pc = "run"
  /\ depth' = depth - 2
  /\ frames' = Popped
  /\ pc' = IF Len(frames) = 1 THEN "done" ELSE "run"
  /\ UNCHANGED <<stack, exceptions, thrown, tries, raised, canarie>>
Etry_Forgotten ==
  /\ pc = "run"
  /\ frames' = Popped
  /\ pc' = IF Len(frames) = 1 THEN "done" ELSE "run"
  /\ UNCHANGED <<globals, tries, raised, canarie>>

(* ETRY, nnc_try_free: the innermost TRY statement ends normally. *)
Etry ==
  /\ pc = "run"
  /\ depth' = depth - 1
  /\ frames' = Popped
  /\ pc' = IF Len(frames) = 1 THEN "done" ELSE "run"
  /\ UNCHANGED <<stack, exceptions, thrown, tries, raised, canarie>>

(* nnc_throw up to longjmp: control comes out of the setjmp that filled the *)
(* buffer, in the TRY statement of that name.                               *)
Longjmp(kind) ==
  /\ thrown' = kind
  /\ \E n \in 1 .. Len(frames) :
       /\ frames[n].id = stack[depth - 1]
       /\ frames' = SubSeq(frames, 1, n)
  /\ pc' = "landed"
  /\ UNCHANGED <<depth, stack, exceptions, tries>>

(* THROW somewhere inside the innermost TRY statement. *)
Throw(kind) ==
  /\ pc = "run" /\ raised < MaxThrows
  /\ raised' = raised + 1
  /\ Longjmp(kind)
  /\ UNCHANGED canarie

(* Mutant: nnc_try forgets to leave the TRY statement it lands in (and      *)
(* aborts one level earlier).                                               *)
Landed_KeepsDepth ==
  /\ pc = "landed"
  /\ IF depth + 1 >= NNC_EXCEPTION_MAX_DEPTH
     THEN pc' = "aborted" /\ UNCHANGED exceptions
     ELSE /\ exceptions' = [exceptions EXCEPT ![depth] = thrown]
          /\ pc' = "handler"
  /\ UNCHANGED <<depth, stack, thrown, frames, tries, raised, canarie>>

(* TRY again: nnc_try(kind) after the jump, ending in nnc_try_free.  It     *)
(* makes the same depth check as the first time.                            *)
Landed ==
  /\ pc = "landed"
  /\ IF depth = NNC_EXCEPTION_MAX_DEPTH
     THEN pc' = "aborted" /\ UNCHANGED <<depth, exceptions>>
     ELSE /\ exceptions' = [exceptions EXCEPT ![depth] = thrown]
          /\ depth' = depth - 1
          /\ pc' = "handler"
  /\ UNCHANGED <<stack, thrown, frames, tries, raised, canarie>>

(* Mutant: nnc_catch reads the slot of the statement around. *)
NncCatch_SameDepth(kind) == exceptions[depth] = kind

(* nnc_catch *)
NncCatch(kind) == exceptions[depth + 1] = kind

(* Mutant: the handler of the loops drops the exception. *)
Report_Silent ==
  /\ pc = "handler" /\ Top.site \in {"main", "report"}
  /\ frames' = Popped
  /\ pc' = IF Len(frames) = 1 THEN "done" ELSE "run"
  /\ UNCHANGED <<globals, tries, raised, canarie>>

(* CATCHALL { NNC_SHOW_CATCHED; } and on behind the TRY statement. *)
Report ==
  /\ pc = "handler" /\ Top.site \in {"main", "report"}
  /\ canarie' = canarie + 1
  /\ frames' = Popped
  /\ pc' = IF Len(frames) = 1 THEN "done" ELSE "run"
  /\ UNCHANGED <<globals, tries, raised>>

(* The handler of nnc_lex_next: NNC_SHOW_CATCHED, nnc_lex_recover, and the  *)
(* recursive call that enters the TRY statement anew.                       *)
LexAgain ==
  /\ pc = "handler" /\ Top.site = "lex"
  /\ canarie' = canarie + 1
  /\ EnterTry("lex", Popped)

(* CATCH (NNC_SEMANTIC) of nnc_resolve_binary_expr_type throws an exception *)
(* of the same kind with a context.                                         *)
RethrowSemantic ==
  /\ pc = "handler" /\ Top.site = "retype"
  /\ NncCatch(NNC_SEMANTIC)
  /\ Longjmp(NNC_SEMANTIC)
  /\ UNCHANGED <<raised, canarie>>

(* Its CATCHALL { RETHROW; }. *)
Rethrow ==
  /\ pc = "handler" /\ Top.site = "retype"
  /\ ~NncCatch(NNC_SEMANTIC)
  /\ Longjmp(thrown)
  /\ UNCHANGED <<raised, canarie>>

(* After nnc_main has left its TRY statement only the reporting is left. *)
Terminated == pc \in {"done", "aborted"} /\ UNCHANGED vars

Handle == Landed \/ Report \/ LexAgain \/ RethrowSemantic \/ Rethrow

Next ==
  \/ Start
  \/ \E site \in Sites \ {"main"} : Try(site)
  \/ Etry
  \/ \E kind \in Kinds : Throw(kind)
  \/ Handle
  \/ Terminated

Spec == Init /\ [][Next]_vars

(* The compiler is a sequential program: code that can go on does. *)
FairSpec == Spec /\ WF_vars(Handle)

-----------------------------------------------------------------------------
(* TypeOK: the shape of the exception stack; its arrays have as many        *)
(* elements as C gives them, `stack' one more for the buffer that a TRY     *)
(* beyond the limit fills before nnc_try aborts.                            *)
TypeOK ==
  /\ depth \in 0 .. NNC_EXCEPTION_MAX_DEPTH
  /\ stack \in [0 .. NNC_EXCEPTION_MAX_DEPTH -> Nat]
  /\ exceptions \in [0 .. NNC_EXCEPTION_MAX_DEPTH - 1 -> Kinds \cup {NNC_CONTEXT_SAVED}]
  /\ thrown \in Kinds \cup {NNC_CONTEXT_SAVED}
  /\ frames \in Seq(Frame)
  /\ pc \in {"start", "run", "landed", "handler", "done", "aborted"}
  /\ tries \in Nat /\ raised \in Nat /\ canarie \in Nat

(* depth is the number of TRY statements whose body the program is in: no   *)
(* path through TRY, ETRY, THROW and the handlers leaves it one off, as the *)
(* assertions of tests/nnc_try_catch_tests demand.                          *)
DepthMatches ==
  depth = Len(frames) - (IF pc = "handler" THEN 1 ELSE 0)

(* Every active TRY statement still has its own jump buffer, so that        *)
(* longjmp(stack[depth - 1]) reaches the innermost one, and never a         *)
(* statement that was left.                                                 *)
BuffersLive ==
  \A n \in 1 .. Len(frames) : stack[n - 1] = frames[n].id

(* A handler sees the kind of the exception that was thrown: nnc_catch      *)
(* reads exceptions[depth + 1], where nnc_try wrote it, whatever TRY        *)
(* statements ran in between.                                               *)
HandlerSeesThrown ==
  pc = "handler" => depth + 1 < NNC_EXCEPTION_MAX_DEPTH /\ NncCatch(thrown)

(* No exception is swallowed or reported twice: every one that was raised   *)
(* has been counted in glob_canarie, which is what nnc_check_for_errors     *)
(* looks at, or is still on its way through the rethrowing handlers.        *)
EveryThrowCounted ==
  pc # "aborted" => raised = canarie + (IF pc \in {"landed", "handler"} THEN 1 ELSE 0)

(* The outermost TRY statement is the one of nnc_main, so that a rethrow    *)
(* always finds a buffer to jump to.                                        *)
MainOutermost ==
  /\ \A n \in 1 .. Len(frames) : frames[n].site = "main" <=> n = 1
  /\ pc \in {"run", "landed", "handler"} => Len(frames) > 0

(* The TRY statements entered have distinct names. *)
IdsAscend ==
  /\ \A n \in 1 .. Len(frames) : frames[n].id \in 1 .. tries
  /\ \A m, n \in 1 .. Len(frames) : frames[m].id = frames[n].id => m = n
  /\ pc \in {"landed", "handler"} => thrown \in Kinds
  /\ pc = "start" => frames = <<>> /\ depth = 0

(* The inductive invariant of NncTryCatchProofs. *)
TryInv ==
  /\ TypeOK /\ DepthMatches /\ BuffersLive /\ HandlerSeesThrown
  /\ EveryThrowCounted /\ MainOutermost /\ IdsAscend

(* A thrown exception is handled: the rethrows end in a handler that        *)
(* reports it, or in an abort.                                              *)
ThrowHandled == (pc = "landed") ~> (pc \in {"run", "done", "aborted"})

(* What nnc_try documents of a call after longjmp ("decrease depth, because *)
(* we leaved try-catch closure"; "otherwise `false`"): the TRY statement    *)
(* that was jumped to runs its handler, however deep it is.                 *)
ThrowReachesHandler == [][pc = "landed" => pc' = "handler"]_vars
==============================================================================
