-------------------------- MODULE NncTryCatchProofs --------------------------
(***************************************************************************)
(* Proofs about NncTryCatch, for every limit of the depth and every set of *)
(* exception kinds: TryInv is inductive.                                   *)
(***************************************************************************)
EXTENDS NncTryCatch, SequenceTheorems, TLAPS

(* The first n frames of a sequence of frames. *)
LEMMA Prefix ==
  ASSUME NEW s \in Seq(Frame), NEW n \in 0 .. Len(s)
  PROVE  /\ SubSeq(s, 1, n) \in Seq(Frame)
         /\ Len(SubSeq(s, 1, n)) = n
         /\ \A i \in 1 .. n : SubSeq(s, 1, n)[i] = s[i]
<1>1. \A i \in 1 .. n : s[i] \in Frame  OBVIOUS
<1> QED  BY <1>1

(* One more frame on top of a sequence of frames. *)
LEMMA Extend ==
  ASSUME NEW s \in Seq(Frame), NEW f \in Frame
  PROVE  /\ Append(s, f) \in Seq(Frame)
         /\ Len(Append(s, f)) = Len(s) + 1
         /\ \A i \in 1 .. Len(s) : Append(s, f)[i] = s[i]
         /\ Append(s, f)[Len(s) + 1] = f
OBVIOUS

(* The program starts outside of every TRY statement. *)
LEMMA InitInv == Init => TryInv
<1> SUFFICES ASSUME Init PROVE TryInv  OBVIOUS
<1> USE DepthAssumption, KindAssumption, BoundAssumption DEF Init, NoFrame
<1>1. TypeOK  BY DEF TypeOK
<1>2. DepthMatches /\ BuffersLive /\ HandlerSeesThrown /\ EveryThrowCounted
  BY DEF DepthMatches, BuffersLive, HandlerSeesThrown, EveryThrowCounted
<1>3. MainOutermost /\ IdsAscend  BY DEF MainOutermost, IdsAscend
<1> QED  BY <1>1, <1>2, <1>3 DEF TryInv

(* Entering a TRY statement on top of the active ones `under': the new      *)
(* buffer is above all of theirs.                                           *)
LEMMA EnterTryInv ==
  ASSUME TryInv, NEW site \in Sites, NEW STATE under,
         under \in Seq(Frame), Len(under) = depth, Len(under) =< Len(frames),
         \A n \in 1 .. Len(under) : under[n] = frames[n],
         site = "main" <=> Len(under) = 0,
         depth = NNC_EXCEPTION_MAX_DEPTH => Len(frames) = depth,
         pc \in {"start", "run", "handler"},
         EnterTry(site, under)
  PROVE  /\ canarie' \in Nat => TypeOK'
         /\ DepthMatches' /\ BuffersLive' /\ HandlerSeesThrown'
         /\ MainOutermost' /\ IdsAscend'
<1> USE DepthAssumption, KindAssumption DEF TryInv, EnterTry
<1>1. depth \in 0 .. NNC_EXCEPTION_MAX_DEPTH /\ tries \in Nat /\ tries' = tries + 1
  BY DEF TypeOK
<1>2. CASE depth = NNC_EXCEPTION_MAX_DEPTH
  <2>1. /\ pc' = "aborted" /\ frames' = frames /\ depth' = depth
        /\ exceptions' = exceptions /\ Len(frames) = depth
    BY <1>2
  <2>2. frames \in Seq(Frame) /\ Len(frames) \in Nat  BY DEF TypeOK
  <2>3. BuffersLive'
    <3>1. \A n \in 1 .. Len(frames) : n - 1 # depth /\ n - 1 \in 0 .. NNC_EXCEPTION_MAX_DEPTH
      BY <1>1, <2>1, <2>2
    <3> QED  BY <1>1, <2>1, <3>1 DEF BuffersLive, TypeOK
  <2>4. canarie' \in Nat => TypeOK'  BY <1>1, <2>1 DEF TypeOK
  <2>5. DepthMatches' /\ HandlerSeesThrown'
    BY <1>1, <2>1, <2>2 DEF DepthMatches, HandlerSeesThrown
  <2>6. MainOutermost' /\ IdsAscend'
    BY <1>1, <2>1 DEF MainOutermost, IdsAscend
  <2> QED  BY <2>3, <2>4, <2>5, <2>6
<1>3. CASE depth # NNC_EXCEPTION_MAX_DEPTH
  <2> DEFINE f == [site |-> site, id |-> tries + 1]
  <2>1. f \in Frame  BY <1>1 DEF Frame
  <2>2. /\ frames' = Append(under, f) /\ depth' = depth + 1 /\ pc' = "run"
        /\ stack' = [stack EXCEPT ![depth] = tries + 1]
        /\ exceptions' = [exceptions EXCEPT ![depth] = NNC_CONTEXT_SAVED]
    BY <1>1, <1>3
  <2>3. /\ frames' \in Seq(Frame) /\ Len(frames') = depth + 1
        /\ \A n \in 1 .. depth : frames'[n] = frames[n]
        /\ frames'[depth + 1] = f
    BY <2>1, <2>2, Extend
  <2> HIDE DEF f
  <2>4. canarie' \in Nat => TypeOK'
    BY <1>1, <1>3, <2>2, <2>3 DEF TypeOK
  <2>5. DepthMatches' /\ HandlerSeesThrown'
    BY <1>1, <2>2, <2>3 DEF DepthMatches, HandlerSeesThrown
  <2>6. BuffersLive'
    <3>1. \A n \in 1 .. depth : stack'[n - 1] = frames'[n].id
      <4>1. \A n \in 1 .. depth : n \in 1 .. Len(frames) /\ stack[n - 1] = frames[n].id
        BY <1>1 DEF BuffersLive, TypeOK
      <4>2. \A n \in 1 .. depth : stack'[n - 1] = stack[n - 1]
        BY <1>1, <2>2 DEF TypeOK
      <4> QED  BY <2>3, <4>1, <4>2
    <3>2. stack'[depth] = f.id  BY <1>1, <2>2 DEF TypeOK, f
    <3> QED  BY <1>1, <2>3, <3>1, <3>2 DEF BuffersLive
  <2>7. MainOutermost'
    <3>1. \A n \in 1 .. depth : frames'[n].site = "main" <=> n = 1
      BY <1>1, <2>3 DEF MainOutermost
    <3>2. f.site = "main" <=> depth + 1 = 1  BY <1>1 DEF f
    <3> QED  BY <1>1, <2>2, <2>3, <3>1, <3>2 DEF MainOutermost
  <2>8. IdsAscend'
    <3>1. \A n \in 1 .. depth : frames'[n].id \in 1 .. tries
      BY <1>1, <2>3 DEF IdsAscend
    <3>2. \A m, n \in 1 .. depth : frames'[m].id = frames'[n].id => m = n
      <4>1. \A m, n \in 1 .. depth : frames[m].id = frames[n].id => m = n
        <5>1. \A m \in 1 .. depth : m \in 1 .. Len(frames)  BY <1>1 DEF TypeOK
        <5>2. \A m, n \in 1 .. Len(frames) : frames[m].id = frames[n].id => m = n
          BY DEF IdsAscend
        <5> HIDE DEF TryInv, EnterTry
        <5> QED  BY <5>1, <5>2
      <4> HIDE DEF TryInv, EnterTry
      <4> QED  BY <2>3, <4>1
    <3>3. f.id = tries + 1  BY DEF f
    <3> QED  BY <1>1, <2>2, <2>3, <3>1, <3>2, <3>3 DEF IdsAscend
  <2> QED  BY <2>4, <2>5, <2>6, <2>7, <2>8
<1> QED  BY <1>2, <1>3

(* A longjmp from an active TRY statement lands in that very statement.     *)
LEMMA LongjmpInv ==
  ASSUME TryInv, NEW STATE kind, kind \in Kinds, depth \in 1 .. Len(frames),
         Longjmp(kind), raised' \in Nat, canarie' = canarie,
         raised' = canarie + 1
  PROVE  TryInv' /\ Len(frames') = depth
<1> USE DepthAssumption, KindAssumption DEF TryInv, Longjmp
<1>1. frames \in Seq(Frame) /\ Len(frames) \in Nat /\ depth \in Nat  BY DEF TypeOK
<1>2. stack[depth - 1] = frames[depth].id  BY <1>1 DEF BuffersLive
<1>3. frames' = SubSeq(frames, 1, depth)
  BY <1>1, <1>2 DEF IdsAscend
<1>4. /\ frames' \in Seq(Frame) /\ Len(frames') = depth
      /\ \A n \in 1 .. depth : frames'[n] = frames[n]
  BY <1>1, <1>3, Prefix
<1>5. TypeOK'  BY <1>1, <1>4 DEF TypeOK
<1>6. DepthMatches' /\ HandlerSeesThrown' /\ EveryThrowCounted'
  BY <1>1, <1>4 DEF DepthMatches, HandlerSeesThrown, EveryThrowCounted, TypeOK
<1>0. \A n \in 1 .. depth : n \in 1 .. Len(frames)  BY <1>1
<1>7. BuffersLive'
  <2>1. \A n \in 1 .. depth : stack[n - 1] = frames[n].id  BY <1>0 DEF BuffersLive
  <2>2. stack' = stack  OBVIOUS
  <2> HIDE DEF TryInv, Longjmp
  <2> QED  BY <1>4, <2>1, <2>2 DEF BuffersLive
<1>8. MainOutermost'
  <2>1. \A n \in 1 .. depth : frames[n].site = "main" <=> n = 1
    BY <1>0 DEF MainOutermost
  <2> HIDE DEF TryInv, Longjmp
  <2> QED  BY <1>4, <2>1 DEF MainOutermost
<1>9. IdsAscend'
  <2>1. \A n \in 1 .. depth : frames[n].id \in 1 .. tries  BY <1>0 DEF IdsAscend
  <2>2. \A m, n \in 1 .. depth : frames[m].id = frames[n].id => m = n
    <3>1. \A m, n \in 1 .. Len(frames) : frames[m].id = frames[n].id => m = n
      BY DEF IdsAscend
    <3> HIDE DEF TryInv, Longjmp
    <3> QED  BY <1>0, <3>1
  <2>3. tries' = tries /\ thrown' \in Kinds /\ pc' = "landed"  OBVIOUS
  <2> HIDE DEF TryInv, Longjmp
  <2> QED  BY <1>4, <2>1, <2>2, <2>3 DEF IdsAscend
<1> QED  BY <1>4, <1>5, <1>6, <1>7, <1>8, <1>9

(* Leaving the innermost TRY statement, by ETRY or behind its handler.      *)
LEMMA PopInv ==
  ASSUME TryInv, Len(frames) > 0, frames' = Popped,
         pc' = IF Len(frames) = 1 THEN "done" ELSE "run",
         depth' = Len(frames) - 1,
         UNCHANGED <<stack, exceptions, thrown, tries, raised>>
  PROVE  /\ canarie' \in Nat => TypeOK'
         /\ DepthMatches' /\ BuffersLive' /\ HandlerSeesThrown'
         /\ MainOutermost' /\ IdsAscend'
<1> USE DepthAssumption DEF TryInv, Popped
<1>1. /\ frames \in Seq(Frame) /\ Len(frames) \in Nat
      /\ Len(frames) =< NNC_EXCEPTION_MAX_DEPTH
  BY DEF TypeOK, DepthMatches, HandlerSeesThrown
<1> DEFINE k == Len(frames) - 1
<1>2. k \in 0 .. Len(frames)  BY <1>1
<1>3. frames' = SubSeq(frames, 1, k)  OBVIOUS
<1>4. /\ frames' \in Seq(Frame) /\ Len(frames') = k
      /\ \A n \in 1 .. k : frames'[n] = frames[n]
  BY <1>1, <1>2, <1>3, Prefix
<1>5. canarie' \in Nat => TypeOK'  BY <1>1, <1>2, <1>4 DEF TypeOK
<1>6. DepthMatches' /\ HandlerSeesThrown'
  BY <1>1, <1>4 DEF DepthMatches, HandlerSeesThrown
<1>7. BuffersLive'  BY <1>1, <1>4 DEF BuffersLive
<1>8. MainOutermost'  BY <1>1, <1>4 DEF MainOutermost
<1>9. IdsAscend'  BY <1>1, <1>4, SMTT(60) DEF IdsAscend
<1> QED  BY <1>5, <1>6, <1>7, <1>8, <1>9

(* The start of nnc_main and every TRY statement inside it. *)
LEMMA TryStep ==
  ASSUME TryInv, Start \/ \E site \in Sites \ {"main"} : Try(site)
  PROVE  TryInv'
<1> USE DepthAssumption DEF TryInv
<1>1. frames \in Seq(Frame) /\ Len(frames) \in Nat  BY DEF TypeOK
<1>2. CASE Start
  <2>1. /\ Len(frames) = 0 /\ depth = 0 /\ pc = "start" /\ "main" \in Sites
        /\ EnterTry("main", frames)
    BY <1>2 DEF Start, IdsAscend, Sites
  <2>2. /\ canarie' \in Nat => TypeOK'
        /\ DepthMatches' /\ BuffersLive' /\ HandlerSeesThrown'
        /\ MainOutermost' /\ IdsAscend'
    <3>1. PICK site \in Sites : site = "main"  BY <2>1
    <3>2. EnterTry(site, frames)  BY <2>1, <3>1
    <3>3. Len(frames) = depth /\ pc \in {"start", "run", "handler"}  BY <2>1
    <3>4. site = "main" <=> Len(frames) = 0  BY <2>1, <3>1
    <3> QED  BY <1>1, <3>2, <3>3, <3>4, EnterTryInv
  <2>3. canarie' \in Nat /\ EveryThrowCounted'
    BY <1>2 DEF Start, EnterTry, EveryThrowCounted, TypeOK
  <2> QED  BY <2>2, <2>3
<1>3. ASSUME NEW site \in Sites \ {"main"}, Try(site) PROVE TryInv'
  <2>1. /\ pc = "run" /\ depth = Len(frames) /\ Len(frames) > 0
        /\ EnterTry(site, frames)
    BY <1>1, <1>3 DEF Try, DepthMatches, MainOutermost
  <2>2. /\ canarie' \in Nat => TypeOK'
        /\ DepthMatches' /\ BuffersLive' /\ HandlerSeesThrown'
        /\ MainOutermost' /\ IdsAscend'
    BY <1>1, <2>1, EnterTryInv
  <2>3. canarie' \in Nat /\ EveryThrowCounted'
    BY <1>3 DEF Try, EnterTry, EveryThrowCounted, TypeOK
  <2> QED  BY <2>2, <2>3
<1> QED  BY <1>2, <1>3

(* ETRY *)
LEMMA EtryStep == ASSUME TryInv, Etry PROVE TryInv'
<1> USE DEF TryInv, Etry
<1>1. Len(frames) > 0 /\ depth' = Len(frames) - 1
  BY DEF DepthMatches, MainOutermost, TypeOK
<1>2. /\ canarie' \in Nat => TypeOK'
      /\ DepthMatches' /\ BuffersLive' /\ HandlerSeesThrown'
      /\ MainOutermost' /\ IdsAscend'
  BY <1>1, PopInv
<1>3. canarie' \in Nat /\ EveryThrowCounted'  BY DEF EveryThrowCounted, TypeOK
<1> QED  BY <1>2, <1>3

(* THROW from running code. *)
LEMMA ThrowStep ==
  ASSUME TryInv, NEW kind \in Kinds, Throw(kind) PROVE TryInv'
<1> USE DEF TryInv, Throw
<1>1. depth \in 1 .. Len(frames)
  BY DEF DepthMatches, MainOutermost, TypeOK
<1>2. raised' \in Nat /\ raised' = canarie + 1
  BY DEF EveryThrowCounted, TypeOK
<1> QED  BY <1>1, <1>2, LongjmpInv

(* nnc_try after the jump: the kind is written where nnc_catch reads it.    *)
LEMMA LandedStep == ASSUME TryInv, Landed PROVE TryInv'
<1> USE DepthAssumption, KindAssumption DEF TryInv, Landed
<1>1. /\ frames \in Seq(Frame) /\ Len(frames) \in Nat /\ depth = Len(frames)
      /\ Len(frames) > 0 /\ depth =< NNC_EXCEPTION_MAX_DEPTH
  BY DEF DepthMatches, MainOutermost, TypeOK
<1>2. CASE depth = NNC_EXCEPTION_MAX_DEPTH
  BY <1>1, <1>2 DEF TypeOK, DepthMatches, BuffersLive, HandlerSeesThrown,
     EveryThrowCounted, MainOutermost, IdsAscend
<1>3. CASE depth # NNC_EXCEPTION_MAX_DEPTH
  <2>1. /\ exceptions' = [exceptions EXCEPT ![depth] = thrown]
        /\ depth' = depth - 1 /\ pc' = "handler"
    BY <1>3
  <2>2. TypeOK'  BY <1>1, <1>3, <2>1 DEF TypeOK
  <2>3. HandlerSeesThrown'
    <3>1. exceptions'[depth] = thrown  BY <1>1, <1>3, <2>1 DEF TypeOK
    <3>2. depth' + 1 = depth  BY <1>1, <2>1
    <3> QED  BY <1>1, <1>3, <3>1, <3>2 DEF HandlerSeesThrown, NncCatch
  <2>4. DepthMatches' /\ BuffersLive' /\ EveryThrowCounted'
    BY <1>1, <2>1 DEF DepthMatches, BuffersLive, EveryThrowCounted
  <2>5. MainOutermost' /\ IdsAscend'
    BY <1>1, <2>1 DEF MainOutermost, IdsAscend
  <2> QED  BY <2>2, <2>3, <2>4, <2>5
<1> QED  BY <1>2, <1>3

(* A handler that reports. *)
LEMMA ReportStep == ASSUME TryInv, Report PROVE TryInv'
<1> USE DEF TryInv, Report, globals
<1>1. Len(frames) > 0 /\ depth' = Len(frames) - 1
  BY DEF DepthMatches, MainOutermost, TypeOK
<1>2. /\ canarie' \in Nat => TypeOK'
      /\ DepthMatches' /\ BuffersLive' /\ HandlerSeesThrown'
      /\ MainOutermost' /\ IdsAscend'
  BY <1>1, PopInv
<1>3. canarie' \in Nat /\ EveryThrowCounted'  BY DEF EveryThrowCounted, TypeOK
<1> QED  BY <1>2, <1>3

(* The handler of the lexer, which enters a new TRY statement in the place  *)
(* of the one it leaves.                                                    *)
LEMMA LexAgainStep == ASSUME TryInv, LexAgain PROVE TryInv'
<1> USE DepthAssumption DEF TryInv, LexAgain
<1>1. /\ frames \in Seq(Frame) /\ Len(frames) \in Nat /\ depth = Len(frames) - 1
      /\ depth \in Nat /\ depth < NNC_EXCEPTION_MAX_DEPTH
      /\ Len(frames) > 0 /\ frames[Len(frames)].site = "lex"
  BY DEF DepthMatches, MainOutermost, TypeOK, HandlerSeesThrown, Top
<1>2. Len(frames) # 1  BY <1>1 DEF MainOutermost
<1>3. /\ Popped \in Seq(Frame) /\ Len(Popped) = depth
      /\ \A n \in 1 .. depth : Popped[n] = frames[n]
  BY <1>1, Prefix DEF Popped
<1>4. "lex" \in Sites  BY DEF Sites
<1>5. /\ canarie' \in Nat => TypeOK'
      /\ DepthMatches' /\ BuffersLive' /\ HandlerSeesThrown'
      /\ MainOutermost' /\ IdsAscend'
  BY <1>1, <1>2, <1>3, <1>4, EnterTryInv
<1>6. canarie' \in Nat /\ EveryThrowCounted'
  BY <1>1 DEF EveryThrowCounted, TypeOK, EnterTry
<1> QED  BY <1>5, <1>6

(* The rethrowing handlers: the statement around is nnc_main's or inside it.*)
LEMMA RethrowStep == ASSUME TryInv, RethrowSemantic \/ Rethrow PROVE TryInv'
<1> USE KindAssumption DEF TryInv, RethrowSemantic, Rethrow
<1>1. /\ frames \in Seq(Frame) /\ Len(frames) \in Nat /\ depth = Len(frames) - 1
      /\ Len(frames) > 0 /\ frames[Len(frames)].site = "retype"
  BY DEF DepthMatches, MainOutermost, TypeOK, Top
<1>2. depth \in 1 .. Len(frames)
  BY <1>1 DEF MainOutermost
<1>3. raised' \in Nat /\ raised' = canarie + 1 /\ canarie' = canarie
  BY DEF EveryThrowCounted, TypeOK
<1>4. CASE RethrowSemantic  BY <1>2, <1>3, <1>4, LongjmpInv
<1>5. CASE Rethrow
  <2>1. thrown \in Kinds  BY <1>5 DEF IdsAscend
  <2> QED  BY <1>2, <1>3, <1>5, <2>1, LongjmpInv
<1> QED  BY <1>4, <1>5

(* The exception machinery agrees with the C call stack in every reachable  *)
(* state: depth, the jump buffers, the kinds and the error count.           *)
THEOREM TryCatchCorrect == Spec => []TryInv
<1>1. TryInv /\ [Next]_vars => TryInv'
  <2> SUFFICES ASSUME TryInv, [Next]_vars PROVE TryInv'  OBVIOUS
  <2>1. CASE Start \/ \E site \in Sites \ {"main"} : Try(site)  BY <2>1, TryStep
  <2>2. CASE Etry  BY <2>2, EtryStep
  <2>3. ASSUME NEW kind \in Kinds, Throw(kind) PROVE TryInv'  BY <2>3, ThrowStep
  <2>4. CASE Landed  BY <2>4, LandedStep
  <2>5. CASE Report  BY <2>5, ReportStep
  <2>6. CASE LexAgain  BY <2>6, LexAgainStep
  <2>7. CASE RethrowSemantic \/ Rethrow  BY <2>7, RethrowStep
  <2>8. CASE UNCHANGED vars
    BY <2>8 DEF vars, globals, TryInv, TypeOK, DepthMatches, BuffersLive,
       HandlerSeesThrown, NncCatch, EveryThrowCounted, MainOutermost, IdsAscend
  <2> QED
    BY <2>1, <2>2, <2>3, <2>4, <2>5, <2>6, <2>7, <2>8 DEF Next, Handle, Terminated
<1> QED  BY InitInv, <1>1, PTL DEF Spec

(* A throw always finds the buffer of the innermost active TRY statement.   *)
THEOREM TryCatchBuffersLive == Spec => []BuffersLive
<1>1. TryInv => BuffersLive  BY DEF TryInv
<1> QED  BY TryCatchCorrect, <1>1, PTL

(* No raised exception is swallowed or counted twice in glob_canarie.       *)
THEOREM TryCatchCounts == Spec => []EveryThrowCounted
<1>1. TryInv => EveryThrowCounted  BY DEF TryInv
<1> QED  BY TryCatchCorrect, <1>1, PTL

(* nnc_catch compares a handler's kind with the exception that was thrown,  *)
(* whatever TRY statements ran, and threw, in between.                      *)
THEOREM TryCatchHandlerSees == Spec => []HandlerSeesThrown
<1>1. TryInv => HandlerSeesThrown  BY DEF TryInv
<1> QED  BY TryCatchCorrect, <1>1, PTL
==============================================================================
