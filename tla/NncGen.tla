------------------------------- MODULE NncGen -------------------------------
(***************************************************************************)
(* The code generator (src/src/nnc_gen.c) on the quads that nnc_3a.c emits *)
(* for expressions (--no-opt), together with the run of the emitted code.  *)
(*                                                                         *)
(* nnc_3a.c walks the expression tree, so that the temporaries a later     *)
(* quad still reads form a stack: "operands".  A step is the handler of    *)
(* one quad (or of quads that always follow each other); which quad comes  *)
(* next is the program being compiled.  A call, a ternary and a logical    *)
(* operator open a frame: their operands are evaluated on a stack of their *)
(* own while "outer" waits.  The quads of the two arms of a branch are     *)
(* generated one after the other, but only one of them runs: the frame     *)
(* keeps the machine at the jump, and the allocator just goes on.          *)
(*                                                                         *)
(* The generator stops ("assert") where a C assertion fails, and the       *)
(* assembler refuses ("rejected") an instruction it cannot encode.  "lost" *)
(* is the store through a pointer that has been spilled, and the location  *)
(* that a rewrite in glob_loc_map cut off (NncMap): nnc_store then gives   *)
(* its temporary or variable another place, where its value is not.        *)
(***************************************************************************)
EXTENDS NncStorage, FiniteSets, FiniteSetsExt

CONSTANTS MaxDepth,   \* bound: frames open at a time
          MaxArgs,    \* bound: arguments of a call
          Situations  \* the situations below that the programs may contain

(* Programs in which the handlers do something that a later step regrets:   *)
(*  "argument" an argument goes to a register that DECL_CALL has pushed;    *)
(*  "scratch"  a handler pops the live range of a register that DECL_CALL   *)
(*             has pushed, without having pushed one itself;                *)
(*  "mulrax"   the second factor of a one-operand mul is in RAX;            *)
(*  "divswap"  the divisor is in RAX;                                       *)
(*  "rdx"      an operand of mul or div is in RDX;                          *)
(*  "pointer"  the address of an assignment is on the stack;                *)
(*  "cut"      a location that is still needed is behind that of an argument *)
(*             in its chain of glob_loc_map.  (nnc_swap_loc rewrites too, in *)
(*             the situation "divswap"; nnc_spill does for a parameter, in   *)
(*             the prologue, behind which only a rehash can put another.)    *)
AllSituations == {"argument", "scratch", "mulrax", "divswap", "rdx", "pointer", "cut"}

ASSUME BoundAssumption == MaxDepth \in Nat /\ MaxArgs \in Nat
ASSUME SituationAssumption == Situations \subseteq AllSituations

VARIABLES gen,       \* the generator state of NncStorage
          operands,  \* the temporaries of the current frame that are waiting
          frames,    \* glob_call_states, and the branches that are open
          status     \* "run", or why there is no program

vars == <<gen, operands, frames, status>>

Machine(g) == [reg |-> g.reg, slots |-> g.slots, stk |-> g.stk]
OnMachine(g, m) == [g EXCEPT !.reg = m.reg, !.slots = m.slots, !.stk = m.stk]

(* nnc_gen_proc: nnc_reset_lr_vec and nnc_reset_loc_map; the parameters     *)
(* leave the registers for their stack slots (nnc_gen_store_params).        *)
Init ==
  /\ gen = [lrs   |-> [r \in Regs |-> <<>>],
            loc   |-> [c \in Cgts |-> "none"],
            reg   |-> [r \in Regs |-> JUNK],
            slots |-> {},
            stk   |-> <<>>]
  /\ operands = <<>>
  /\ frames = <<>>
  /\ status = "run"

-----------------------------------------------------------------------------
Dead(g) == {c \in Cgts : g.loc[c] = "none"}

(* nnc_3a_mkcgt *)
Fresh(g) == Min(Dead(g))

OnStack(g, c) == g.loc[c] = "stack"

Arg1 == operands[Len(operands) - 1]
Arg2 == Last(operands)
Below(n) == SubSeq(operands, 1, Len(operands) - n)
InFrame(kind) == frames # <<>> /\ Last(frames).kind = kind

(* Registers that the DECL_CALL of an open call has pushed. *)
Pushed == UNION {ToSet(frames[i].pushed) : i \in DOMAIN frames}

(* Reserving r replaces the NULL of nnc_push_reg, and releasing it pops it. *)
Uncovers(r) == r \in Pushed /\ ~Busy(gen, r)

(* A failed assertion ends the generator, and a file that the assembler      *)
(* rejects is no program.                                                   *)
Running == status = "run"

Allows(situation, met) == met => situation \in Situations

(* The code of a quad is out; the temporaries that no later quad mentions   *)
(* are dead.                                                                *)
Emit(g, dead, ops) ==
  gen' = Retire(g, dead) /\ operands' = ops /\ UNCHANGED <<frames, status>>

Stop(why) == status' = why /\ UNCHANGED <<gen, operands, frames>>

(* A quad whose result c is also its first argument. *)
Update(g, c, v) == Write(Forget(g, {c}), c, v)

(* nnc_gen_mov_operand_to_operand from o to c, both with a location. *)
MovOperand(g, c, o) ==
  LET v == Computed(c, Contents(g, {o}), {o})
  IN  IF OnStack(g, c) /\ OnStack(g, o) THEN MovMemToMem(g, c, v) ELSE Write(g, c, v)

-----------------------------------------------------------------------------
(* Quads that make a temporary.                                             *)

(* OP_COPY of a constant (nnc_gen_mov_imm_to_mem does not end its line) or  *)
(* of a variable, OP_REF (nnc_gen_erase_reg insists on a register).         *)
Load(source) ==
  /\ Running
  /\ Dead(gen) # {}
  /\ LET c == Fresh(gen)
         g == StoreCgt(gen, c)
     IN  IF ~OnStack(g, c)
         THEN Emit(Write(g, c, Val(c)), {}, Append(operands, c))
         ELSE CASE source = "name" -> Emit(MovMemToMem(g, c, Val(c)), {}, Append(operands, c))
                [] source = "imm"  -> Stop("rejected")
                [] source = "ref"  -> Stop("assert")

(* nnc_gen_op_cast, nnc_gen_op_copy of a temporary *)
Move ==
  /\ Running
  /\ operands # <<>> /\ Dead(gen) # {}
  /\ LET c == Fresh(gen)
     IN  Emit(MovOperand(StoreCgt(gen, c), c, Arg2), {Arg2}, Append(Below(1), c))

(* nnc_gen_op_deref *)
Deref ==
  /\ Running
  /\ operands # <<>> /\ Dead(gen) # {}
  /\ LET o      == Arg2
         c      == Fresh(gen)
         inside == gen.loc[o] = "rbx"
         loaded == IF inside THEN gen
                   ELSE MovToReg(GenReserveReg(gen, "rbx"), "rbx", Content(gen, o))
         g      == StoreCgt(loaded, c)
         v      == Computed(c, [a \in {o} |-> loaded.reg["rbx"]], {o})
     IN  /\ Allows("scratch", IF inside THEN "rbx" \in Pushed ELSE Uncovers("rbx"))
         /\ IF OnStack(g, c)
            THEN Stop("rejected")
            ELSE Emit(GenPopReg(Write(g, c, v), "rbx", ~inside /\ Busy(gen, "rbx")),
                      {o}, Append(Below(1), c))

-----------------------------------------------------------------------------
(* Operators.  The result of most is their first argument.                  *)

(* nnc_gen_op_unary; also nnc_gen_three_op_mul of pointer arithmetic, which *)
(* needs a register.                                                        *)
Unary(scale) ==
  /\ Running
  /\ operands # <<>>
  /\ IF scale /\ OnStack(gen, Arg2)
     THEN Stop("rejected")
     ELSE Emit(Update(gen, Arg2, Computed(Arg2, Contents(gen, {Arg2}), {Arg2})), {}, operands)

(* nnc_gen_op_binary when the result is its first argument, the two-operand *)
(* imul included: one operand at most is in memory.                         *)
Binary ==
  /\ Running
  /\ Len(operands) >= 2
  /\ IF OnStack(gen, Arg1) /\ OnStack(gen, Arg2)
     THEN Stop("rejected")
     ELSE LET from == {Arg1, Arg2}
          IN  Emit(Update(gen, Arg1, Computed(Arg1, Contents(gen, from), from)),
                   {Arg2}, Below(1))

(* The OP_MUL of an index: nnc_gen_three_op_mul, or an imul with a constant *)
(* as its only operand.                                                     *)
Scale ==
  /\ Running
  /\ operands # <<>> /\ Dead(gen) # {}
  /\ LET c == Fresh(gen)
         g == StoreCgt(gen, c)
     IN  IF OnStack(gen, Arg2) \/ OnStack(g, c)
         THEN Stop("rejected")
         ELSE Emit(MovOperand(g, c, Arg2), {Arg2}, Append(Below(1), c))

(* The OP_ADD of an index: nnc_gen_op_binary with a result of its own.      *)
Sum(arg1, arg2) ==
  /\ Running
  /\ Len(operands) >= 2 /\ Dead(gen) # {}
  /\ LET c    == Fresh(gen)
         from == {arg1, arg2}
         sum  == Update(gen, arg1, Computed(arg1, Contents(gen, from), from))
     IN  IF OnStack(gen, arg1) /\ OnStack(gen, arg2)
         THEN Stop("rejected")
         ELSE Emit(MovOperand(StoreCgt(sum, c), c, arg1), from, Append(Below(2), c))

(* nnc_gen_one_op_mul: any unsigned product, and imul on a spilled factor.  *)
OneOpMul ==
  /\ Running
  /\ Len(operands) >= 2
  /\ Allows("mulrax", gen.loc[Arg2] = "rax")
  /\ Allows("rdx", gen.loc[Arg1] = "rdx")
  /\ Allows("scratch", Uncovers("rdx") \/ (gen.loc[Arg1] # "rax" /\ Uncovers("rax")))
  /\ LET inside  == gen.loc[Arg1] = "rax"
         g       == GenReserveReg(gen, "rdx")
         loaded  == IF inside THEN g
                    ELSE MovToReg(GenReserveReg(g, "rax"), "rax", Content(g, Arg1))
         from    == {Arg1, Arg2}
         read    == [a \in from |-> IF a = Arg1 THEN loaded.reg["rax"] ELSE Content(loaded, a)]
         v       == Computed(Arg1, read, from)
         product == MovToReg(MovToReg(Forget(loaded, {Arg1}), "rdx", JUNK), "rax", v)
         stored  == IF inside THEN product
                    ELSE GenPopReg(Write(product, Arg1, v), "rax", Busy(g, "rax"))
     IN  Emit(GenPopReg(stored, "rdx", Busy(gen, "rdx")), {Arg2}, Below(1))

(* nnc_gen_one_op_div.  When the divisor is in RAX, the locations of the    *)
(* two are swapped, which nnc_swap_loc refuses for a spilled dividend.      *)
OneOpDiv(mod) ==
  /\ Running
  /\ Len(operands) >= 2
  /\ Allows("divswap", gen.loc[Arg2] = "rax")
  /\ Allows("rdx", "rdx" \in {gen.loc[Arg1], gen.loc[Arg2]})
  /\ Allows("scratch", Uncovers("rdx") \/ (gen.loc[Arg1] # "rax" /\ Uncovers("rax")))
  /\ LET inside  == gen.loc[Arg1] = "rax"
         swap    == gen.loc[Arg2] = "rax"
         g       == GenReserveReg(gen, "rdx")
         loaded  == MovToReg(GenReserveReg(g, "rax"), "rax", Content(g, Arg1))
         swapped == GenPop(SwapLoc(PopReg(loaded, "rax"), Arg1, Arg2), gen.loc[Arg1])
         ready   == MovToReg(IF inside THEN g ELSE IF swap THEN swapped ELSE loaded, "rdx", JUNK)
         from    == {Arg1, Arg2}
         read    == [a \in from |-> IF a = Arg1 THEN ready.reg["rax"] ELSE Content(ready, a)]
         v       == Computed(Arg1, read, from)
         divided == MovToReg(MovToReg(Forget(ready, {Arg1}), "rax", IF mod THEN JUNK ELSE v),
                             "rdx", IF mod THEN v ELSE JUNK)
         stored  == Write(divided, Arg1, v)
         restored == IF stored.loc[Arg1] = "rax" THEN stored
                     ELSE GenPopReg(stored, "rax", Busy(g, "rax"))
     IN  IF swap /\ OnStack(gen, Arg1)
         THEN Stop("assert")
         ELSE Emit(GenPopReg(restored, "rdx", Busy(gen, "rdx")), {Arg2}, Below(1))

(* nnc_gen_inst_shift.  The pop of a busy RCX lands on the line of the      *)
(* shift.                                                                   *)
Shift ==
  /\ Running
  /\ Len(operands) >= 2
  /\ LET inside == gen.loc[Arg2] = "rcx"
         from   == {Arg1, Arg2}
         count  == IF inside THEN gen
                   ELSE MovToReg(ReserveReg(gen, "rcx"), "rcx", Content(gen, Arg2))
         read   == [a \in from |-> IF a = Arg2 THEN count.reg["rcx"] ELSE Content(count, a)]
         v      == Computed(Arg1, read, from)
     IN  IF gen.loc[Arg1] = "rcx" THEN Stop("assert")
         ELSE IF ~inside /\ Busy(gen, "rcx") THEN Stop("rejected")
         ELSE /\ Allows("scratch", "rcx" \in Pushed)
              /\ Emit(PopReg(Update(count, Arg1, v), "rcx"), {Arg2}, Below(1))

(* nnc_binary_rel_to_3a (n = 2) and nnc_not_to_3a (n = 1): the operands are *)
(* compared, and the result is one of two constants.                        *)
Compare(n) ==
  /\ Running
  /\ Len(operands) >= n
  /\ LET from == {operands[i] : i \in (Len(operands) - n + 1) .. Len(operands)}
         left == Retire(gen, from)
         c    == Fresh(left)
         g    == StoreCgt(left, c)
     IN  IF (\A a \in from : OnStack(gen, a)) \/ OnStack(g, c)
         THEN Stop("rejected")
         ELSE Emit(Write(g, c, Computed(c, Contents(gen, from), from)), {}, Append(Below(n), c))

(* OP_DEREF_COPY to an address and the OP_COPY that follows it: the address *)
(* is dead by then.                                                         *)
Assign ==
  /\ Running
  /\ Len(operands) >= 2
  /\ Allows("pointer", OnStack(gen, Arg1))
  /\ LET left == Retire(gen, {Arg1})
         c    == Fresh(left)
     IN  IF OnStack(gen, Arg1) THEN Stop("lost")
         ELSE IF OnStack(gen, Arg2) THEN Stop("rejected")
         ELSE Emit(MovOperand(StoreCgt(left, c), c, Arg2), {Arg2}, Append(Below(2), c))

(* nnc_gen_op_retf, OP_COPY to a variable (a spilled value goes through     *)
(* R15), the test of a statement, or a value that nobody reads.             *)
Finish(use) ==
  /\ Running
  /\ operands # <<>>
  /\ use # "unused" => frames = <<>> /\ Len(operands) = 1
  /\ IF use = "test" /\ OnStack(gen, Arg2) THEN Stop("rejected")
     ELSE Emit(CASE use = "return" -> MovToReg(gen, "rax", Content(gen, Arg2))
                 [] use = "let" /\ OnStack(gen, Arg2) -> MovMemToMem(gen, FREE, Content(gen, Arg2))
                 [] OTHER -> gen,
               {Arg2}, Below(1))

-----------------------------------------------------------------------------
(* Branches.                                                                *)

(* nnc_ternary_to_3a, nnc_or_to_3a and nnc_and_to_3a up to the first jump.  *)
Branch(kind) ==
  /\ Running
  /\ operands # <<>> /\ Len(frames) < MaxDepth
  /\ IF OnStack(gen, Arg2) THEN Stop("rejected")
     ELSE LET g == Retire(gen, {Arg2})
          IN  /\ gen' = g
              /\ operands' = <<>>
              /\ frames' = Append(frames, [kind |-> kind, outer |-> Below(1), res |-> FREE,
                                           pushed |-> <<>>, args |-> 0, machine |-> Machine(g)])
              /\ UNCHANGED status

(* The second operand of a logical operator is tested, and the result is a  *)
(* constant, whichever jump was taken.                                      *)
LogicEnd ==
  /\ Running
  /\ InFrame("logic") /\ Len(operands) = 1
  /\ LET left == Retire(gen, {Arg2})
         c    == Fresh(left)
         g    == StoreCgt(left, c)
     IN  IF OnStack(gen, Arg2) \/ OnStack(g, c) THEN Stop("rejected")
         ELSE /\ \E m \in {Machine(g), Last(frames).machine} :
                    gen' = Write(OnMachine(g, m), c, Val(c))
              /\ operands' = Append(Last(frames).outer, c)
              /\ frames' = Front(frames)
              /\ UNCHANGED status

(* The first arm of a ternary ends with a copy to its result and a jump to  *)
(* the end; the second arm starts at its label.                             *)
ThenEnd ==
  /\ Running
  /\ InFrame("then") /\ Len(operands) = 1 /\ Dead(gen) # {}
  /\ LET c == Fresh(gen)
         g == Retire(MovOperand(StoreCgt(gen, c), c, Arg2), {Arg2})
         f == Last(frames)
     IN  /\ gen' = OnMachine(g, f.machine)
         /\ operands' = <<>>
         /\ frames' = Append(Front(frames), [f EXCEPT !.kind = "else", !.res = c,
                                                      !.machine = Machine(g)])
         /\ UNCHANGED status

(* The second arm ends with a copy to the result; both arms meet here.      *)
ElseEnd ==
  /\ Running
  /\ InFrame("else") /\ Len(operands) = 1
  /\ LET f == Last(frames)
         g == Retire(MovOperand(gen, f.res, Arg2), {Arg2})
     IN  /\ Allows("scratch", OnStack(gen, f.res) /\ OnStack(gen, Arg2) /\ Uncovers("r15"))
         /\ \E m \in {Machine(g), f.machine} : gen' = OnMachine(g, m)
         /\ operands' = Append(f.outer, f.res)
         /\ frames' = Front(frames)
         /\ UNCHANGED status

-----------------------------------------------------------------------------
(* Calls.                                                                   *)

(* The registers that the loop of nnc_gen_op_decl_call pushes: all that are *)
(* busy, except the one of the result.                                      *)
Saved(g, res) ==
  LET Pushes(r) == Busy(g, r) /\ (res = FREE \/ r # g.loc[res])
      saved[i \in 0 .. Len(GlobRegs)] ==
        IF i = 0 THEN <<>>
        ELSE IF Pushes(GlobRegs[i]) THEN Append(saved[i - 1], GlobRegs[i]) ELSE saved[i - 1]
  IN  saved[Len(GlobRegs)]

(* nnc_gen_op_decl_call *)
DeclCall(function) ==
  /\ Running
  /\ Len(frames) < MaxDepth
  /\ function => Dead(gen) # {}
  /\ LET res    == IF function THEN Fresh(gen) ELSE FREE
         g      == IF function THEN StoreCgt(gen, res) ELSE gen
         pushed == Saved(g, res)
     IN  /\ gen' = [g EXCEPT
                      !.lrs = [r \in Regs |-> IF r \in ToSet(pushed) THEN Append(@[r], FREE) ELSE @[r]],
                      !.stk = @ \o [i \in DOMAIN pushed |-> g.reg[pushed[i]]]]
         /\ operands' = <<>>
         /\ frames' = Append(frames, [kind |-> "call", outer |-> operands, res |-> res,
                                      pushed |-> pushed, args |-> 0, machine |-> <<>>])
         /\ UNCHANGED status

(* Mutant: the register of an argument is not reserved. *)
StoreParam_NotReserved(g, i) == g

(* nnc_store_param: argument i gets a register, or a place on the stack. *)
StoreParam(g, i) == IF i <= Len(IntPParam) THEN ReserveReg(g, IntPParam[i]) ELSE g

(* nnc_gen_op_arg.  nnc_put_loc rewrites the location of the argument, which *)
(* cuts off the locations behind it in the chain.                           *)
Arg ==
  /\ Running
  /\ InFrame("call") /\ Len(operands) = 1 /\ Last(frames).args < MaxArgs
  /\ LET i == Last(frames).args + 1
         v == IF Content(gen, Arg2) = Val(Arg2) THEN ArgVal(Len(frames), i) ELSE JUNK
         g == StoreParam(gen, i)
     IN  /\ Allows("argument", i <= Len(IntPParam) /\ Uncovers(IntPParam[i]))
         /\ \E cut \in BOOLEAN :
              /\ Allows("cut", cut)
              /\ IF OnStack(gen, Arg2) THEN Stop("assert")
                 ELSE IF cut THEN Stop("lost")
                 ELSE /\ gen' = Retire(IF i <= Len(IntPParam) THEN MovToReg(g, IntPParam[i], v)
                                       ELSE [g EXCEPT !.stk = Append(@, v)], {Arg2})
                      /\ operands' = <<>>
                      /\ frames' = [frames EXCEPT ![Len(frames)].args = i]
                      /\ UNCHANGED status

(* The arguments of a call that are on the stack. *)
StackArgs(f) == IF f.args > Len(IntPParam) THEN f.args - Len(IntPParam) ELSE 0

(* nnc_get_stack_pad, in units of 8 bytes *)
GetStackPad(n) == n % 2

(* Mutant: the stack is left as it is. *)
CallerPrepare_Unaligned(g, f) == g

(* nnc_gen_caller_prepare, nnc_gen_align_stack: R15 is pushed for the pad.  *)
CallerPrepare(g, f) ==
  LET pad == GetStackPad(GetStackPad(Len(g.stk)) + GetStackPad(StackArgs(f)))
  IN  IF pad = 0 THEN g ELSE [g EXCEPT !.stk = Append(@, g.reg["r15"])]

(* Mutant: the registers are popped in the order they were pushed. *)
PopSaved_Fifo(g, pushed) ==
  LET n == Len(g.stk) - Len(pushed)
  IN  [g EXCEPT !.reg = [r \in Regs |-> IF r \in ToSet(pushed)
                           THEN g.stk[Len(g.stk) + 1 - CHOOSE i \in DOMAIN pushed : pushed[i] = r]
                           ELSE g.reg[r]],
                !.stk = SubSeq(@, 1, n)]

(* nnc_gen_caller_restore: the pushed registers are popped. *)
PopSaved(g, pushed) ==
  LET n == Len(g.stk) - Len(pushed)
  IN  [g EXCEPT !.reg = [r \in Regs |-> IF r \in ToSet(pushed)
                           THEN g.stk[n + CHOOSE i \in DOMAIN pushed : pushed[i] = r]
                           ELSE g.reg[r]],
                !.stk = SubSeq(@, 1, n)]

(* nnc_unreserve_reg of the registers of the arguments. *)
Unreserved(g, f) ==
  LET abiUsed == {IntPParam[i] : i \in DOMAIN IntPParam \cap (1 .. f.args)}
  IN  [g EXCEPT !.lrs = [r \in Regs |-> IF r \in abiUsed THEN PopReg(g, r).lrs[r] ELSE g.lrs[r]]]

(* Mutant: the live ranges below those of the call are not brought back. *)
PclassStateFini_KeepsPushed(g, f) == Unreserved(g, f)

(* nnc_pclass_state_fini: nnc_pop_reg of the registers that were pushed.    *)
PclassStateFini(g, f) ==
  LET u == Unreserved(g, f)
  IN  [u EXCEPT !.lrs = [r \in Regs |->
         IF r \in ToSet(f.pushed) THEN PopReg(u, r).lrs[r] ELSE u.lrs[r]]]

(* nnc_gen_op_fcall and nnc_gen_op_pcall: whatever is called leaves its     *)
(* result in RAX and nothing in the other registers.                        *)
Call ==
  /\ Running
  /\ InFrame("call") /\ Len(operands) = 1
  /\ LET f        == Last(frames)
         prepared == CallerPrepare(gen, f)
         called   == [prepared EXCEPT !.reg = [r \in Regs |-> JUNK]]
         result   == IF f.res = FREE THEN called ELSE Write(called, f.res, Val(f.res))
         freed    == [result EXCEPT !.stk = SubSeq(@, 1, Len(gen.stk) - StackArgs(f))]
         g        == PclassStateFini(PopSaved(freed, f.pushed), f)
     IN  /\ gen' = Retire(g, {Arg2})
         /\ operands' = IF f.res = FREE THEN f.outer ELSE Append(f.outer, f.res)
         /\ frames' = Front(frames)
         /\ UNCHANGED status

-----------------------------------------------------------------------------
Expression ==
  \/ \E source \in {"imm", "name", "ref"} : Load(source)
  \/ Move
  \/ Deref
  \/ \E scale \in BOOLEAN : Unary(scale)
  \/ Binary
  \/ Scale
  \/ Sum(Arg1, Arg2)
  \/ Sum(Arg2, Arg1)
  \/ OneOpMul
  \/ \E mod \in BOOLEAN : OneOpDiv(mod)
  \/ Shift
  \/ \E n \in {1, 2} : Compare(n)
  \/ Assign

Control ==
  \/ \E use \in {"return", "let", "test", "unused"} : Finish(use)
  \/ \E kind \in {"logic", "then"} : Branch(kind)
  \/ LogicEnd
  \/ ThenEnd
  \/ ElseEnd
  \/ \E function \in BOOLEAN : DeclCall(function)
  \/ Arg
  \/ Call

(* nnc_gen_proc *)
Next == Expression \/ Control

Spec == Init /\ [][Next]_vars

-----------------------------------------------------------------------------
Live == Cgts \ Dead(gen)
Values == {Val(c) : c \in Cgts} \cup {JUNK}
            \cup {ArgVal(k, i) : k \in 1 .. MaxDepth, i \in 1 .. MaxArgs}

(* The frame of the innermost call: its arguments are under way. *)
CallFrames == {k \in DOMAIN frames : frames[k].kind = "call"}

(* The state has its types, and each temporary that is waiting has a        *)
(* location: nnc_store_cgt ends with a register or with a stack slot.       *)
TypeOK ==
  /\ gen.lrs \in [Regs -> Seq(Cgts \cup {FREE, RESERVED})]
  /\ gen.loc \in [Cgts -> Regs \cup {"none", "stack"}]
  /\ gen.reg \in [Regs -> Values]
  /\ gen.stk \in Seq(Values)
  /\ gen.slots \subseteq Cgts
  /\ operands \in Seq(Live)
  /\ \A i \in DOMAIN frames : frames[i].outer \in Seq(Live) /\ frames[i].args \in 0 .. MaxArgs
  /\ status \in {"run", "assert", "rejected", "lost"}

(* "arg1(res) = arg1 binOp arg2": every temporary that a later quad reads   *)
(* holds the value that was computed for it, whatever the handlers in       *)
(* between have done to its register or slot (nnc_gen.c:767).               *)
OperandsIntact == \A i \in DOMAIN operands : Content(gen, operands[i]) = Val(operands[i])

(* The register of a temporary that is still read is not free to be         *)
(* allocated: the top of its live ranges is the one of that temporary       *)
(* (nnc_store_cgt, nnc_gen_sa.c:451).                                       *)
RegistersOwned ==
  \A i \in DOMAIN operands :
     gen.loc[operands[i]] \in Regs => Peek(gen, gen.loc[operands[i]]) = operands[i]

(* The arguments that OP_ARG has placed for the innermost call are there    *)
(* until the call: in registers that stay reserved, the rest on top of the  *)
(* stack (nnc_gen_op_arg, nnc_store_param).                                 *)
ArgumentsIntact ==
  CallFrames # {} =>
    LET k == Max(CallFrames)
        f == frames[k]
    IN  \A i \in 1 .. f.args :
          IF i <= Len(IntPParam)
          THEN Peek(gen, IntPParam[i]) = RESERVED /\ gen.reg[IntPParam[i]] = ArgVal(k, i)
          ELSE gen.stk[Len(gen.stk) - f.args + i] = ArgVal(k, i)

(* Between two quads the machine stack holds just what the open calls have  *)
(* pushed, so that glob_asm_proc->stack_alloc never gets below zero and the *)
(* pops of nnc_gen_caller_restore find what DECL_CALL has pushed.           *)
StackBalanced ==
  LET held[k \in 0 .. Len(frames)] ==
        IF k = 0 THEN 0 ELSE held[k - 1] + Len(frames[k].pushed) + StackArgs(frames[k])
  IN  Len(gen.stk) = held[Len(frames)]

(* The stack of a call that is about to be made. *)
StackAtCall == Len(CallerPrepare(gen, Last(frames)).stk)

(* The stack is aligned at a call if the arguments on it are even in number *)
(* (nnc_gen_caller_prepare).                                                *)
EvenCallsAligned ==
  InFrame("call") /\ GetStackPad(StackArgs(Last(frames))) = 0 => GetStackPad(StackAtCall) = 0
=============================================================================
