----------------------------- MODULE NncStorage -----------------------------
(***************************************************************************)
(* The storage allocator of the code generator (src/src/nnc_gen_sa.c): a   *)
(* stack of live ranges for every register, and the location of every      *)
(* temporary (CGT), together with the machine the emitted code runs on.    *)
(*                                                                         *)
(* A generator state g is a record of                                      *)
(*   lrs   register -> glob_lr_vec, a stack of live ranges;                *)
(*   loc   temporary -> its location in glob_loc_map;                      *)
(*   reg   register -> the value it holds when the code so far has run;    *)
(*   slots the temporaries whose stack slot holds their value;             *)
(*   stk   the machine stack below the locals of the procedure.            *)
(*                                                                         *)
(* The live range of a temporary goes from its first to its last quad      *)
(* (nnc_3a_lr.c), and a location is asked for at the first: two ranges     *)
(* intersect just when the older one has not ended.  So an entry of lrs is *)
(* the temporary as long as this or a later quad mentions it, and FREE     *)
(* after that, which is also what the NULL of nnc_push_reg stands for.     *)
(***************************************************************************)
EXTENDS Integers, Sequences, SequencesExt

CONSTANTS Cgts,      \* numbers of the temporaries, reused when they are dead
          GlobRegs,  \* the general purpose registers, in the order of nnc_reg
          IntPLocal, \* _int_p_local: the order in which they are allocated
          IntPParam  \* _int_p_param: the registers of the arguments

ASSUME CgtAssumption == Cgts \subseteq Nat \ {0}
ASSUME RegAssumption ==
  /\ GlobRegs \in Seq(STRING) /\ {"rax", "rbx", "rcx", "rdx", "r15"} \subseteq ToSet(GlobRegs)
  /\ {"none", "stack"} \cap ToSet(GlobRegs) = {}
  /\ IntPLocal \in Seq(ToSet(GlobRegs)) /\ "r15" \in ToSet(IntPLocal)
  /\ IntPParam \in Seq(ToSet(GlobRegs))
  /\ \A i, j \in DOMAIN IntPParam : IntPParam[i] = IntPParam[j] => i = j

Regs == ToSet(GlobRegs)

FREE == 0        \* no live range, or one that has ended
RESERVED == -1   \* the live range of nnc_reserve_reg, which ends with UINT32_MAX

Val(c) == <<"value", c>>          \* the value of a temporary
ArgVal(k, i) == <<"arg", k, i>>   \* argument i of the k-th call under way
JUNK == <<"junk">>                \* anything else

-----------------------------------------------------------------------------
(* nnc_peek_reg *)
Peek(g, r) == IF g.lrs[r] = <<>> THEN FREE ELSE Last(g.lrs[r])

(* nnc_reg_busy, nnc_lr_intersects *)
Busy(g, r) == Peek(g, r) # FREE

(* nnc_update_reg *)
UpdateReg(g, r, lr) ==
  [g EXCEPT !.lrs[r] = Append(IF @ = <<>> THEN @ ELSE Front(@), lr)]

(* nnc_push_reg *)
PushReg(g, r) == [g EXCEPT !.lrs[r] = Append(@, FREE)]

(* nnc_pop_reg and nnc_unreserve_reg *)
PopReg(g, r) == [g EXCEPT !.lrs[r] = IF @ = <<>> THEN @ ELSE Front(@)]

(* nnc_reserve_reg *)
ReserveReg(g, r) ==
  UpdateReg(IF Busy(g, r) THEN PushReg(g, r) ELSE g, r, RESERVED)

(* Mutant: no stack slot when the registers are all busy. *)
StoreCgt_NoSpill(g, c) ==
  LET i == SelectInSeq(IntPLocal, LAMBDA r : ~Busy(g, r))
  IN  IF i = 0 THEN g ELSE [UpdateReg(g, IntPLocal[i], c) EXCEPT !.loc[c] = IntPLocal[i]]

(* nnc_store_cgt for a temporary that has no location yet: the first        *)
(* register whose live range does not intersect, or a new stack slot.       *)
StoreCgt(g, c) ==
  LET i == SelectInSeq(IntPLocal, LAMBDA r : ~Busy(g, r))
  IN  IF i = 0
      THEN [g EXCEPT !.loc[c] = "stack"]
      ELSE [UpdateReg(g, IntPLocal[i], c) EXCEPT !.loc[c] = IntPLocal[i]]

(* nnc_swap_loc *)
SwapLoc(g, c, d) == [g EXCEPT !.loc[c] = g.loc[d], !.loc[d] = g.loc[c]]

-----------------------------------------------------------------------------
(* What an instruction reads when its operand is the temporary. *)
Content(g, c) ==
  IF g.loc[c] \in Regs THEN g.reg[g.loc[c]]
  ELSE IF c \in g.slots THEN Val(c) ELSE JUNK

(* A mov into the location of a temporary. *)
Write(g, c, v) ==
  IF g.loc[c] \in Regs
  THEN [g EXCEPT !.reg[g.loc[c]] = v]
  ELSE [g EXCEPT !.slots = IF v = Val(c) THEN @ \cup {c} ELSE @ \ {c}]

(* The value of c when it is computed from the values v of the temporaries. *)
Computed(c, v, from) ==
  IF \A a \in from : v[a] = Val(a) THEN Val(c) ELSE JUNK

Contents(g, from) == [a \in from |-> Content(g, a)]

(* The temporary is about to get a new value: the copies of the old one are *)
(* of no use any more.                                                      *)
Outdated(v, dead) == IF v \in {Val(c) : c \in dead} THEN JUNK ELSE v
Forget(g, dead) ==
  [g EXCEPT !.reg = [r \in Regs |-> Outdated(g.reg[r], dead)],
            !.stk = [i \in DOMAIN g.stk |-> Outdated(g.stk[i], dead)]]

(* The live ranges of the temporaries have ended. *)
Retire(g, dead) ==
  [Forget(g, dead) EXCEPT
     !.lrs = [r \in Regs |-> [i \in DOMAIN g.lrs[r] |->
                IF g.lrs[r][i] \in dead THEN FREE ELSE g.lrs[r][i]]],
     !.loc = [c \in Cgts |-> IF c \in dead THEN "none" ELSE g.loc[c]],
     !.slots = @ \ dead]

(* nnc_gen_reserve_reg: the value of a busy register is pushed. *)
GenReserveReg(g, r) ==
  [ReserveReg(g, r) EXCEPT !.stk = IF Busy(g, r) THEN Append(@, g.reg[r]) ELSE @]

(* nnc_gen_pop *)
GenPop(g, r) == [g EXCEPT !.reg[r] = Last(g.stk), !.stk = Front(@)]

(* Mutant: the value stays on the stack. *)
GenPopReg_Forgotten(g, r, pushed) == PopReg(g, r)

(* nnc_gen_pop_reg *)
GenPopReg(g, r, pushed) == IF pushed THEN GenPop(PopReg(g, r), r) ELSE PopReg(g, r)

(* nnc_gen_mov_operand_to_reg *)
MovToReg(g, r, v) == [g EXCEPT !.reg[r] = v]

(* Mutant: R15 is used as if it were free. *)
MovMemToMem_Unsaved(g, c, v) ==
  LET moved == MovToReg(g, "r15", v) IN IF c = FREE THEN moved ELSE Write(moved, c, v)

(* nnc_gen_mov_mem_to_mem into the slot of a temporary, or (c = FREE) into  *)
(* a variable: the value passes through R15.                                *)
MovMemToMem(g, c, v) ==
  LET reserved == MovToReg(GenReserveReg(g, "r15"), "r15", v)
      moved    == IF c = FREE THEN reserved ELSE Write(reserved, c, v)
  IN  GenPopReg(moved, "r15", Busy(g, "r15"))
=============================================================================
