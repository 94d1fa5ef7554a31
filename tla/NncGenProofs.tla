---------------------------- MODULE NncGenProofs ----------------------------
(***************************************************************************)
(* Why the code of NncGen computes what the quads say, outside of the      *)
(* programs of AllSituations.                                              *)
(*                                                                         *)
(* The open frames are levels: operands of frame k wait at level k - 1,    *)
(* those of the innermost expression at level Len(frames).  An open call   *)
(* adds a live range to the registers it has pushed and to those of its    *)
(* arguments, so that the range of an owner at level l lies below the      *)
(* ranges of the calls opened since.                                       *)
(***************************************************************************)
EXTENDS NncGen, NncInduction, SequenceTheorems

Ranges == Cgts \cup {FREE, RESERVED}
Places == Regs \cup {"none", "stack"}

GenType == [lrs : [Regs -> Seq(Ranges)], loc : [Cgts -> Places], reg : [Regs -> Values],
            slots : SUBSET Cgts, stk : Seq(Values)]

MachineType == [reg : [Regs -> Values], slots : SUBSET Cgts, stk : Seq(Values)]

FrameType == [kind : {"call", "logic", "then", "else"}, outer : Seq(Cgts),
              res : Cgts \cup {FREE}, pushed : Seq(Regs), args : 0 .. MaxArgs,
              machine : MachineType \cup {<<>>}]

(* The stack of live ranges without its top, and with another one. *)
PopS(s) == IF s = <<>> THEN s ELSE Front(s)
PushS(s, x) == Append(s, x)
PutS(s, x) == PushS(PopS(s), x)
TopS(s) == IF s = <<>> THEN FREE ELSE Last(s)

-----------------------------------------------------------------------------
(* Sequences.                                                               *)

(* The top of a stack and the rest. *)
LEMMA StackFacts ==
  ASSUME NEW T, NEW s \in Seq(T)
  PROVE  /\ s = <<>> => PopS(s) = <<>>
         /\ Len(s) \in Nat
         /\ PopS(s) \in Seq(T) /\ Len(PopS(s)) = (IF Len(s) = 0 THEN 0 ELSE Len(s) - 1)
         /\ \A i \in 1 .. Len(s) - 1 : PopS(s)[i] = s[i]
         /\ s # <<>> => TopS(s) = s[Len(s)] /\ Len(s) >= 1
         /\ Len(s) = 0 => s = <<>> /\ TopS(s) = FREE
<1>1. s = <<>> => PopS(s) = <<>>  BY DEF PopS
<1>2. Len(s) \in Nat /\ (Len(s) = 0 <=> s = <<>>)  BY EmptySeq, LenProperties
<1>3. CASE s = <<>>  BY <1>1, <1>2, <1>3 DEF TopS, PopS
<1>4. CASE s # <<>>
  <2>1. PopS(s) = SubSeq(s, 1, Len(s) - 1)  BY <1>4 DEF PopS, Front
  <2>2. Len(s) >= 1  BY <1>2, <1>4
  <2>3. PopS(s) = [i \in 1 .. Len(s) - 1 |-> s[i]]  BY <1>2, <2>1, <2>2
  <2>4. \A i \in 1 .. Len(s) - 1 : s[i] \in T  BY <1>2
  <2>5. PopS(s) \in Seq(T) /\ Len(PopS(s)) = Len(s) - 1  BY <1>2, <2>2, <2>3, <2>4
  <2>6. TopS(s) = s[Len(s)]  BY <1>4 DEF TopS, Last
  <2> QED  BY <1>1, <1>2, <1>4, <2>2, <2>3, <2>5, <2>6
<1> QED  BY <1>3, <1>4

(* What is pushed on a stack is its top. *)
LEMMA PushFacts ==
  ASSUME NEW T, NEW s \in Seq(T), NEW x \in T
  PROVE  /\ PushS(s, x) \in Seq(T) /\ PushS(s, x) # <<>> /\ TopS(PushS(s, x)) = x
         /\ Len(PushS(s, x)) = Len(s) + 1 /\ Len(s) \in Nat
         /\ \A i \in 1 .. Len(s) : PushS(s, x)[i] = s[i]
         /\ PushS(s, x)[Len(s) + 1] = x
         /\ PopS(PushS(s, x)) = s
         /\ \A y \in T : PutS(PushS(s, x), y) = PushS(s, y)
<1>1. /\ Append(s, x) \in Seq(T) /\ Append(s, x) # <<>> /\ Len(Append(s, x)) = Len(s) + 1
      /\ Len(s) \in Nat
      /\ \A i \in 1 .. Len(s) : Append(s, x)[i] = s[i]
      /\ Append(s, x)[Len(s) + 1] = x
  OBVIOUS
<1>2. Front(Append(s, x)) = s
  <2>1. SubSeq(Append(s, x), 1, Len(s)) = s  OBVIOUS
  <2> QED  BY <1>1, <2>1 DEF Front
<1>3. TopS(Append(s, x)) = x /\ PopS(Append(s, x)) = s
  BY <1>1, <1>2 DEF TopS, PopS, Last
<1>4. \A y : PutS(Append(s, x), y) = Append(s, y)  BY <1>3 DEF PutS, PushS
<1> QED  BY <1>1, <1>3, <1>4 DEF PushS

(* What is put on a stack is its top; popping it gives the rest. *)
LEMMA PutFacts ==
  ASSUME NEW T, NEW s \in Seq(T), NEW x \in T
  PROVE  /\ PutS(s, x) \in Seq(T) /\ PutS(s, x) # <<>> /\ TopS(PutS(s, x)) = x
         /\ Len(PutS(s, x)) = (IF Len(s) = 0 THEN 1 ELSE Len(s))
         /\ \A i \in 1 .. Len(s) - 1 : PutS(s, x)[i] = s[i]
         /\ PutS(s, x)[Len(PutS(s, x))] = x
         /\ PopS(PutS(s, x)) = PopS(s)
<1>1. /\ PopS(s) \in Seq(T) /\ Len(s) \in Nat
      /\ Len(PopS(s)) = (IF Len(s) = 0 THEN 0 ELSE Len(s) - 1)
      /\ \A i \in 1 .. Len(s) - 1 : PopS(s)[i] = s[i]
  BY StackFacts
<1>2. PICK q \in Seq(T) : q = PopS(s)  BY <1>1
<1>3. /\ PushS(q, x) \in Seq(T) /\ PushS(q, x) # <<>> /\ Len(PushS(q, x)) = Len(q) + 1
      /\ \A i \in 1 .. Len(q) : PushS(q, x)[i] = q[i]
      /\ PushS(q, x)[Len(q) + 1] = x
      /\ TopS(PushS(q, x)) = x /\ PopS(PushS(q, x)) = q
  BY PushFacts
<1>4. PutS(s, x) = PushS(q, x)  BY <1>2 DEF PutS
<1> QED  BY <1>1, <1>2, <1>3, <1>4

(* The same, of the top only. *)
LEMMA TopIs ==
  ASSUME NEW T, NEW s \in Seq(T), Len(s) >= 1
  PROVE  TopS(s) = s[Len(s)]
<1>1. s # <<>>  OBVIOUS
<1> QED  BY <1>1 DEF TopS, Last

(* The same, without the type. *)
LEMMA PushIs ==
  ASSUME NEW T, NEW s \in Seq(T), NEW x \in T
  PROVE  /\ TopS(PushS(s, x)) = x /\ Len(PushS(s, x)) = Len(s) + 1 /\ Len(s) \in Nat
         /\ \A i \in 1 .. Len(s) : PushS(s, x)[i] = s[i]
         /\ PushS(s, x)[Len(s) + 1] = x
         /\ PopS(PushS(s, x)) = s
BY PushFacts

(* The same, without the type. *)
LEMMA PutIs ==
  ASSUME NEW T, NEW s \in Seq(T), NEW x \in T
  PROVE  /\ TopS(PutS(s, x)) = x
         /\ Len(PutS(s, x)) = (IF Len(s) = 0 THEN 1 ELSE Len(s))
         /\ \A i \in 1 .. Len(s) - 1 : PutS(s, x)[i] = s[i]
         /\ PutS(s, x)[Len(PutS(s, x))] = x
         /\ PopS(PutS(s, x)) = PopS(s)
BY PutFacts

-----------------------------------------------------------------------------
(* What the operations of NncStorage do to the fields of a generator state. *)

(* A temporary is neither FREE nor RESERVED, and a location that is no      *)
(* register is no register.                                                 *)
LEMMA Numbers ==
  /\ FREE \notin Cgts /\ RESERVED \notin Cgts /\ FREE # RESERVED
  /\ "none" \notin Regs /\ "stack" \notin Regs /\ "none" # "stack"
  /\ "rax" \in Regs /\ "rbx" \in Regs /\ "rcx" \in Regs /\ "rdx" \in Regs /\ "r15" \in Regs
  /\ Cgts \in SUBSET Nat
BY CgtAssumption, RegAssumption DEF FREE, RESERVED, Regs

(* The values are told apart. *)
LEMMA ValueFacts ==
  /\ \A c, d : Val(c) = Val(d) => c = d
  /\ \A c, k, i : Val(c) # ArgVal(k, i)
  /\ \A c \in Cgts : Val(c) \in Values
  /\ \A k \in 1 .. MaxDepth, i \in 1 .. MaxArgs : ArgVal(k, i) \in Values
  /\ JUNK \in Values
<1>1. \A c, d : Val(c) = Val(d) => c = d  BY DEF Val
<1>2. \A c, k, i : Val(c) # ArgVal(k, i)
  <2> SUFFICES ASSUME NEW c, NEW k, NEW i, Val(c) = ArgVal(k, i) PROVE FALSE  OBVIOUS
  <2>1. Val(c)[1] = "value" /\ ArgVal(k, i)[1] = "arg"  BY DEF Val, ArgVal
  <2> QED  BY <2>1
<1>3. \A c \in Cgts : Val(c) \in Values  BY DEF Values
<1>4. \A k \in 1 .. MaxDepth, i \in 1 .. MaxArgs : ArgVal(k, i) \in Values  BY DEF Values
<1>5. JUNK \in Values  BY DEF Values
<1> QED  BY <1>1, <1>2, <1>3, <1>4, <1>5

(* The top of the live ranges of a register. *)
LEMMA PeekTop ==
  ASSUME NEW g, NEW r
  PROVE  Peek(g, r) = TopS(g.lrs[r]) /\ (Busy(g, r) <=> TopS(g.lrs[r]) # FREE)
BY DEF Peek, Busy, TopS

(* The fields of a generator state. *)
LEMMA GenFields ==
  ASSUME NEW g \in GenType
  PROVE  /\ g.lrs \in [Regs -> Seq(Ranges)] /\ g.loc \in [Cgts -> Places]
         /\ g.reg \in [Regs -> Values] /\ g.slots \in SUBSET Cgts /\ g.stk \in Seq(Values)
BY DEF GenType

(* nnc_gen_reserve_reg *)
LEMMA ReserveFields ==
  ASSUME NEW g \in GenType, NEW r \in Regs
  PROVE  LET w == GenReserveReg(g, r)
         IN  /\ w \in GenType
             /\ w.loc = g.loc /\ w.reg = g.reg /\ w.slots = g.slots
             /\ w.lrs = [g.lrs EXCEPT ![r] = IF Busy(g, r) THEN PushS(g.lrs[r], RESERVED)
                                             ELSE PutS(g.lrs[r], RESERVED)]
             /\ w.stk = IF Busy(g, r) THEN PushS(g.stk, g.reg[r]) ELSE g.stk
<1>0. /\ g.lrs \in [Regs -> Seq(Ranges)] /\ g.loc \in [Cgts -> Places]
      /\ g.reg \in [Regs -> Values] /\ g.slots \in SUBSET Cgts /\ g.stk \in Seq(Values)
  BY GenFields
<1> DEFINE b == IF Busy(g, r) THEN PushReg(g, r) ELSE g
           n == IF Busy(g, r) THEN PushS(g.lrs[r], FREE) ELSE g.lrs[r]
<1>1. b = [g EXCEPT !.lrs = [g.lrs EXCEPT ![r] = n]]
  <2>1. CASE Busy(g, r)  BY <2>1 DEF PushReg, PushS
  <2>2. CASE ~Busy(g, r)  BY <1>0, <2>2 DEF GenType
  <2> QED  BY <2>1, <2>2
<1>2. b.lrs[r] = n /\ b.lrs = [g.lrs EXCEPT ![r] = n]  BY <1>0, <1>1 DEF GenType
<1>3. ReserveReg(g, r) = [b EXCEPT !.lrs = [b.lrs EXCEPT ![r] = PutS(n, RESERVED)]]
  <2>1. ReserveReg(g, r) = UpdateReg(b, r, RESERVED)  BY DEF ReserveReg
  <2> HIDE DEF b, n
  <2> QED  BY <1>2, <2>1 DEF UpdateReg, PutS, PopS, PushS
<1>4. PutS(n, RESERVED) = IF Busy(g, r) THEN PushS(g.lrs[r], RESERVED) ELSE PutS(g.lrs[r], RESERVED)
  <2>1. g.lrs[r] \in Seq(Ranges) /\ FREE \in Ranges /\ RESERVED \in Ranges  BY <1>0 DEF Ranges
  <2>2. PutS(PushS(g.lrs[r], FREE), RESERVED) = PushS(g.lrs[r], RESERVED)
    BY <2>1, PushFacts
  <2> QED  BY <2>2
<1> DEFINE m == IF Busy(g, r) THEN PushS(g.lrs[r], RESERVED) ELSE PutS(g.lrs[r], RESERVED)
           t == IF Busy(g, r) THEN PushS(g.stk, g.reg[r]) ELSE g.stk
<1>5. m \in Seq(Ranges) /\ t \in Seq(Values)
  <2>1. g.lrs[r] \in Seq(Ranges) /\ RESERVED \in Ranges /\ g.reg[r] \in Values
    BY <1>0 DEF Ranges
  <2> QED  BY <1>0, <2>1, PushFacts, PutFacts
<1>6. GenReserveReg(g, r) = [g EXCEPT !.lrs = [g.lrs EXCEPT ![r] = m], !.stk = t]
  <2>1. ReserveReg(g, r) = [g EXCEPT !.lrs = [g.lrs EXCEPT ![r] = m]]
    <3>1. ReserveReg(g, r) = [b EXCEPT !.lrs = [b.lrs EXCEPT ![r] = m]]  BY <1>3, <1>4
    <3> HIDE DEF b, m, n
    <3> QED  BY <1>0, <1>1, <1>2, <3>1 DEF GenType
  <2> HIDE DEF b, m, n
  <2> QED  BY <1>0, <2>1 DEF GenReserveReg, GenType, PushS
<1> HIDE DEF m, t
<1>7. [g EXCEPT !.lrs = [g.lrs EXCEPT ![r] = m], !.stk = t] \in GenType
  BY <1>0, <1>5 DEF GenType
<1> QED  BY <1>0, <1>6, <1>7 DEF GenType, m, t

(* nnc_pop_reg *)
LEMMA PopFields ==
  ASSUME NEW g \in GenType, NEW r \in Regs
  PROVE  LET w == PopReg(g, r)
         IN  /\ w \in GenType
             /\ w.loc = g.loc /\ w.reg = g.reg /\ w.slots = g.slots /\ w.stk = g.stk
             /\ w.lrs = [g.lrs EXCEPT ![r] = PopS(g.lrs[r])]
<1>0. /\ g.lrs \in [Regs -> Seq(Ranges)] /\ g.loc \in [Cgts -> Places]
      /\ g.reg \in [Regs -> Values] /\ g.slots \in SUBSET Cgts /\ g.stk \in Seq(Values)
  BY GenFields
<1>1. PopReg(g, r) = [g EXCEPT !.lrs = [g.lrs EXCEPT ![r] = PopS(g.lrs[r])]]
  BY <1>0 DEF PopReg, PopS
<1>2. PopS(g.lrs[r]) \in Seq(Ranges)  BY <1>0, StackFacts
<1> QED  BY <1>0, <1>1, <1>2 DEF GenType

(* nnc_gen_pop_reg, of a register whose value was pushed or not *)
LEMMA GenPopFields ==
  ASSUME NEW g \in GenType, NEW r \in Regs, NEW pushed \in BOOLEAN, pushed => g.stk # <<>>
  PROVE  LET w == GenPopReg(g, r, pushed)
         IN  /\ w \in GenType
             /\ w.loc = g.loc /\ w.slots = g.slots
             /\ w.lrs = [g.lrs EXCEPT ![r] = PopS(g.lrs[r])]
             /\ w.stk = IF pushed THEN PopS(g.stk) ELSE g.stk
             /\ w.reg = IF pushed THEN [g.reg EXCEPT ![r] = TopS(g.stk)] ELSE g.reg
<1>0. /\ g.lrs \in [Regs -> Seq(Ranges)] /\ g.loc \in [Cgts -> Places]
      /\ g.reg \in [Regs -> Values] /\ g.slots \in SUBSET Cgts /\ g.stk \in Seq(Values)
  BY GenFields
<1> DEFINE p == PopReg(g, r)
<1>1. /\ p \in GenType
      /\ p.loc = g.loc /\ p.reg = g.reg /\ p.slots = g.slots /\ p.stk = g.stk
      /\ p.lrs = [g.lrs EXCEPT ![r] = PopS(g.lrs[r])]
  BY PopFields
<1>2. CASE ~pushed  BY <1>1, <1>2 DEF GenPopReg
<1>3. CASE pushed
  <2>1. GenPopReg(g, r, pushed) = GenPop(p, r)  BY <1>3 DEF GenPopReg
  <2> HIDE DEF p
  <2>2. TopS(g.stk) = Last(g.stk) /\ PopS(g.stk) = Front(g.stk)  BY <1>3 DEF TopS, PopS
  <2>3. Last(g.stk) \in Values /\ PopS(g.stk) \in Seq(Values)
    <3>1. g.stk # <<>>  BY <1>3
    <3>2. Len(g.stk) \in 1 .. Len(g.stk) /\ PopS(g.stk) \in Seq(Values)
      BY <1>0, <3>1, StackFacts
    <3>3. g.stk[Len(g.stk)] \in Values  BY <1>0, <3>2
    <3> QED  BY <3>2, <3>3 DEF Last
  <2>4. GenPop(p, r) = [p EXCEPT !.reg = [p.reg EXCEPT ![r] = TopS(g.stk)], !.stk = PopS(g.stk)]
    BY <1>1, <2>2 DEF GenPop
  <2>5. /\ p.lrs \in [Regs -> Seq(Ranges)] /\ p.loc \in [Cgts -> Places]
        /\ p.reg \in [Regs -> Values] /\ p.slots \in SUBSET Cgts /\ p.stk \in Seq(Values)
    BY <1>1, GenFields
  <2>6. [p EXCEPT !.reg = [p.reg EXCEPT ![r] = TopS(g.stk)], !.stk = PopS(g.stk)] \in GenType
    BY <1>1, <2>2, <2>3, <2>5 DEF GenType
  <2> QED  BY <1>1, <1>3, <2>1, <2>4, <2>5, <2>6 DEF GenType
<1> QED  BY <1>2, <1>3

(* A number that is least in a set is its Min. *)
LEMMA MinIs ==
  ASSUME NEW T \in SUBSET Nat, T # {}
  PROVE  Min(T) \in T /\ \A y \in T : Min(T) =< y
<1>1. \E m \in T : \A y \in T : m =< y  BY WellOrder
<1> QED  BY <1>1 DEF Min

(* A new temporary has no location yet. *)
LEMMA FreshDead ==
  ASSUME NEW g, Dead(g) # {}
  PROVE  Fresh(g) \in Cgts /\ g.loc[Fresh(g)] = "none"
<1>1. Dead(g) \in SUBSET Nat  BY Numbers DEF Dead
<1>2. Min(Dead(g)) \in Dead(g)  BY <1>1, MinIs
<1> QED  BY <1>2 DEF Fresh, Dead

(* w is g after c has got the register r, which was free, or a stack slot. *)
Placed(g, w, c, r) ==
  /\ w \in GenType
  /\ w.reg = g.reg /\ w.slots = g.slots /\ w.stk = g.stk
  /\ w.loc = [g.loc EXCEPT ![c] = r]
  /\ r \in Regs \cup {"stack"}
  /\ r = "stack" => w.lrs = g.lrs
  /\ r \in Regs => ~Busy(g, r) /\ w.lrs = [g.lrs EXCEPT ![r] = PutS(g.lrs[r], c)]

(* nnc_store_cgt: a stack slot is given only when R15 is busy too. *)
LEMMA StoreFields ==
  ASSUME NEW g \in GenType, NEW c \in Cgts
  PROVE  /\ StoreCgt(g, c).loc[c] = "stack" => Busy(g, "r15")
         /\ Placed(g, StoreCgt(g, c), c, StoreCgt(g, c).loc[c])
<1>0. /\ g.lrs \in [Regs -> Seq(Ranges)] /\ g.loc \in [Cgts -> Places]
      /\ g.reg \in [Regs -> Values] /\ g.slots \in SUBSET Cgts /\ g.stk \in Seq(Values)
  BY GenFields
<1> DEFINE I == {j \in 1 .. Len(IntPLocal) : ~Busy(g, IntPLocal[j])}
           i == IF I # {} THEN Min(I) ELSE 0
           w == StoreCgt(g, c)
<1>1. w = IF i = 0 THEN [g EXCEPT !.loc[c] = "stack"]
          ELSE [UpdateReg(g, IntPLocal[i], c) EXCEPT !.loc[c] = IntPLocal[i]]
  BY DEF StoreCgt, SelectInSeq
<1>2. IntPLocal \in Seq(Regs) /\ Len(IntPLocal) \in Nat /\ "r15" \in ToSet(IntPLocal)
  BY RegAssumption DEF Regs
<1>3. I \in SUBSET Nat  OBVIOUS
<1>4. CASE I = {}
  <2>1. i = 0  BY <1>4
  <2>2. w = [g EXCEPT !.loc = [g.loc EXCEPT ![c] = "stack"]]  BY <1>1, <2>1
  <2>3. PICK j \in DOMAIN IntPLocal : IntPLocal[j] = "r15"  BY <1>2 DEF ToSet
  <2>4. Busy(g, "r15")
    <3>1. j \in 1 .. Len(IntPLocal)  BY <1>2, <2>3
    <3>2. j \notin I  BY <1>4
    <3> QED  BY <2>3, <3>1, <3>2
  <2>5. "stack" \in Places  BY DEF Places
  <2> HIDE DEF w, i, I
  <2>6. w \in GenType /\ w.loc = [g.loc EXCEPT ![c] = "stack"] /\ w.lrs = g.lrs
        /\ w.reg = g.reg /\ w.slots = g.slots /\ w.stk = g.stk
    BY <1>0, <2>2, <2>5 DEF GenType
  <2>7. w.loc[c] = "stack"  BY <1>0, <2>6
  <2>8. Placed(g, w, c, "stack")  BY <2>6, Numbers DEF Placed
  <2> QED  BY <2>4, <2>7, <2>8 DEF w
<1>5. CASE I # {}
  <2>1. i \in I
    <3>1. Min(I) \in I
      <4> HIDE DEF I
      <4> QED  BY <1>3, <1>5, MinIs
    <3> QED  BY <1>5, <3>1
  <2>2. i \in 1 .. Len(IntPLocal) /\ ~Busy(g, IntPLocal[i]) /\ i # 0
    <3> HIDE DEF i
    <3> QED  BY <1>2, <2>1
  <2>3. PICK r \in Regs : r = IntPLocal[i]
    <3> HIDE DEF i
    <3> QED  BY <1>2, <2>2
  <2> HIDE DEF i, I
  <2>4. w = [UpdateReg(g, r, c) EXCEPT !.loc[c] = r]  BY <1>1, <2>2, <2>3
  <2>5. UpdateReg(g, r, c) = [g EXCEPT !.lrs = [g.lrs EXCEPT ![r] = PutS(g.lrs[r], c)]]
    BY <1>0 DEF UpdateReg, PutS, PopS, PushS
  <2>6. PutS(g.lrs[r], c) \in Seq(Ranges)
    <3>1. g.lrs[r] \in Seq(Ranges) /\ c \in Ranges  BY <1>0 DEF Ranges
    <3> QED  BY <3>1, PutFacts
  <2> HIDE DEF w
  <2>7. w = [g EXCEPT !.lrs = [g.lrs EXCEPT ![r] = PutS(g.lrs[r], c)],
                      !.loc = [g.loc EXCEPT ![c] = r]]
    BY <1>0, <2>4, <2>5 DEF GenType
  <2>8. r \in Places  BY DEF Places
  <2>9. /\ w \in GenType /\ w.loc = [g.loc EXCEPT ![c] = r]
        /\ w.lrs = [g.lrs EXCEPT ![r] = PutS(g.lrs[r], c)]
        /\ w.reg = g.reg /\ w.slots = g.slots /\ w.stk = g.stk
    BY <1>0, <2>6, <2>7, <2>8 DEF GenType
  <2>10. w.loc[c] = r  BY <1>0, <2>9
  <2>11. Placed(g, w, c, r)  BY <2>2, <2>3, <2>9, Numbers DEF Placed
  <2> QED  BY <2>10, <2>11, Numbers DEF w
<1> QED  BY <1>4, <1>5

(* A mov into the location of a temporary. *)
LEMMA WriteFields ==
  ASSUME NEW g \in GenType, NEW c \in Cgts, NEW v \in Values
  PROVE  LET w == Write(g, c, v)
         IN  /\ w \in GenType
             /\ w.lrs = g.lrs /\ w.loc = g.loc /\ w.stk = g.stk
             /\ g.loc[c] \in Regs => w.reg = [g.reg EXCEPT ![g.loc[c]] = v] /\ w.slots = g.slots
             /\ g.loc[c] \notin Regs =>
                  w.reg = g.reg /\ w.slots = IF v = Val(c) THEN g.slots \cup {c} ELSE g.slots \ {c}
<1>0. /\ g.lrs \in [Regs -> Seq(Ranges)] /\ g.loc \in [Cgts -> Places]
      /\ g.reg \in [Regs -> Values] /\ g.slots \in SUBSET Cgts /\ g.stk \in Seq(Values)
  BY GenFields
<1>1. CASE g.loc[c] \in Regs
  <2>1. Write(g, c, v) = [g EXCEPT !.reg = [g.reg EXCEPT ![g.loc[c]] = v]]  BY <1>1 DEF Write
  <2> QED  BY <1>0, <1>1, <2>1 DEF GenType
<1>2. CASE g.loc[c] \notin Regs
  <2> DEFINE t == IF v = Val(c) THEN g.slots \cup {c} ELSE g.slots \ {c}
  <2>1. Write(g, c, v) = [g EXCEPT !.slots = t]  BY <1>2 DEF Write
  <2>2. t \in SUBSET Cgts  BY <1>0
  <2>3. t = IF v = Val(c) THEN g.slots \cup {c} ELSE g.slots \ {c}  OBVIOUS
  <2> HIDE DEF t
  <2> QED  BY <1>0, <1>2, <2>1, <2>2, <2>3 DEF GenType
<1> QED  BY <1>1, <1>2

(* A mov into a stack slot. *)
LEMMA WriteSlot ==
  ASSUME NEW g \in GenType, NEW c \in Cgts, NEW v \in Values, g.loc[c] \notin Regs
  PROVE  /\ Write(g, c, v) \in GenType /\ Write(g, c, v).lrs = g.lrs
         /\ Write(g, c, v).loc = g.loc /\ Write(g, c, v).stk = g.stk
         /\ Write(g, c, v).reg = g.reg
         /\ Write(g, c, v).slots = IF v = Val(c) THEN g.slots \cup {c} ELSE g.slots \ {c}
<1> DEFINE t == IF v = Val(c) THEN g.slots \cup {c} ELSE g.slots \ {c}
<1>1. Write(g, c, v) = [g EXCEPT !.slots = t]  BY DEF Write
<1>2. t \in SUBSET Cgts  BY GenFields
<1> HIDE DEF t
<1>3. /\ [g EXCEPT !.slots = t] \in GenType /\ [g EXCEPT !.slots = t].lrs = g.lrs
      /\ [g EXCEPT !.slots = t].loc = g.loc /\ [g EXCEPT !.slots = t].stk = g.stk
      /\ [g EXCEPT !.slots = t].reg = g.reg /\ [g EXCEPT !.slots = t].slots = t
  BY <1>2 DEF GenType
<1> QED  BY <1>1, <1>3 DEF t

(* nnc_gen_mov_operand_to_reg *)
LEMMA MovFields ==
  ASSUME NEW g \in GenType, NEW r \in Regs, NEW v \in Values
  PROVE  LET w == MovToReg(g, r, v)
         IN  /\ w \in GenType
             /\ w.lrs = g.lrs /\ w.loc = g.loc /\ w.stk = g.stk /\ w.slots = g.slots
             /\ w.reg = [g.reg EXCEPT ![r] = v]
BY DEF MovToReg, GenType

(* The copies of the values of some temporaries are gone. *)
LEMMA ForgetFields ==
  ASSUME NEW g \in GenType, NEW D \in SUBSET Cgts
  PROVE  LET w == Forget(g, D)
         IN  /\ w \in GenType
             /\ w.lrs = g.lrs /\ w.loc = g.loc /\ w.slots = g.slots
             /\ Len(w.stk) = Len(g.stk)
             /\ \A i \in 1 .. Len(g.stk) : w.stk[i] = g.stk[i] \/ \E d \in D : g.stk[i] = Val(d)
             /\ \A r \in Regs : w.reg[r] = g.reg[r] \/ \E d \in D : g.reg[r] = Val(d)
<1>0. /\ g.lrs \in [Regs -> Seq(Ranges)] /\ g.loc \in [Cgts -> Places]
      /\ g.reg \in [Regs -> Values] /\ g.slots \in SUBSET Cgts /\ g.stk \in Seq(Values)
  BY GenFields
<1> DEFINE n == Len(g.stk)
           q == [i \in 1 .. n |-> Outdated(g.stk[i], D)]
           p == [r \in Regs |-> Outdated(g.reg[r], D)]
<1>1. \A v \in Values : /\ Outdated(v, D) \in Values
                        /\ Outdated(v, D) = v \/ \E d \in D : v = Val(d)
  BY ValueFacts DEF Outdated
<1>2. n \in Nat /\ DOMAIN g.stk = 1 .. n /\ \A i \in 1 .. n : g.stk[i] \in Values  BY <1>0
<1>3. Forget(g, D) = [g EXCEPT !.reg = p, !.stk = q]  BY <1>2 DEF Forget
<1>4. q \in Seq(Values) /\ Len(q) = n /\ \A i \in 1 .. n : q[i] = Outdated(g.stk[i], D)
  <2>1. \A i \in 1 .. n : Outdated(g.stk[i], D) \in Values  BY <1>1, <1>2
  <2> QED  BY <1>2, <2>1
<1>5. p \in [Regs -> Values] /\ \A r \in Regs : p[r] = Outdated(g.reg[r], D)
  BY <1>0, <1>1
<1>6. \A i \in 1 .. n : q[i] = g.stk[i] \/ \E d \in D : g.stk[i] = Val(d)  BY <1>1, <1>2, <1>4
<1>7. \A r \in Regs : p[r] = g.reg[r] \/ \E d \in D : g.reg[r] = Val(d)  BY <1>0, <1>1, <1>5
<1> HIDE DEF p, q
<1>8. [g EXCEPT !.reg = p, !.stk = q] \in GenType  BY <1>0, <1>4, <1>5 DEF GenType
<1> QED  BY <1>0, <1>3, <1>4, <1>6, <1>7, <1>8 DEF GenType

(* The live ranges of some temporaries have ended. *)
LEMMA RetireFields ==
  ASSUME NEW g \in GenType, NEW D \in SUBSET Cgts
  PROVE  LET w == Retire(g, D)
         IN  /\ w \in GenType
             /\ \A c \in Cgts : w.loc[c] = IF c \in D THEN "none" ELSE g.loc[c]
             /\ w.slots = g.slots \ D
             /\ Len(w.stk) = Len(g.stk)
             /\ \A i \in 1 .. Len(g.stk) : w.stk[i] = g.stk[i] \/ \E d \in D : g.stk[i] = Val(d)
             /\ \A r \in Regs : w.reg[r] = g.reg[r] \/ \E d \in D : g.reg[r] = Val(d)
             /\ \A r \in Regs :
                  /\ Len(w.lrs[r]) = Len(g.lrs[r])
                  /\ \A i \in 1 .. Len(g.lrs[r]) :
                       w.lrs[r][i] = IF g.lrs[r][i] \in D THEN FREE ELSE g.lrs[r][i]
<1>0. /\ g.lrs \in [Regs -> Seq(Ranges)] /\ g.loc \in [Cgts -> Places]
      /\ g.reg \in [Regs -> Values] /\ g.slots \in SUBSET Cgts /\ g.stk \in Seq(Values)
  BY GenFields
<1> DEFINE f == Forget(g, D)
           L == [r \in Regs |-> [i \in DOMAIN g.lrs[r] |->
                   IF g.lrs[r][i] \in D THEN FREE ELSE g.lrs[r][i]]]
           P == [c \in Cgts |-> IF c \in D THEN "none" ELSE g.loc[c]]
<1>1. /\ f \in GenType
      /\ f.lrs = g.lrs /\ f.loc = g.loc /\ f.slots = g.slots
      /\ Len(f.stk) = Len(g.stk)
      /\ \A i \in 1 .. Len(g.stk) : f.stk[i] = g.stk[i] \/ \E d \in D : g.stk[i] = Val(d)
      /\ \A r \in Regs : f.reg[r] = g.reg[r] \/ \E d \in D : g.reg[r] = Val(d)
  BY ForgetFields
<1>2. Retire(g, D) = [f EXCEPT !.lrs = L, !.loc = P, !.slots = f.slots \ D]
  <2>1. f = Forget(g, D)  OBVIOUS
  <2> HIDE DEF f
  <2> QED  BY <2>1 DEF Retire
<1>3. P \in [Cgts -> Places] /\ \A c \in Cgts : P[c] = IF c \in D THEN "none" ELSE g.loc[c]
  BY <1>0 DEF Places
<1>4. \A r \in Regs :
        /\ L[r] \in Seq(Ranges) /\ Len(L[r]) = Len(g.lrs[r])
        /\ \A i \in 1 .. Len(g.lrs[r]) : L[r][i] = IF g.lrs[r][i] \in D THEN FREE ELSE g.lrs[r][i]
  <2> SUFFICES ASSUME NEW r \in Regs
               PROVE  /\ L[r] \in Seq(Ranges) /\ Len(L[r]) = Len(g.lrs[r])
                      /\ \A i \in 1 .. Len(g.lrs[r]) :
                           L[r][i] = IF g.lrs[r][i] \in D THEN FREE ELSE g.lrs[r][i]
    OBVIOUS
  <2>1. PICK s \in Seq(Ranges) : s = g.lrs[r]  BY <1>0
  <2>2. L[r] = [i \in 1 .. Len(s) |-> IF s[i] \in D THEN FREE ELSE s[i]]  BY <2>1
  <2>3. \A i \in 1 .. Len(s) : (IF s[i] \in D THEN FREE ELSE s[i]) \in Ranges  BY DEF Ranges
  <2>4. Len(s) \in Nat  OBVIOUS
  <2> HIDE DEF L
  <2> QED  BY <2>1, <2>2, <2>3, <2>4
<1>5. L \in [Regs -> Seq(Ranges)]
  <2>1. L = [r \in Regs |-> L[r]]  OBVIOUS
  <2> HIDE DEF L
  <2> QED  BY <1>4, <2>1
<1> HIDE DEF f, L, P
<1>6. f.reg \in [Regs -> Values] /\ f.stk \in Seq(Values)  BY <1>1, GenFields
<1>7. f.slots \ D \in SUBSET Cgts  BY <1>0, <1>1
<1>8. Retire(g, D) \in GenType  BY <1>1, <1>2, <1>3, <1>5, <1>6, <1>7 DEF GenType
<1>9. /\ Retire(g, D).lrs = L /\ Retire(g, D).loc = P /\ Retire(g, D).slots = g.slots \ D
      /\ Retire(g, D).reg = f.reg /\ Retire(g, D).stk = f.stk
  BY <1>1, <1>2 DEF GenType
<1> QED  BY <1>1, <1>3, <1>4, <1>8, <1>9

-----------------------------------------------------------------------------
(* The invariant.                                                           *)

(* The registers that the arguments of a call have reserved. *)
AbiUsed(f) == {IntPParam[i] : i \in DOMAIN IntPParam \cap (1 .. f.args)}

(* What a frame adds to the live ranges of a register and to the stack. *)
Levels(f, r) ==
  (IF r \in ToSet(f.pushed) THEN 1 ELSE 0) + (IF r \in AbiUsed(f) THEN 1 ELSE 0)
Size(f) == Len(f.pushed) + StackArgs(f)

(* h[k] is the height of the stack, and S[k][r] the number of live ranges   *)
(* of r, that the first k frames account for.                               *)
Sums(fs, h) ==
  /\ h \in [0 .. Len(fs) -> Nat] /\ h[0] = 0
  /\ \A k \in 1 .. Len(fs) : h[k] = h[k - 1] + Size(fs[k])
Counts(fs, S) ==
  /\ S \in [0 .. Len(fs) -> [Regs -> Nat]] /\ \A r \in Regs : S[0][r] = 0
  /\ \A k \in 1 .. Len(fs), r \in Regs : S[k][r] = S[k - 1][r] + Levels(fs[k], r)

Distinct(s) == \A i, j \in DOMAIN s : s[i] = s[j] => i = j

(* The temporaries that wait for the end of a frame: those with a value,    *)
(* and the result of the call or ternary.                                   *)
Mine(f) == ToSet(f.outer) \cup ({f.res} \ {FREE})
Own(O, fs, l) == IF l = Len(fs) THEN O ELSE Mine(fs[l + 1])
Wait(O, fs, l) == IF l = Len(fs) THEN O ELSE ToSet(fs[l + 1].outer)

FrameOK(f) ==
  /\ Distinct(f.outer) /\ f.res \notin ToSet(f.outer)
  /\ f.kind # "call" => f.pushed = <<>> /\ f.args = 0 /\ f.machine \in MachineType
  /\ f.kind \in {"logic", "then"} => f.res = FREE
  /\ f.kind = "else" => f.res \in Cgts

Shape(O, fs, h, S) ==
  /\ O \in SUBSET Cgts
  /\ fs \in Seq(FrameType) /\ Len(fs) =< MaxDepth
  /\ \A k \in 1 .. Len(fs) : FrameOK(fs[k])
  /\ Sums(fs, h) /\ Counts(fs, S)
  /\ \A l, k \in 0 .. Len(fs) : l < k => Own(O, fs, l) \cap Own(O, fs, k) = {}

(* The live range of an owner at level l lies below those of the frames     *)
(* above l.                                                                 *)
TopAt(g, fs, S, l, r) == Len(g.lrs[r]) - (S[Len(fs)][r] - S[l][r])
Owner(g, fs, S, l, r, o) ==
  /\ TopAt(g, fs, S, l, r) \in 1 .. Len(g.lrs[r])
  /\ g.lrs[r][TopAt(g, fs, S, l, r)] = o
Item(loc, O, fs, l, r, o) ==
  \/ o \in Own(O, fs, l) /\ loc[o] = r
  \/ o = RESERVED /\ l >= 1 /\ r \in AbiUsed(fs[l])

Ranged(g, O, fs, S) ==
  /\ \A r \in Regs : Len(g.lrs[r]) - S[Len(fs)][r] \in {0, 1}
  /\ \A l \in 0 .. Len(fs) : \A c \in Own(O, fs, l) : g.loc[c] # "none"
  /\ \A l \in 0 .. Len(fs), r \in Regs, o \in Ranges :
       Item(g.loc, O, fs, l, r, o) => Owner(g, fs, S, l, r, o)

(* The value v of a register at level l, seen from level k: it is in the    *)
(* register, or where the first call opened since has pushed it.            *)
Open(fs, l, k) == \A j \in l + 1 .. k : fs[j].kind # "call"
ValueAt(m, fs, h, l, k, r, v) ==
  /\ Open(fs, l, k) => m.reg[r] = v
  /\ \A j \in l + 1 .. k : Open(fs, l, j - 1) /\ fs[j].kind = "call" =>
       /\ r \in ToSet(fs[j].pushed)
       /\ \A q \in DOMAIN fs[j].pushed : fs[j].pushed[q] = r => m.stk[h[j - 1] + q] = v

(* The values that have to be kept; X are temporaries without one so far.   *)
Valued(loc, O, fs, X, l, r, v) ==
  \/ \E c \in Wait(O, fs, l) \ X : loc[c] = r /\ v = Val(c)
  \/ /\ l >= 1
     /\ \E i \in 1 .. fs[l].args :
          i =< Len(IntPParam) /\ r = IntPParam[i] /\ v = ArgVal(l, i)

Intact(m, loc, O, fs, h, k, X) ==
  /\ Len(m.stk) = h[k]
  /\ \A l \in 0 .. k, r \in Regs, v \in Values :
       Valued(loc, O, fs, X, l, r, v) => ValueAt(m, fs, h, l, k, r, v)
  /\ \A l \in 0 .. k : \A c \in Wait(O, fs, l) \ X : loc[c] = "stack" => c \in m.slots
  /\ \A l \in 1 .. k : \A i \in 1 .. fs[l].args :
       i > Len(IntPParam) => m.stk[h[l] - fs[l].args + i] = ArgVal(l, i)

HasVal(m, loc, c) == IF loc[c] \in Regs THEN m.reg[loc[c]] = Val(c) ELSE c \in m.slots

(* The machine at the jump of a branch is as good as the one that came      *)
(* here, and a call does not restore the register of its result.            *)
Snapshots(loc, fs, h) ==
  \A k \in 1 .. Len(fs) :
    /\ fs[k].kind = "call" /\ fs[k].res # FREE => loc[fs[k].res] \notin ToSet(fs[k].pushed)
    /\ fs[k].kind # "call" =>
         /\ Intact(fs[k].machine, loc, {}, fs, h, k - 1, {})
         /\ fs[k].kind = "else" => HasVal(fs[k].machine, loc, fs[k].res)

Good(g, O, fs, h, S, X) ==
  /\ g \in GenType /\ X \in SUBSET O
  /\ Shape(O, fs, h, S)
  /\ Ranged(g, O, fs, S)
  /\ Intact(g, g.loc, O, fs, h, Len(fs), X)
  /\ Snapshots(g.loc, fs, h)

GenInv ==
  /\ operands \in Seq(Cgts) /\ Distinct(operands)
  /\ \E h, S : Good(gen, ToSet(operands), frames, h, S, {})

-----------------------------------------------------------------------------
(* Sums.                                                                    *)

(* Partial sums do not decrease. *)
LEMMA Monotone ==
  ASSUME NEW n \in Nat, NEW f \in [0 .. n -> Nat], \A k \in 1 .. n : f[k - 1] =< f[k],
         NEW l \in 0 .. n
  PROVE  \A k \in l .. n : f[l] =< f[k]
<1> DEFINE G == {k \in l .. n : f[l] =< f[k]}
<1>1. ASSUME NEW k \in l .. n, \A j \in l .. k - 1 : j \in G PROVE k \in G
  <2>1. CASE k = l  BY <2>1
  <2>2. CASE k # l
    <3>1. k - 1 \in l .. k - 1 /\ k \in 1 .. n /\ k - 1 \in 0 .. n /\ k \in 0 .. n
      BY <2>2
    <3>2. f[l] =< f[k - 1] /\ f[k - 1] =< f[k]  BY <1>1, <3>1
    <3>3. f[l] \in Nat /\ f[k - 1] \in Nat /\ f[k] \in Nat  BY <3>1
    <3> QED  BY <3>2, <3>3
  <2> QED  BY <2>1, <2>2
<1>2. \A k \in l .. n : k \in G
  <2>1. l \in Nat  OBVIOUS
  <2> HIDE DEF G
  <2> QED  BY <1>1, <2>1, Induction
<1> QED  BY <1>2

(* A sum stays the same over terms that are zero. *)
LEMMA Constant ==
  ASSUME NEW n \in Nat, NEW f \in [0 .. n -> Nat], NEW l \in 0 .. n, NEW m \in l .. n,
         \A k \in l + 1 .. m : f[k] = f[k - 1]
  PROVE  f[m] = f[l]
<1> DEFINE G == {k \in l .. m : f[k] = f[l]}
<1>1. ASSUME NEW k \in l .. m, \A j \in l .. k - 1 : j \in G PROVE k \in G
  <2>1. CASE k = l  BY <2>1
  <2>2. CASE k # l
    <3>1. k - 1 \in l .. k - 1 /\ k \in l + 1 .. m  BY <2>2
    <3>2. f[l] = f[k - 1] /\ f[k - 1] = f[k]  BY <1>1, <3>1
    <3> QED  BY <3>2
  <2> QED  BY <2>1, <2>2
<1>2. \A k \in l .. m : k \in G
  <2>1. l \in Nat /\ m \in Nat  OBVIOUS
  <2> HIDE DEF G
  <2> QED  BY <1>1, <2>1, Induction
<1>3. m \in l .. m  OBVIOUS
<1> QED  BY <1>2, <1>3

(* The parts of a frame. *)
LEMMA FrameParts ==
  ASSUME NEW f \in FrameType
  PROVE  /\ f.outer \in Seq(Cgts) /\ f.res \in Cgts \cup {FREE} /\ f.pushed \in Seq(Regs)
         /\ f.args \in Nat /\ f.args =< MaxArgs /\ Len(IntPParam) \in Nat
         /\ StackArgs(f) \in Nat /\ Size(f) \in Nat
         /\ AbiUsed(f) \in SUBSET Regs
         /\ \A r : Levels(f, r) \in {0, 1, 2}
         /\ \A r : Levels(f, r) = 0 <=> r \notin ToSet(f.pushed) /\ r \notin AbiUsed(f)
         /\ f.kind \in {"call", "logic", "then", "else"}
         /\ ToSet(f.outer) \in SUBSET Cgts /\ Mine(f) \in SUBSET Cgts
<1>1. /\ f.outer \in Seq(Cgts) /\ f.res \in Cgts \cup {FREE} /\ f.pushed \in Seq(Regs)
      /\ f.args \in Nat /\ f.args =< MaxArgs /\ f.kind \in {"call", "logic", "then", "else"}
  BY BoundAssumption DEF FrameType
<1>2. IntPParam \in Seq(Regs) /\ Len(IntPParam) \in Nat  BY RegAssumption DEF Regs
<1>3. StackArgs(f) \in Nat  BY <1>1, <1>2 DEF StackArgs
<1>4. Size(f) \in Nat  BY <1>1, <1>3 DEF Size
<1>5. AbiUsed(f) \in SUBSET Regs  BY <1>2 DEF AbiUsed
<1>6. /\ \A r : Levels(f, r) \in {0, 1, 2}
      /\ \A r : Levels(f, r) = 0 <=> r \notin ToSet(f.pushed) /\ r \notin AbiUsed(f)
  BY DEF Levels
<1>7. ToSet(f.outer) \in SUBSET Cgts  BY <1>1 DEF ToSet
<1> QED  BY <1>1, <1>2, <1>3, <1>4, <1>5, <1>6, <1>7 DEF Mine

(* The heights and the counts grow with the frames. *)
LEMMA Growing ==
  ASSUME NEW O, NEW fs, NEW h, NEW S, Shape(O, fs, h, S), NEW l \in 0 .. Len(fs),
         NEW k \in l .. Len(fs)
  PROVE  /\ h[l] \in Nat /\ h[k] \in Nat /\ h[l] =< h[k]
         /\ \A r \in Regs : S[l][r] \in Nat /\ S[k][r] \in Nat /\ S[l][r] =< S[k][r]
<1>1. fs \in Seq(FrameType) /\ Len(fs) \in Nat /\ Sums(fs, h) /\ Counts(fs, S)  BY DEF Shape
<1>2. \A j \in 1 .. Len(fs) : fs[j] \in FrameType  BY <1>1
<1>3. h \in [0 .. Len(fs) -> Nat]  BY <1>1 DEF Sums
<1>4. \A j \in 1 .. Len(fs) : h[j - 1] =< h[j]
  <2> SUFFICES ASSUME NEW j \in 1 .. Len(fs) PROVE h[j - 1] =< h[j]  OBVIOUS
  <2>1. Size(fs[j]) \in Nat  BY <1>2, FrameParts
  <2>2. h[j] = h[j - 1] + Size(fs[j])  BY <1>1 DEF Sums
  <2>3. h[j - 1] \in Nat  BY <1>1, <1>3
  <2> QED  BY <2>1, <2>2, <2>3
<1>5. h[l] =< h[k]  BY <1>1, <1>3, <1>4, Monotone
<1>6. ASSUME NEW r \in Regs
      PROVE  S[l][r] \in Nat /\ S[k][r] \in Nat /\ S[l][r] =< S[k][r]
  <2> DEFINE f == [j \in 0 .. Len(fs) |-> S[j][r]]
  <2>1. f \in [0 .. Len(fs) -> Nat]  BY <1>1 DEF Counts
  <2>2. \A j \in 1 .. Len(fs) : f[j - 1] =< f[j]
    <3> SUFFICES ASSUME NEW j \in 1 .. Len(fs) PROVE f[j - 1] =< f[j]  OBVIOUS
    <3>1. Levels(fs[j], r) \in {0, 1, 2}  BY <1>2, FrameParts
    <3>2. S[j][r] = S[j - 1][r] + Levels(fs[j], r)  BY <1>1 DEF Counts
    <3>3. j - 1 \in 0 .. Len(fs) /\ j \in 0 .. Len(fs)  BY <1>1
    <3>4. f[j - 1] \in Nat /\ f[j - 1] = S[j - 1][r] /\ f[j] = S[j][r]  BY <2>1, <3>3
    <3> HIDE DEF f
    <3> QED  BY <3>1, <3>2, <3>4
  <2>3. f[l] =< f[k]
    <3> HIDE DEF f
    <3> QED  BY <1>1, <2>1, <2>2, Monotone
  <2>4. l \in 0 .. Len(fs) /\ k \in 0 .. Len(fs)  BY <1>1
  <2> QED  BY <2>1, <2>3, <2>4
<1>7. l \in 0 .. Len(fs) /\ k \in 0 .. Len(fs)  BY <1>1
<1> QED  BY <1>3, <1>5, <1>6, <1>7

(* Frames that add no live range to a register leave its count alone. *)
LEMMA Flat ==
  ASSUME NEW O, NEW fs, NEW h, NEW S, Shape(O, fs, h, S), NEW r \in Regs,
         NEW l \in 0 .. Len(fs), NEW k \in l .. Len(fs),
         \A j \in l + 1 .. k : Levels(fs[j], r) = 0
  PROVE  S[k][r] = S[l][r]
<1>1. fs \in Seq(FrameType) /\ Len(fs) \in Nat /\ Counts(fs, S)  BY DEF Shape
<1> DEFINE f == [j \in 0 .. Len(fs) |-> S[j][r]]
<1>2. f \in [0 .. Len(fs) -> Nat]  BY <1>1 DEF Counts
<1>3. \A j \in l + 1 .. k : f[j] = f[j - 1]
  <2> SUFFICES ASSUME NEW j \in l + 1 .. k PROVE f[j] = f[j - 1]  OBVIOUS
  <2>1. j \in 1 .. Len(fs) /\ j \in 0 .. Len(fs) /\ j - 1 \in 0 .. Len(fs)  BY <1>1
  <2>2. S[j][r] = S[j - 1][r] + Levels(fs[j], r)  BY <1>1, <2>1 DEF Counts
  <2>3. f[j - 1] \in Nat /\ f[j - 1] = S[j - 1][r] /\ f[j] = S[j][r]  BY <1>2, <2>1
  <2>4. Levels(fs[j], r) = 0  OBVIOUS
  <2> HIDE DEF f
  <2> QED  BY <2>2, <2>3, <2>4
<1>4. f[k] = f[l]
  <2> HIDE DEF f
  <2> QED  BY <1>1, <1>2, <1>3, Constant
<1>5. l \in 0 .. Len(fs) /\ k \in 0 .. Len(fs)  BY <1>1
<1> QED  BY <1>4, <1>5

(* A branch adds nothing to the live ranges and to the stack. *)
LEMMA BranchAdds ==
  ASSUME NEW f \in FrameType, FrameOK(f), f.kind # "call"
  PROVE  Size(f) = 0 /\ f.args = 0 /\ f.pushed = <<>> /\ AbiUsed(f) = {}
         /\ \A r : Levels(f, r) = 0
<1>1. f.args = 0 /\ f.pushed = <<>>  BY DEF FrameOK
<1>2. StackArgs(f) = 0 /\ AbiUsed(f) = {}
  BY <1>1, RegAssumption DEF StackArgs, AbiUsed, Regs
<1>3. ToSet(f.pushed) = {} /\ Len(f.pushed) = 0  BY <1>1 DEF ToSet
<1> QED  BY <1>1, <1>2, <1>3 DEF Size, Levels

(* Between two levels without a call nothing is counted. *)
LEMMA OpenFlat ==
  ASSUME NEW O, NEW fs, NEW h, NEW S, Shape(O, fs, h, S), NEW r \in Regs,
         NEW l \in 0 .. Len(fs), NEW k \in l .. Len(fs), Open(fs, l, k)
  PROVE  S[k][r] = S[l][r]
<1>1. /\ fs \in Seq(FrameType) /\ Len(fs) \in Nat
      /\ \A j \in 1 .. Len(fs) : fs[j] \in FrameType /\ FrameOK(fs[j])
  BY DEF Shape
<1>2. \A j \in l + 1 .. k : Levels(fs[j], r) = 0
  <2> SUFFICES ASSUME NEW j \in l + 1 .. k PROVE Levels(fs[j], r) = 0  OBVIOUS
  <2>1. j \in 1 .. Len(fs) /\ fs[j].kind # "call"  BY <1>1 DEF Open
  <2> QED  BY <1>1, <2>1, BranchAdds
<1> QED  BY <1>2, Flat

(* An owner that no call has covered is at the top of its register. *)
LEMMA Visible ==
  ASSUME NEW g, NEW O, NEW fs, NEW h, NEW S, Shape(O, fs, h, S), Ranged(g, O, fs, S),
         NEW r \in Regs, NEW o \in Ranges, NEW l \in 0 .. Len(fs), g.lrs[r] \in Seq(Ranges),
         Open(fs, l, Len(fs)), Item(g.loc, O, fs, l, r, o)
  PROVE  TopS(g.lrs[r]) = o
<1>1. Len(fs) \in Nat /\ Len(fs) \in l .. Len(fs)  BY DEF Shape
<1>2. S[Len(fs)][r] = S[l][r] /\ S[l][r] \in Nat  BY <1>1, OpenFlat, Growing
<1>3. Owner(g, fs, S, l, r, o)  BY DEF Ranged
<1>4. TopAt(g, fs, S, l, r) = Len(g.lrs[r])  BY <1>2 DEF TopAt
<1>5. g.lrs[r][Len(g.lrs[r])] = o /\ Len(g.lrs[r]) >= 1  BY <1>3, <1>4 DEF Owner
<1>6. TopS(g.lrs[r]) = g.lrs[r][Len(g.lrs[r])]  BY <1>5, TopIs
<1> QED  BY <1>5, <1>6

PushedBy(fs) == UNION {ToSet(fs[i].pushed) : i \in DOMAIN fs}

(* A register that no open call has pushed, and that is not reserved, has   *)
(* no live range of an open frame.                                          *)
LEMMA BaseOnly ==
  ASSUME NEW g, NEW O, NEW fs, NEW h, NEW S, Shape(O, fs, h, S), Ranged(g, O, fs, S),
         NEW r \in Regs, g.lrs[r] \in Seq(Ranges),
         r \notin PushedBy(fs), TopS(g.lrs[r]) # RESERVED
  PROVE  /\ \A l \in 0 .. Len(fs) : S[l][r] = 0
         /\ Len(g.lrs[r]) \in {0, 1}
<1>1. /\ fs \in Seq(FrameType) /\ Len(fs) \in Nat /\ Counts(fs, S)
      /\ \A j \in 1 .. Len(fs) : fs[j] \in FrameType /\ FrameOK(fs[j])
  BY DEF Shape
<1>2. \A j \in 1 .. Len(fs) : r \notin ToSet(fs[j].pushed)  BY <1>1 DEF PushedBy
<1> DEFINE A == {j \in 1 .. Len(fs) : r \in AbiUsed(fs[j])}
<1>3. A = {}
  <2> SUFFICES ASSUME A # {} PROVE FALSE  OBVIOUS
  <2>1. A \in SUBSET (0 .. Len(fs))  OBVIOUS
  <2>2. PICK l \in A : \A k \in A : k =< l
    <3> HIDE DEF A
    <3> QED  BY <1>1, <2>1, Greatest
  <2>3. l \in 1 .. Len(fs) /\ r \in AbiUsed(fs[l])  OBVIOUS
  <2>4. \A j \in l + 1 .. Len(fs) : Levels(fs[j], r) = 0
    <3> SUFFICES ASSUME NEW j \in l + 1 .. Len(fs) PROVE Levels(fs[j], r) = 0  OBVIOUS
    <3>1. j \in 1 .. Len(fs) /\ ~(j =< l)  BY <1>1, <2>3
    <3>2. r \notin AbiUsed(fs[j])  BY <2>2, <3>1
    <3> QED  BY <1>1, <1>2, <3>1, <3>2, FrameParts
  <2>5. l \in 0 .. Len(fs) /\ Len(fs) \in l .. Len(fs) /\ l >= 1  BY <1>1, <2>3
  <2>6. S[Len(fs)][r] = S[l][r] /\ S[l][r] \in Nat  BY <2>4, <2>5, Flat, Growing
  <2>7. Item(g.loc, O, fs, l, r, RESERVED)  BY <2>3, <2>5 DEF Item
  <2>8. Owner(g, fs, S, l, r, RESERVED)
    <3>1. RESERVED \in Ranges  BY DEF Ranges
    <3> QED  BY <2>5, <2>7, <3>1 DEF Ranged
  <2>9. TopAt(g, fs, S, l, r) = Len(g.lrs[r])  BY <2>6 DEF TopAt
  <2>10. g.lrs[r][Len(g.lrs[r])] = RESERVED /\ Len(g.lrs[r]) >= 1  BY <2>8, <2>9 DEF Owner
  <2>11. TopS(g.lrs[r]) = g.lrs[r][Len(g.lrs[r])]  BY <2>10, TopIs
  <2> QED  BY <2>10, <2>11
<1>4. ASSUME NEW l \in 0 .. Len(fs) PROVE S[l][r] = 0
  <2>1. \A j \in 0 + 1 .. l : Levels(fs[j], r) = 0
    <3> SUFFICES ASSUME NEW j \in 0 + 1 .. l PROVE Levels(fs[j], r) = 0  OBVIOUS
    <3>1. j \in 1 .. Len(fs)  BY <1>1
    <3>2. r \notin AbiUsed(fs[j])  BY <1>3, <3>1
    <3> QED  BY <1>1, <1>2, <3>1, <3>2, FrameParts
  <2>2. 0 \in 0 .. Len(fs) /\ l \in 0 .. Len(fs)  BY <1>1
  <2>3. S[l][r] = S[0][r]  BY <2>1, <2>2, Flat
  <2> QED  BY <1>1, <2>3 DEF Counts
<1>5. Len(fs) \in 0 .. Len(fs)  BY <1>1
<1>6. S[Len(fs)][r] = 0  BY <1>4, <1>5
<1>7. Len(g.lrs[r]) - S[Len(fs)][r] \in {0, 1}  BY DEF Ranged
<1> QED  BY <1>4, <1>6, <1>7

-----------------------------------------------------------------------------
(* What a handler may do while the frames stay as they are.                 *)

(* A value v is still there, unless it is the one of a temporary of Y. *)
Survives(v, w, Y) == w = v \/ \E d \in Y : v = Val(d)

(* The live ranges of r: those of D may end; a register that no call has    *)
(* pushed may lose a range that nobody needs.                               *)
KeepsRange(g, w, r, D) ==
  /\ Len(w.lrs[r]) = Len(g.lrs[r])
  /\ \A i \in 1 .. Len(g.lrs[r]) : w.lrs[r][i] = g.lrs[r][i] \/ g.lrs[r][i] \in D
DropsRange(g, w, r, D, fs) ==
  /\ Len(w.lrs[r]) =< Len(g.lrs[r])
  /\ r \notin PushedBy(fs) /\ TopS(g.lrs[r]) \in D \cup {FREE}

(* The temporaries of Y lose their value, and those not in P their place. *)
Evolves(g, w, P, fs, Y) ==
  /\ w \in GenType
  /\ \A c \in Cgts : c \notin Y \/ c \in P => w.loc[c] = g.loc[c]
  /\ \A r \in Regs : KeepsRange(g, w, r, Y \ P) \/ DropsRange(g, w, r, Y \ P, fs)
  /\ Len(w.stk) = Len(g.stk)
  /\ \A i \in 1 .. Len(g.stk) : Survives(g.stk[i], w.stk[i], Y)
  /\ \A c \in g.slots : c \notin Y => c \in w.slots
  /\ \A r \in Regs : Busy(g, r) /\ TopS(g.lrs[r]) \notin Y => Survives(g.reg[r], w.reg[r], Y)

(* The shape with fewer temporaries. *)
LEMMA FewerShape ==
  ASSUME NEW O, NEW fs, NEW h, NEW S, Shape(O, fs, h, S), NEW P \in SUBSET O
  PROVE  Shape(P, fs, h, S)
<1>1. \A l \in 0 .. Len(fs) : Own(P, fs, l) \in SUBSET Own(O, fs, l)  BY DEF Own
<1>2. \A l, k \in 0 .. Len(fs) : l < k => Own(O, fs, l) \cap Own(O, fs, k) = {}  BY DEF Shape
<1>3. \A l, k \in 0 .. Len(fs) : l < k => Own(P, fs, l) \cap Own(P, fs, k) = {}
  BY <1>1, <1>2
<1> QED  BY <1>3 DEF Shape

(* The owners of a level are temporaries. *)
LEMMA OwnCgts ==
  ASSUME NEW O, NEW fs, NEW h, NEW S, Shape(O, fs, h, S), NEW l \in 0 .. Len(fs)
  PROVE  /\ Own(O, fs, l) \in SUBSET Cgts
         /\ Wait(O, fs, l) \in SUBSET Own(O, fs, l)
<1>1. fs \in Seq(FrameType) /\ Len(fs) \in Nat /\ O \in SUBSET Cgts  BY DEF Shape
<1>2. CASE l = Len(fs)  BY <1>1, <1>2 DEF Own, Wait
<1>3. CASE l # Len(fs)
  <2>1. fs[l + 1] \in FrameType  BY <1>1, <1>3
  <2> QED  BY <1>3, <2>1, FrameParts DEF Own, Wait, Mine
<1> QED  BY <1>2, <1>3

(* Owners keep their live ranges. *)
LEMMA EvolveRanged ==
  ASSUME NEW g \in GenType, NEW w, NEW O, NEW P \in SUBSET O, NEW fs, NEW h, NEW S,
         NEW Y \in SUBSET Cgts,
         Shape(O, fs, h, S), Ranged(g, O, fs, S), Evolves(g, w, P, fs, Y),
         \A l \in 0 .. Len(fs) - 1 : Y \cap Own(O, fs, l) = {}
  PROVE  Ranged(w, P, fs, S)
<1>0. Len(fs) \in Nat /\ O \in SUBSET Cgts  BY DEF Shape
<1>1. /\ \A r \in Regs : g.lrs[r] \in Seq(Ranges) /\ Len(g.lrs[r]) \in Nat
      /\ \A r \in Regs : w.lrs[r] \in Seq(Ranges) /\ Len(w.lrs[r]) \in Nat
  <2>1. \A r \in Regs : g.lrs[r] \in Seq(Ranges) /\ w.lrs[r] \in Seq(Ranges)
    BY GenFields DEF Evolves
  <2> QED  BY <2>1, StackFacts
<1>2. \A l \in 0 .. Len(fs) : \A c \in Own(P, fs, l) :
        c \in Own(O, fs, l) /\ c \in Cgts /\ w.loc[c] = g.loc[c] /\ c \notin Y \ P
  <2> SUFFICES ASSUME NEW l \in 0 .. Len(fs), NEW c \in Own(P, fs, l)
               PROVE  c \in Own(O, fs, l) /\ c \in Cgts /\ w.loc[c] = g.loc[c] /\ c \notin Y \ P
    OBVIOUS
  <2>1. c \in Own(O, fs, l) /\ c \in Cgts  BY OwnCgts DEF Own
  <2>2. c \in P \/ c \notin Y
    <3>1. CASE l = Len(fs)  BY <3>1 DEF Own
    <3>2. CASE l # Len(fs)  BY <1>0, <2>1, <3>2
    <3> QED  BY <3>1, <3>2
  <2> QED  BY <2>1, <2>2 DEF Evolves
<1>3. ASSUME NEW r \in Regs PROVE Len(w.lrs[r]) - S[Len(fs)][r] \in {0, 1}
  <2>1. Len(g.lrs[r]) - S[Len(fs)][r] \in {0, 1}  BY DEF Ranged
  <2>2. CASE KeepsRange(g, w, r, Y \ P)  BY <2>1, <2>2 DEF KeepsRange
  <2>3. CASE DropsRange(g, w, r, Y \ P, fs)
    <3>1. r \notin PushedBy(fs) /\ TopS(g.lrs[r]) # RESERVED  BY <2>3, Numbers DEF DropsRange
    <3>2. S[Len(fs)][r] = 0 /\ Len(g.lrs[r]) \in {0, 1}  BY <1>0, <1>1, <3>1, BaseOnly
    <3>3. Len(w.lrs[r]) =< Len(g.lrs[r])  BY <2>3 DEF DropsRange
    <3>4. Len(w.lrs[r]) \in Nat  BY <1>1
    <3>5. ASSUME NEW a \in Nat, NEW b \in {0, 1}, NEW z, a =< b, z = 0 PROVE a - z \in {0, 1}
      BY <3>5
    <3> QED  BY <3>2, <3>3, <3>4, <3>5
  <2> QED  BY <2>2, <2>3 DEF Evolves
<1>4. ASSUME NEW l \in 0 .. Len(fs), NEW r \in Regs, NEW o \in Ranges,
             Item(w.loc, P, fs, l, r, o)
      PROVE  Owner(w, fs, S, l, r, o)
  <2>1. Item(g.loc, O, fs, l, r, o) /\ o \notin Y \ P /\ o # FREE
    <3>1. CASE o \in Own(P, fs, l) /\ w.loc[o] = r  BY <1>2, <3>1, Numbers DEF Item
    <3>2. CASE o = RESERVED /\ l >= 1 /\ r \in AbiUsed(fs[l])  BY <3>2, Numbers DEF Item
    <3> QED  BY <1>4, <3>1, <3>2 DEF Item
  <2>2. Owner(g, fs, S, l, r, o)  BY <2>1 DEF Ranged
  <2>3. CASE KeepsRange(g, w, r, Y \ P)
    <3>1. TopAt(w, fs, S, l, r) = TopAt(g, fs, S, l, r) /\ Len(w.lrs[r]) = Len(g.lrs[r])
      BY <2>3 DEF TopAt, KeepsRange
    <3>2. /\ TopAt(g, fs, S, l, r) \in 1 .. Len(g.lrs[r])
          /\ g.lrs[r][TopAt(g, fs, S, l, r)] = o
      BY <2>2 DEF Owner
    <3>3. w.lrs[r][TopAt(g, fs, S, l, r)] = o  BY <2>1, <2>3, <3>2 DEF KeepsRange
    <3> QED  BY <3>1, <3>2, <3>3 DEF Owner
  <2>4. CASE DropsRange(g, w, r, Y \ P, fs)
    <3>1. /\ r \notin PushedBy(fs) /\ TopS(g.lrs[r]) # RESERVED
          /\ TopS(g.lrs[r]) \in (Y \ P) \cup {FREE}
      BY <2>4, Numbers DEF DropsRange
    <3>2. S[Len(fs)][r] = 0 /\ S[l][r] = 0  BY <1>0, <1>1, <3>1, BaseOnly
    <3>3. TopAt(g, fs, S, l, r) = Len(g.lrs[r])  BY <1>1, <3>2 DEF TopAt
    <3>4. g.lrs[r][Len(g.lrs[r])] = o /\ Len(g.lrs[r]) >= 1  BY <1>1, <2>2, <3>3 DEF Owner
    <3>5. TopS(g.lrs[r]) = o
      <4>1. g.lrs[r] \in Seq(Ranges)  BY <1>1
      <4>2. TopS(g.lrs[r]) = g.lrs[r][Len(g.lrs[r])]  BY <3>4, <4>1, TopIs
      <4> QED  BY <3>4, <4>2
    <3> QED  BY <2>1, <3>1, <3>5
  <2> QED  BY <2>3, <2>4 DEF Evolves
<1>5. \A l \in 0 .. Len(fs) : \A c \in Own(P, fs, l) : w.loc[c] # "none"
  BY <1>2 DEF Ranged
<1> QED  BY <1>3, <1>4, <1>5 DEF Ranged

(* Where the first call opened since level l has pushed a register. *)
LEMMA SavedPlace ==
  ASSUME NEW O, NEW fs, NEW h, NEW S, Shape(O, fs, h, S), NEW k \in 0 .. Len(fs),
         NEW j \in 1 .. k, NEW q \in DOMAIN fs[j].pushed
  PROVE  h[j - 1] + q \in 1 .. h[k] /\ h[j - 1] + q \in 1 .. h[j - 1] + Len(fs[j].pushed)
<1>1. fs \in Seq(FrameType) /\ Len(fs) \in Nat /\ Sums(fs, h)  BY DEF Shape
<1>2. j \in 1 .. Len(fs) /\ j - 1 \in 0 .. Len(fs) /\ j \in 0 .. Len(fs) /\ k \in j .. Len(fs)
      /\ j \in j - 1 .. Len(fs)
  BY <1>1
<1>3. fs[j] \in FrameType  BY <1>1, <1>2
<1>4. fs[j].pushed \in Seq(Regs) /\ Len(fs[j].pushed) \in Nat /\ StackArgs(fs[j]) \in Nat
  <2>1. fs[j].pushed \in Seq(Regs) /\ StackArgs(fs[j]) \in Nat  BY <1>3, FrameParts
  <2> QED  BY <2>1
<1>5. q \in 1 .. Len(fs[j].pushed)  BY <1>4
<1>6. h[j] = h[j - 1] + Size(fs[j])  BY <1>1, <1>2 DEF Sums
<1>7. h[j] =< h[k] /\ h[j] \in Nat /\ h[k] \in Nat /\ h[j - 1] \in Nat  BY <1>2, Growing
<1>8. Len(fs[j].pushed) \in Nat /\ StackArgs(fs[j]) \in Nat  BY <1>4
<1>9. h[j] = h[j - 1] + (Len(fs[j].pushed) + StackArgs(fs[j]))  BY <1>6 DEF Size
<1>10. ASSUME NEW a \in Nat, NEW b \in Nat, NEW c \in Nat, NEW d \in Nat, NEW p \in 1 .. b,
              a + (b + c) =< d
       PROVE  a + p \in 1 .. d /\ a + p \in 1 .. a + b
  BY <1>10
<1>11. h[j - 1] + (Len(fs[j].pushed) + StackArgs(fs[j])) =< h[k]  BY <1>7, <1>9
<1> QED  BY <1>5, <1>7, <1>8, <1>10, <1>11

(* Where an argument on the stack lies. *)
LEMMA ArgPlace ==
  ASSUME NEW O, NEW fs, NEW h, NEW S, Shape(O, fs, h, S), NEW k \in 0 .. Len(fs),
         NEW l \in 1 .. k, NEW i \in 1 .. fs[l].args, i > Len(IntPParam)
  PROVE  /\ h[l] - fs[l].args + i \in 1 .. h[k]
         /\ h[l] - fs[l].args + i > h[l - 1] + Len(fs[l].pushed)
<1>1. fs \in Seq(FrameType) /\ Len(fs) \in Nat /\ Sums(fs, h)  BY DEF Shape
<1>2. l \in 1 .. Len(fs) /\ l - 1 \in 0 .. Len(fs) /\ l \in 0 .. Len(fs) /\ k \in l .. Len(fs)
      /\ l \in l - 1 .. Len(fs)
  BY <1>1
<1>3. fs[l] \in FrameType  BY <1>1, <1>2
<1>4. fs[l].pushed \in Seq(Regs) /\ fs[l].args \in Nat /\ Len(IntPParam) \in Nat
  BY <1>3, FrameParts
<1>5. Len(fs[l].pushed) \in Nat  BY <1>4
<1>6. h[l] = h[l - 1] + Size(fs[l])  BY <1>1, <1>2 DEF Sums
<1>7. h[l] =< h[k] /\ h[l] \in Nat /\ h[k] \in Nat /\ h[l - 1] \in Nat  BY <1>2, Growing
<1>8. StackArgs(fs[l]) = fs[l].args - Len(IntPParam)  BY <1>4 DEF StackArgs
<1>9. fs[l].args \in Nat /\ Len(IntPParam) \in Nat  BY <1>4
<1>10. h[l] = h[l - 1] + (Len(fs[l].pushed) + (fs[l].args - Len(IntPParam)))
  BY <1>6, <1>8 DEF Size
<1>11. ASSUME NEW a \in Nat, NEW b \in Nat, NEW n \in Nat, NEW m \in Nat, NEW d \in Nat,
              NEW e \in Nat, NEW p \in 1 .. n, p > m, e = a + (b + (n - m)), e =< d
       PROVE  e - n + p \in 1 .. d /\ e - n + p > a + b
  BY <1>11
<1> QED  BY <1>5, <1>7, <1>9, <1>10, <1>11

(* Values that have to be kept are kept. *)
LEMMA EvolveIntact ==
  ASSUME NEW g, NEW w, NEW O, NEW P \in SUBSET O, NEW fs, NEW h, NEW S,
         NEW Y \in SUBSET Cgts, NEW X, NEW Z,
         Good(g, O, fs, h, S, X), Evolves(g, w, P, fs, Y),
         \A l \in 0 .. Len(fs) - 1 : Y \cap Own(O, fs, l) = {},
         \A c \in P \ Z : (c \notin X /\ c \notin Y) \/ HasVal(w, w.loc, c),
         Z \in SUBSET P
  PROVE  Intact(w, w.loc, P, fs, h, Len(fs), Z)
<1>0. /\ g \in GenType /\ Shape(O, fs, h, S) /\ Ranged(g, O, fs, S) /\ X \in SUBSET O
      /\ Intact(g, g.loc, O, fs, h, Len(fs), X) /\ Len(fs) \in Nat /\ O \in SUBSET Cgts
      /\ fs \in Seq(FrameType)
  BY DEF Good, Shape
<1>1. \A r \in Regs : g.lrs[r] \in Seq(Ranges)  BY <1>0, GenFields
<1>2. Len(w.stk) = h[Len(fs)]  BY <1>0 DEF Intact, Evolves
<1>3. ASSUME NEW l \in 0 .. Len(fs), NEW c \in Wait(P, fs, l) \ Z
      PROVE  /\ c \in Own(O, fs, l) /\ c \in Cgts /\ w.loc[c] = g.loc[c]
             /\ \/ c \in Wait(O, fs, l) \ X /\ c \notin Y
                \/ l = Len(fs) /\ HasVal(w, w.loc, c)
  <2>1. CASE l = Len(fs)
    <3>1. c \in P /\ c \in Own(O, fs, l) /\ c \in Wait(O, fs, l) /\ c \in Cgts
      BY <1>0, <1>3, <2>1 DEF Wait, Own
    <3> QED  BY <1>3, <2>1, <3>1 DEF Evolves
  <2>2. CASE l # Len(fs)
    <3>1. Len(fs) \in 0 .. Len(fs) /\ l < Len(fs) /\ l \in 0 .. Len(fs) - 1  BY <1>0, <2>2
    <3>2. c \in Wait(O, fs, l) /\ c \in Own(O, fs, l) /\ c \in Cgts
      BY <1>0, <1>3, <2>2, OwnCgts DEF Wait
    <3>3. c \notin Y  BY <3>1, <3>2
    <3>4. c \notin X
      <4>1. Own(O, fs, l) \cap Own(O, fs, Len(fs)) = {}  BY <1>0, <3>1 DEF Shape
      <4>2. Own(O, fs, Len(fs)) = O  BY DEF Own
      <4> QED  BY <1>0, <3>2, <4>1, <4>2
    <3> QED  BY <3>2, <3>3, <3>4 DEF Evolves
  <2> QED  BY <2>1, <2>2
<1>4. ASSUME NEW l \in 0 .. Len(fs), NEW r \in Regs, NEW v \in Values, NEW o \in Ranges,
             ValueAt(g, fs, h, l, Len(fs), r, v), Item(g.loc, O, fs, l, r, o),
             o # FREE, o \notin Y, \A d \in Y : v # Val(d)
      PROVE  ValueAt(w, fs, h, l, Len(fs), r, v)
  <2>1. ASSUME Open(fs, l, Len(fs)) PROVE w.reg[r] = v
    <3>1. TopS(g.lrs[r]) = o  BY <1>0, <1>1, <1>4, <2>1, Visible
    <3>2. Busy(g, r)  BY <1>4, <3>1, PeekTop
    <3>3. Survives(g.reg[r], w.reg[r], Y)  BY <1>4, <3>1, <3>2 DEF Evolves
    <3>4. g.reg[r] = v  BY <1>4, <2>1 DEF ValueAt
    <3> QED  BY <1>4, <3>3, <3>4 DEF Survives
  <2>2. ASSUME NEW j \in l + 1 .. Len(fs), Open(fs, l, j - 1), fs[j].kind = "call"
        PROVE  /\ r \in ToSet(fs[j].pushed)
               /\ \A q \in DOMAIN fs[j].pushed :
                    fs[j].pushed[q] = r => w.stk[h[j - 1] + q] = v
    <3>1. /\ r \in ToSet(fs[j].pushed)
          /\ \A q \in DOMAIN fs[j].pushed :
               fs[j].pushed[q] = r => g.stk[h[j - 1] + q] = v
      BY <1>4, <2>2 DEF ValueAt
    <3>2. ASSUME NEW q \in DOMAIN fs[j].pushed, fs[j].pushed[q] = r
          PROVE  w.stk[h[j - 1] + q] = v
      <4>1. j \in 1 .. Len(fs) /\ Len(fs) \in 0 .. Len(fs)  BY <1>0
      <4>2. h[j - 1] + q \in 1 .. h[Len(fs)]  BY <1>0, <4>1, SavedPlace
      <4>3. Len(g.stk) = h[Len(fs)]  BY <1>0 DEF Intact
      <4>4. Survives(g.stk[h[j - 1] + q], w.stk[h[j - 1] + q], Y)
        BY <4>2, <4>3 DEF Evolves
      <4>5. g.stk[h[j - 1] + q] = v  BY <3>1, <3>2
      <4> QED  BY <1>4, <4>4, <4>5 DEF Survives
    <3> QED  BY <3>1, <3>2
  <2> QED  BY <2>1, <2>2 DEF ValueAt
<1>5. ASSUME NEW l \in 0 .. Len(fs), NEW r \in Regs, NEW v \in Values,
             Valued(w.loc, P, fs, Z, l, r, v)
      PROVE  ValueAt(w, fs, h, l, Len(fs), r, v)
  <2>1. ASSUME NEW c \in Wait(P, fs, l) \ Z, w.loc[c] = r, v = Val(c)
        PROVE  ValueAt(w, fs, h, l, Len(fs), r, v)
    <3>1. /\ c \in Own(O, fs, l) /\ c \in Cgts /\ w.loc[c] = g.loc[c]
          /\ \/ c \in Wait(O, fs, l) \ X /\ c \notin Y
             \/ l = Len(fs) /\ HasVal(w, w.loc, c)
      BY <1>3, <2>1
    <3>2. CASE c \in Wait(O, fs, l) \ X /\ c \notin Y
      <4>1. Valued(g.loc, O, fs, X, l, r, v)  BY <2>1, <3>1, <3>2 DEF Valued
      <4>2. ValueAt(g, fs, h, l, Len(fs), r, v)  BY <1>0, <4>1 DEF Intact
      <4>3. Item(g.loc, O, fs, l, r, c)  BY <2>1, <3>1 DEF Item
      <4>4. c \in Ranges /\ c # FREE  BY <3>1, Numbers DEF Ranges
      <4>5. \A d \in Y : v # Val(d)  BY <2>1, <3>2, ValueFacts
      <4> QED  BY <1>4, <3>2, <4>2, <4>3, <4>4, <4>5
    <3>3. CASE l = Len(fs) /\ HasVal(w, w.loc, c)
      <4>1. w.reg[r] = v  BY <2>1, <3>3 DEF HasVal
      <4>2. \A j \in l + 1 .. Len(fs) : FALSE  BY <1>0, <3>3
      <4> QED  BY <4>1, <4>2 DEF ValueAt
    <3> QED  BY <3>1, <3>2, <3>3
  <2>2. ASSUME NEW i \in 1 .. fs[l].args, l >= 1, i =< Len(IntPParam), r = IntPParam[i],
               v = ArgVal(l, i)
        PROVE  ValueAt(w, fs, h, l, Len(fs), r, v)
    <3>1. Valued(g.loc, O, fs, X, l, r, v)  BY <2>2 DEF Valued
    <3>2. ValueAt(g, fs, h, l, Len(fs), r, v)  BY <1>0, <3>1 DEF Intact
    <3>3. r \in AbiUsed(fs[l])
      <4>1. l \in 1 .. Len(fs)  BY <1>0, <2>2
      <4>2. fs[l] \in FrameType  BY <1>0, <4>1
      <4>3. fs[l].args \in Nat  BY <4>2, FrameParts
      <4>4. i \in DOMAIN IntPParam  BY <2>2, <4>3, RegAssumption
      <4> QED  BY <2>2, <4>4 DEF AbiUsed
    <3>4. Item(g.loc, O, fs, l, r, RESERVED)  BY <2>2, <3>3 DEF Item
    <3>5. RESERVED \in Ranges /\ RESERVED # FREE /\ RESERVED \notin Y
      BY Numbers DEF Ranges
    <3>6. \A d \in Y : v # Val(d)  BY <2>2, ValueFacts
    <3> QED  BY <1>4, <3>2, <3>4, <3>5, <3>6
  <2> QED  BY <1>5, <2>1, <2>2 DEF Valued
<1>6. ASSUME NEW l \in 0 .. Len(fs), NEW c \in Wait(P, fs, l) \ Z, w.loc[c] = "stack"
      PROVE  c \in w.slots
  <2>1. /\ c \in Cgts /\ w.loc[c] = g.loc[c]
        /\ \/ c \in Wait(O, fs, l) \ X /\ c \notin Y
           \/ HasVal(w, w.loc, c)
    BY <1>3, <1>6
  <2>2. CASE c \in Wait(O, fs, l) \ X /\ c \notin Y
    <3>1. c \in g.slots  BY <1>0, <1>6, <2>1, <2>2 DEF Intact
    <3> QED  BY <2>2, <3>1 DEF Evolves
  <2>3. CASE HasVal(w, w.loc, c)  BY <1>6, <2>3, Numbers DEF HasVal
  <2> QED  BY <2>1, <2>2, <2>3
<1>7. ASSUME NEW l \in 1 .. Len(fs), NEW i \in 1 .. fs[l].args, i > Len(IntPParam)
      PROVE  w.stk[h[l] - fs[l].args + i] = ArgVal(l, i)
  <2>1. g.stk[h[l] - fs[l].args + i] = ArgVal(l, i)  BY <1>0, <1>7 DEF Intact
  <2>2. Len(fs) \in 0 .. Len(fs)  BY <1>0
  <2>3. h[l] - fs[l].args + i \in 1 .. h[Len(fs)]  BY <1>0, <1>7, <2>2, ArgPlace
  <2>4. Len(g.stk) = h[Len(fs)]  BY <1>0 DEF Intact
  <2>5. Survives(g.stk[h[l] - fs[l].args + i], w.stk[h[l] - fs[l].args + i], Y)
    BY <2>3, <2>4 DEF Evolves
  <2> QED  BY <2>1, <2>5, ValueFacts DEF Survives
<1> QED  BY <1>2, <1>5, <1>6, <1>7 DEF Intact

(* The machine at a jump does not depend on what happens to locations of    *)
(* temporaries that did not wait there.                                     *)
LEMMA SameIntact ==
  ASSUME NEW m, NEW loc, NEW loc2, NEW O, NEW fs, NEW h, NEW k \in Nat, NEW X,
         Intact(m, loc, O, fs, h, k, X),
         \A l \in 0 .. k : \A c \in Wait(O, fs, l) : loc2[c] = loc[c]
  PROVE  Intact(m, loc2, O, fs, h, k, X)
<1>1. \A l \in 0 .. k : \A r, v : Valued(loc2, O, fs, X, l, r, v) => Valued(loc, O, fs, X, l, r, v)
  BY DEF Valued
<1> QED  BY <1>1 DEF Intact

(* The machines at the jumps stay good. *)
LEMMA SameSnapshots ==
  ASSUME NEW loc, NEW loc2, NEW O, NEW fs, NEW h, NEW S, Shape(O, fs, h, S),
         Snapshots(loc, fs, h),
         \A l \in 0 .. Len(fs) - 1 : \A c \in Own(O, fs, l) : loc2[c] = loc[c]
  PROVE  Snapshots(loc2, fs, h)
<1>0. Len(fs) \in Nat /\ fs \in Seq(FrameType) /\ \A k \in 1 .. Len(fs) : FrameOK(fs[k])
  BY DEF Shape
<1>1. ASSUME NEW k \in 1 .. Len(fs), fs[k].res # FREE PROVE loc2[fs[k].res] = loc[fs[k].res]
  <2>1. k - 1 \in 0 .. Len(fs) - 1 /\ k - 1 # Len(fs) /\ k - 1 + 1 = k  BY <1>0
  <2>2. Own(O, fs, k - 1) = Mine(fs[k])  BY <2>1 DEF Own
  <2>3. fs[k].res \in Own(O, fs, k - 1)  BY <1>1, <2>2 DEF Mine
  <2> QED  BY <2>1, <2>3
<1>2. ASSUME NEW k \in 1 .. Len(fs), fs[k].kind # "call"
      PROVE  /\ Intact(fs[k].machine, loc2, {}, fs, h, k - 1, {})
             /\ fs[k].kind = "else" => HasVal(fs[k].machine, loc2, fs[k].res)
  <2>1. /\ Intact(fs[k].machine, loc, {}, fs, h, k - 1, {})
        /\ fs[k].kind = "else" => HasVal(fs[k].machine, loc, fs[k].res)
    BY <1>2 DEF Snapshots
  <2>2. k - 1 \in Nat /\ \A l \in 0 .. k - 1 : l \in 0 .. Len(fs) - 1 /\ l # Len(fs)
    BY <1>0
  <2>3. \A l \in 0 .. k - 1 : Wait({}, fs, l) \in SUBSET Own(O, fs, l)
    BY <2>2 DEF Wait, Own, Mine
  <2>4. \A l \in 0 .. k - 1 : \A c \in Wait({}, fs, l) : loc2[c] = loc[c]
    BY <2>2, <2>3
  <2>5. Intact(fs[k].machine, loc2, {}, fs, h, k - 1, {})  BY <2>1, <2>2, <2>4, SameIntact
  <2>6. ASSUME fs[k].kind = "else" PROVE HasVal(fs[k].machine, loc2, fs[k].res)
    <3>1. fs[k].res \in Cgts  BY <1>0, <2>6 DEF FrameOK
    <3>2. loc2[fs[k].res] = loc[fs[k].res]  BY <1>1, <3>1, Numbers
    <3> QED  BY <2>1, <2>6, <3>2 DEF HasVal
  <2> QED  BY <2>5, <2>6
<1> QED  BY <1>1, <1>2 DEF Snapshots

(* A handler that stays within Evolves keeps the invariant; temporaries     *)
(* that it has written may leave X.                                         *)
LEMMA Evolve ==
  ASSUME NEW g, NEW w, NEW O, NEW P \in SUBSET O, NEW fs, NEW h, NEW S,
         NEW Y \in SUBSET Cgts, NEW X, NEW Z \in SUBSET P,
         Good(g, O, fs, h, S, X), Evolves(g, w, P, fs, Y),
         \A l \in 0 .. Len(fs) - 1 : Y \cap Own(O, fs, l) = {},
         \A c \in P \ Z : (c \notin X /\ c \notin Y) \/ HasVal(w, w.loc, c)
  PROVE  Good(w, P, fs, h, S, Z)
<1>0. /\ g \in GenType /\ Shape(O, fs, h, S) /\ Ranged(g, O, fs, S)
      /\ Snapshots(g.loc, fs, h) /\ Len(fs) \in Nat
  BY DEF Good, Shape
<1>1. Intact(w, w.loc, P, fs, h, Len(fs), Z)  BY EvolveIntact
<1>2. Ranged(w, P, fs, S)  BY <1>0, EvolveRanged
<1>3. Shape(P, fs, h, S)  BY <1>0, FewerShape
<1>4. \A l \in 0 .. Len(fs) - 1 : \A c \in Own(O, fs, l) : w.loc[c] = g.loc[c]
  <2> SUFFICES ASSUME NEW l \in 0 .. Len(fs) - 1, NEW c \in Own(O, fs, l)
               PROVE  w.loc[c] = g.loc[c]
    OBVIOUS
  <2>1. l \in 0 .. Len(fs)  BY <1>0
  <2>2. c \in Cgts /\ c \notin Y  BY <1>0, <2>1, OwnCgts
  <2> QED  BY <2>2 DEF Evolves
<1>5. Snapshots(w.loc, fs, h)  BY <1>0, <1>4, SameSnapshots
<1> QED  BY <1>1, <1>2, <1>3, <1>5 DEF Good, Evolves

-----------------------------------------------------------------------------
(* The operations of NncStorage keep the invariant.                         *)

(* A temporary at the current level is in its register, or in its slot. *)
LEMMA HasContent ==
  ASSUME NEW g, NEW O, NEW fs, NEW h, NEW S, NEW X, Good(g, O, fs, h, S, X),
         NEW c \in O
  PROVE  /\ c \in Cgts /\ g.loc[c] # "none" /\ g.loc[c] \in Places
         /\ g.loc[c] \in Regs => TopS(g.lrs[g.loc[c]]) = c
         /\ c \notin X => HasVal(g, g.loc, c) /\ Content(g, c) = Val(c)
<1>0. /\ g \in GenType /\ Shape(O, fs, h, S) /\ Ranged(g, O, fs, S) /\ X \in SUBSET O
      /\ Intact(g, g.loc, O, fs, h, Len(fs), X) /\ Len(fs) \in Nat /\ O \in SUBSET Cgts
  BY DEF Good, Shape
<1>1. c \in Cgts /\ Len(fs) \in 0 .. Len(fs) /\ Own(O, fs, Len(fs)) = O /\ Wait(O, fs, Len(fs)) = O
  BY <1>0 DEF Own, Wait
<1>2. g.loc[c] # "none" /\ g.loc[c] \in Places  BY <1>0, <1>1, GenFields DEF Ranged
<1>3. Open(fs, Len(fs), Len(fs))  BY <1>0 DEF Open
<1>4. ASSUME g.loc[c] \in Regs PROVE TopS(g.lrs[g.loc[c]]) = c
  <2>1. Item(g.loc, O, fs, Len(fs), g.loc[c], c)  BY <1>1 DEF Item
  <2>2. c \in Ranges /\ g.lrs[g.loc[c]] \in Seq(Ranges)  BY <1>0, <1>1, <1>4, GenFields DEF Ranges
  <2> QED  BY <1>0, <1>1, <1>3, <1>4, <2>1, <2>2, Visible
<1>5. ASSUME c \notin X PROVE HasVal(g, g.loc, c)
  <2>1. CASE g.loc[c] \in Regs
    <3>1. Val(c) \in Values  BY <1>1, ValueFacts
    <3>2. Valued(g.loc, O, fs, X, Len(fs), g.loc[c], Val(c))  BY <1>1, <1>5 DEF Valued
    <3>3. ValueAt(g, fs, h, Len(fs), Len(fs), g.loc[c], Val(c))
      BY <1>0, <1>1, <2>1, <3>1, <3>2 DEF Intact
    <3> QED  BY <1>3, <2>1, <3>3 DEF ValueAt, HasVal
  <2>2. CASE g.loc[c] \notin Regs
    <3>1. g.loc[c] = "stack"  BY <1>2, <2>2 DEF Places
    <3>2. c \in g.slots  BY <1>0, <1>1, <1>5, <3>1 DEF Intact
    <3> QED  BY <2>2, <3>2 DEF HasVal
  <2> QED  BY <2>1, <2>2
<1>6. HasVal(g, g.loc, c) => Content(g, c) = Val(c)  BY DEF HasVal, Content
<1> QED  BY <1>1, <1>2, <1>4, <1>5, <1>6

(* Values computed from intact ones. *)
LEMMA ComputedIs ==
  ASSUME NEW c, NEW from, NEW v, \A a \in from : v[a] = Val(a)
  PROVE  Computed(c, v, from) = Val(c)
BY DEF Computed

(* What the handlers read of intact temporaries. *)
LEMMA ContentsAre ==
  ASSUME NEW g, NEW O, NEW fs, NEW h, NEW S, NEW X, Good(g, O, fs, h, S, X),
         NEW from \in SUBSET (O \ X), NEW c
  PROVE  Computed(c, Contents(g, from), from) = Val(c)
<1>1. \A a \in from : Contents(g, from)[a] = Val(a)  BY HasContent DEF Contents
<1> QED  BY <1>1, ComputedIs

(* The temporaries above a level are not those of the levels below. *)
LEMMA Disjoint ==
  ASSUME NEW g, NEW O, NEW fs, NEW h, NEW S, NEW X, Good(g, O, fs, h, S, X),
         NEW Y \in SUBSET O
  PROVE  Y \in SUBSET Cgts /\ \A l \in 0 .. Len(fs) - 1 : Y \cap Own(O, fs, l) = {}
<1>0. Shape(O, fs, h, S) /\ O \in SUBSET Cgts /\ Len(fs) \in Nat  BY DEF Good, Shape
<1>1. Own(O, fs, Len(fs)) = O /\ Len(fs) \in 0 .. Len(fs)  BY <1>0 DEF Own
<1>2. \A l \in 0 .. Len(fs) - 1 : l \in 0 .. Len(fs) /\ l < Len(fs)  BY <1>0
<1>3. \A l \in 0 .. Len(fs) - 1 : Own(O, fs, l) \cap O = {}  BY <1>0, <1>1, <1>2 DEF Shape
<1> QED  BY <1>0, <1>3

(* Nothing changes but that fewer temporaries are waited for. *)
LEMMA Fewer ==
  ASSUME NEW g, NEW O, NEW fs, NEW h, NEW S, NEW X, Good(g, O, fs, h, S, X),
         NEW P \in SUBSET O
  PROVE  Good(g, P, fs, h, S, X \cap P)
<1>0. g \in GenType /\ X \in SUBSET O /\ Len(fs) \in Nat  BY DEF Good, Shape
<1>1. Evolves(g, g, P, fs, {})
  <2>1. \A r \in Regs : KeepsRange(g, g, r, {} \ P)  BY DEF KeepsRange
  <2> QED  BY <1>0, <2>1 DEF Evolves, Survives
<1>2. \A c \in P \ (X \cap P) : c \notin X /\ c \notin {}  OBVIOUS
<1>3. \A l \in 0 .. Len(fs) - 1 : {} \cap Own(O, fs, l) = {}  OBVIOUS
<1>4. {} \in SUBSET Cgts /\ X \cap P \in SUBSET P  OBVIOUS
<1> QED  BY <1>1, <1>2, <1>3, <1>4, Evolve

(* The end of live ranges. *)
LEMMA RetireGood ==
  ASSUME NEW g, NEW O, NEW fs, NEW h, NEW S, NEW X, Good(g, O, fs, h, S, X),
         NEW D \in SUBSET Cgts, \A l \in 0 .. Len(fs) - 1 : D \cap Own(O, fs, l) = {}
  PROVE  Good(Retire(g, D), O \ D, fs, h, S, X \ D)
<1>0. g \in GenType /\ X \in SUBSET O  BY DEF Good
<1> DEFINE w == Retire(g, D)
           P == O \ D
<1>1. /\ w \in GenType
      /\ \A c \in Cgts : w.loc[c] = IF c \in D THEN "none" ELSE g.loc[c]
      /\ w.slots = g.slots \ D
      /\ Len(w.stk) = Len(g.stk)
      /\ \A i \in 1 .. Len(g.stk) : w.stk[i] = g.stk[i] \/ \E d \in D : g.stk[i] = Val(d)
      /\ \A r \in Regs : w.reg[r] = g.reg[r] \/ \E d \in D : g.reg[r] = Val(d)
      /\ \A r \in Regs :
           /\ Len(w.lrs[r]) = Len(g.lrs[r])
           /\ \A i \in 1 .. Len(g.lrs[r]) :
                w.lrs[r][i] = IF g.lrs[r][i] \in D THEN FREE ELSE g.lrs[r][i]
  BY <1>0, RetireFields
<1> HIDE DEF w
<1>2. D \ P = D  OBVIOUS
<1>3. \A r \in Regs : KeepsRange(g, w, r, D \ P)  BY <1>1, <1>2 DEF KeepsRange
<1>4. \A c \in Cgts : c \notin D \/ c \in P => w.loc[c] = g.loc[c]  BY <1>1
<1>5. Evolves(g, w, P, fs, D)
  <2> HIDE DEF P
  <2> QED  BY <1>1, <1>3, <1>4 DEF Evolves, Survives
<1>6. \A c \in P \ (X \ D) : c \notin X /\ c \notin D  OBVIOUS
<1>7. P \in SUBSET O /\ X \ D \in SUBSET P  BY <1>0
<1>8. Good(w, P, fs, h, S, X \ D)
  <2> HIDE DEF P
  <2> QED  BY <1>5, <1>6, <1>7, Evolve
<1> QED  BY <1>8 DEF w

(* A temporary of the current level is written. *)
LEMMA WriteGood ==
  ASSUME NEW g, NEW O, NEW fs, NEW h, NEW S, NEW X, Good(g, O, fs, h, S, X), NEW c \in O
  PROVE  Good(Write(g, c, Val(c)), O, fs, h, S, X \ {c})
<1>0. g \in GenType /\ X \in SUBSET O  BY DEF Good
<1> DEFINE w == Write(g, c, Val(c))
<1>1. /\ c \in Cgts /\ g.loc[c] \in Places
      /\ g.loc[c] \in Regs => TopS(g.lrs[g.loc[c]]) = c
  BY HasContent
<1>2. Val(c) \in Values  BY <1>1, ValueFacts
<1>3. /\ w \in GenType
      /\ w.lrs = g.lrs /\ w.loc = g.loc /\ w.stk = g.stk
      /\ g.loc[c] \in Regs => w.reg = [g.reg EXCEPT ![g.loc[c]] = Val(c)] /\ w.slots = g.slots
      /\ g.loc[c] \notin Regs =>
           w.reg = g.reg /\ w.slots = IF Val(c) = Val(c) THEN g.slots \cup {c} ELSE g.slots \ {c}
  BY <1>0, <1>1, <1>2, WriteFields
<1> HIDE DEF w
<1>4. g.reg \in [Regs -> Values]  BY <1>0, GenFields
<1>5. \A r \in Regs : KeepsRange(g, w, r, {c} \ O)  BY <1>3 DEF KeepsRange
<1>6. \A r \in Regs : TopS(g.lrs[r]) \notin {c} => w.reg[r] = g.reg[r]
  BY <1>1, <1>3, <1>4
<1>7. \A d \in g.slots : d \notin {c} => d \in w.slots  BY <1>3
<1>8. Evolves(g, w, O, fs, {c})  BY <1>3, <1>5, <1>6, <1>7 DEF Evolves, Survives
<1>9. HasVal(w, w.loc, c)  BY <1>3, <1>4 DEF HasVal
<1>10. \A d \in O \ (X \ {c}) : (d \notin X /\ d \notin {c}) \/ HasVal(w, w.loc, d)
  BY <1>9
<1>11. /\ {c} \in SUBSET Cgts /\ X \ {c} \in SUBSET O
       /\ \A l \in 0 .. Len(fs) - 1 : {c} \cap Own(O, fs, l) = {}
  <2>1. {c} \in SUBSET O  OBVIOUS
  <2> QED  BY <1>0, <2>1, Disjoint
<1>12. Good(w, O, fs, h, S, X \ {c})  BY <1>8, <1>10, <1>11, Evolve
<1> QED  BY <1>12 DEF w

(* The old value of a temporary is out of date. *)
LEMMA ForgetGood ==
  ASSUME NEW g, NEW O, NEW fs, NEW h, NEW S, NEW X, Good(g, O, fs, h, S, X), NEW c \in O
  PROVE  Good(Forget(g, {c}), O, fs, h, S, X \cup {c})
<1>0. g \in GenType /\ X \in SUBSET O  BY DEF Good
<1> DEFINE w == Forget(g, {c})
<1>1. /\ {c} \in SUBSET Cgts /\ X \cup {c} \in SUBSET O
      /\ \A l \in 0 .. Len(fs) - 1 : {c} \cap Own(O, fs, l) = {}
  <2>1. {c} \in SUBSET O  OBVIOUS
  <2> QED  BY <1>0, <2>1, Disjoint
<1>2. /\ w \in GenType
      /\ w.lrs = g.lrs /\ w.loc = g.loc /\ w.slots = g.slots
      /\ Len(w.stk) = Len(g.stk)
      /\ \A i \in 1 .. Len(g.stk) : w.stk[i] = g.stk[i] \/ \E d \in {c} : g.stk[i] = Val(d)
      /\ \A r \in Regs : w.reg[r] = g.reg[r] \/ \E d \in {c} : g.reg[r] = Val(d)
  BY <1>0, <1>1, ForgetFields
<1> HIDE DEF w
<1>3. \A r \in Regs : KeepsRange(g, w, r, {c} \ O)  BY <1>2 DEF KeepsRange
<1>4. Evolves(g, w, O, fs, {c})  BY <1>2, <1>3 DEF Evolves, Survives
<1>5. \A d \in O \ (X \cup {c}) : d \notin X /\ d \notin {c}  OBVIOUS
<1>6. Good(w, O, fs, h, S, X \cup {c})  BY <1>1, <1>4, <1>5, Evolve
<1> QED  BY <1>6 DEF w

(* A temporary gets a new value. *)
LEMMA UpdateGood ==
  ASSUME NEW g, NEW O, NEW fs, NEW h, NEW S, NEW X, Good(g, O, fs, h, S, X), NEW c \in O
  PROVE  Good(Update(g, c, Val(c)), O, fs, h, S, X \ {c})
<1>1. Good(Forget(g, {c}), O, fs, h, S, X \cup {c})  BY ForgetGood
<1>2. Good(Write(Forget(g, {c}), c, Val(c)), O, fs, h, S, (X \cup {c}) \ {c})
  BY <1>1, WriteGood
<1>3. (X \cup {c}) \ {c} = X \ {c}  OBVIOUS
<1> QED  BY <1>2, <1>3 DEF Update

(* A new temporary gets a free register or a slot; it has no value yet. *)
LEMMA PlaceGood ==
  ASSUME NEW g, NEW O, NEW fs, NEW h, NEW S, NEW X, Good(g, O, fs, h, S, X),
         NEW c \in Cgts, g.loc[c] = "none", NEW w, NEW p, Placed(g, w, c, p)
  PROVE  Good(w, O \cup {c}, fs, h, S, X \cup {c}) /\ w.loc[c] = p /\ c \notin O
<1>0. /\ g \in GenType /\ Shape(O, fs, h, S) /\ Ranged(g, O, fs, S) /\ X \in SUBSET O
      /\ Intact(g, g.loc, O, fs, h, Len(fs), X) /\ Snapshots(g.loc, fs, h)
      /\ Len(fs) \in Nat /\ O \in SUBSET Cgts /\ w \in GenType
  BY DEF Good, Shape, Placed
<1>1. /\ g.lrs \in [Regs -> Seq(Ranges)] /\ g.loc \in [Cgts -> Places]
      /\ w.lrs \in [Regs -> Seq(Ranges)]
  BY <1>0, GenFields
<1>2. w.loc[c] = p /\ \A d \in Cgts \ {c} : w.loc[d] = g.loc[d]  BY <1>1 DEF Placed
<1>3. \A l \in 0 .. Len(fs) : c \notin Own(O, fs, l)  BY <1>0 DEF Ranged
<1> DEFINE Q == O \cup {c}
<1>4. /\ \A l \in 0 .. Len(fs) - 1 : Own(Q, fs, l) = Own(O, fs, l) /\ Wait(Q, fs, l) = Wait(O, fs, l)
      /\ Own(Q, fs, Len(fs)) = Q /\ Wait(Q, fs, Len(fs)) = Q
      /\ Own(O, fs, Len(fs)) = O /\ Wait(O, fs, Len(fs)) = O
  BY <1>0 DEF Own, Wait
<1>5. c \notin O /\ Q \in SUBSET Cgts /\ X \cup {c} \in SUBSET Q /\ c \in Q
  BY <1>0, <1>3, <1>4
<1>6. \A l \in 0 .. Len(fs) : Own(O, fs, l) \in SUBSET (Cgts \ {c})
  BY <1>0, <1>3, OwnCgts
<1>7. \A l \in 0 .. Len(fs) : \A d \in Own(Q, fs, l) : d \in Own(O, fs, l) \/ (l = Len(fs) /\ d = c)
  <2> SUFFICES ASSUME NEW l \in 0 .. Len(fs), NEW d \in Own(Q, fs, l)
               PROVE  d \in Own(O, fs, l) \/ (l = Len(fs) /\ d = c)
    OBVIOUS
  <2>1. CASE l = Len(fs)  BY <1>4, <2>1
  <2>2. CASE l # Len(fs)
    <3>1. l \in 0 .. Len(fs) - 1  BY <1>0, <2>2
    <3> QED  BY <1>4, <3>1
  <2> QED  BY <2>1, <2>2
<1> HIDE DEF Q
<1>8. Shape(Q, fs, h, S)
  <2>1. ASSUME NEW l \in 0 .. Len(fs), NEW k \in 0 .. Len(fs), l < k
        PROVE  Own(Q, fs, l) \cap Own(Q, fs, k) = {}
    <3>1. Own(O, fs, l) \cap Own(O, fs, k) = {} /\ l # Len(fs)  BY <1>0, <2>1 DEF Shape
    <3> QED  BY <1>6, <1>7, <3>1
  <2> QED  BY <1>0, <1>5, <2>1 DEF Shape
<1>9. \A r \in Regs : g.lrs[r] \in Seq(Ranges) /\ Len(g.lrs[r]) \in Nat
  <2>1. \A r \in Regs : g.lrs[r] \in Seq(Ranges)  BY <1>1
  <2> QED  BY <2>1, StackFacts
<1>10. c \in Ranges  BY DEF Ranges
<1>11. \A r \in Regs \ {p} : w.lrs[r] = g.lrs[r]
  <2>1. CASE p = "stack"  BY <2>1 DEF Placed
  <2>2. CASE p \in Regs  BY <1>1, <2>2 DEF Placed
  <2> QED  BY <2>1, <2>2 DEF Placed
<1>12. ASSUME p \in Regs
       PROVE  /\ TopS(g.lrs[p]) = FREE
              /\ Len(w.lrs[p]) = (IF Len(g.lrs[p]) = 0 THEN 1 ELSE Len(g.lrs[p]))
              /\ \A i \in 1 .. Len(g.lrs[p]) - 1 : w.lrs[p][i] = g.lrs[p][i]
              /\ w.lrs[p][Len(w.lrs[p])] = c
  <2>1. w.lrs[p] = PutS(g.lrs[p], c) /\ ~Busy(g, p)  BY <1>1, <1>12 DEF Placed
  <2>2. TopS(g.lrs[p]) = FREE  BY <2>1, PeekTop
  <2>3. /\ Len(PutS(g.lrs[p], c)) = (IF Len(g.lrs[p]) = 0 THEN 1 ELSE Len(g.lrs[p]))
        /\ \A i \in 1 .. Len(g.lrs[p]) - 1 : PutS(g.lrs[p], c)[i] = g.lrs[p][i]
        /\ PutS(g.lrs[p], c)[Len(PutS(g.lrs[p], c))] = c
    <3>1. PICK s \in Seq(Ranges) : s = g.lrs[p]  BY <1>9, <1>12
    <3>2. /\ Len(PutS(s, c)) = (IF Len(s) = 0 THEN 1 ELSE Len(s))
          /\ \A i \in 1 .. Len(s) - 1 : PutS(s, c)[i] = s[i]
          /\ PutS(s, c)[Len(PutS(s, c))] = c
      BY <1>10, PutIs
    <3> QED  BY <3>1, <3>2
  <2> QED  BY <2>1, <2>2, <2>3
<1>13. \A r \in Regs : S[Len(fs)][r] \in Nat /\ Len(g.lrs[r]) - S[Len(fs)][r] \in {0, 1}
  <2>1. Len(fs) \in 0 .. Len(fs) /\ Len(fs) \in Len(fs) .. Len(fs)  BY <1>0
  <2> QED  BY <1>0, <2>1, Growing DEF Ranged
<1>14. ASSUME NEW r \in Regs PROVE Len(w.lrs[r]) - S[Len(fs)][r] \in {0, 1}
  <2>1. CASE r # p  BY <1>11, <1>13, <2>1
  <2>2. CASE r = p  BY <1>9, <1>12, <1>13, <2>2
  <2> QED  BY <2>1, <2>2
<1>15. ASSUME NEW l \in 0 .. Len(fs), NEW r \in Regs, NEW o \in Ranges,
              Item(g.loc, O, fs, l, r, o)
       PROVE  Owner(w, fs, S, l, r, o)
  <2>1. Owner(g, fs, S, l, r, o) /\ o # FREE
    <3>1. o # FREE
      <4>1. \A d \in Own(O, fs, l) : d # FREE  BY <1>6, Numbers
      <4> QED  BY <1>15, <4>1, Numbers DEF Item
    <3> QED  BY <1>0, <1>15, <3>1 DEF Ranged
  <2>2. CASE r # p  BY <1>11, <2>1, <2>2 DEF Owner, TopAt
  <2>3. CASE r = p
    <3> DEFINE n == Len(g.lrs[p])
               t == TopAt(g, fs, S, l, p)
    <3>1. t \in 1 .. n /\ g.lrs[p][t] = o  BY <2>1, <2>3 DEF Owner
    <3>2. t # n
      <4>1. g.lrs[p] # <<>> => TopS(g.lrs[p]) = g.lrs[p][n]  BY <1>9, <2>3, StackFacts
      <4>2. n >= 1  BY <1>9, <2>3, <3>1
      <4>3. g.lrs[p] # <<>>  BY <4>2
      <4> HIDE DEF n, t
      <4> QED  BY <1>12, <2>1, <2>3, <3>1, <4>1, <4>3
    <3>3. n \in Nat  BY <1>9, <2>3
    <3>4. t \in 1 .. n - 1 /\ n # 0
      <4> HIDE DEF n, t
      <4> QED  BY <3>1, <3>2, <3>3
    <3>5. Len(w.lrs[p]) = n /\ w.lrs[p][t] = o
      <4>1. Len(w.lrs[p]) = n  BY <1>12, <2>3, <3>4
      <4>2. \A i \in 1 .. n - 1 : w.lrs[p][i] = g.lrs[p][i]  BY <1>12, <2>3
      <4> HIDE DEF n, t
      <4> QED  BY <3>1, <3>4, <4>1, <4>2
    <3>6. TopAt(w, fs, S, l, p) = t  BY <3>5 DEF TopAt
    <3> QED  BY <2>3, <3>1, <3>5, <3>6 DEF Owner
  <2> QED  BY <2>2, <2>3
<1>16. ASSUME p \in Regs PROVE Owner(w, fs, S, Len(fs), p, c)
  <2>1. TopAt(w, fs, S, Len(fs), p) = Len(w.lrs[p])
    <3>1. S[Len(fs)][p] \in Nat /\ Len(w.lrs[p]) \in Nat  BY <1>9, <1>12, <1>13, <1>16
    <3> QED  BY <3>1 DEF TopAt
  <2>2. Len(w.lrs[p]) \in 1 .. Len(w.lrs[p])  BY <1>9, <1>12, <1>16
  <2> QED  BY <1>12, <1>16, <2>1, <2>2 DEF Owner
<1>17. Ranged(w, Q, fs, S)
  <2>1. ASSUME NEW l \in 0 .. Len(fs), NEW d \in Own(Q, fs, l) PROVE w.loc[d] # "none"
    <3>1. CASE d \in Own(O, fs, l)  BY <1>0, <1>2, <1>6, <3>1 DEF Ranged
    <3>2. CASE d = c  BY <1>2, <3>2, Numbers DEF Placed
    <3> QED  BY <1>7, <3>1, <3>2
  <2>2. ASSUME NEW l \in 0 .. Len(fs), NEW r \in Regs, NEW o \in Ranges,
               Item(w.loc, Q, fs, l, r, o)
        PROVE  Owner(w, fs, S, l, r, o)
    <3>1. CASE o \in Own(O, fs, l) /\ w.loc[o] = r
      <4>1. g.loc[o] = r  BY <1>2, <1>6, <3>1
      <4>2. Item(g.loc, O, fs, l, r, o)  BY <3>1, <4>1 DEF Item
      <4> QED  BY <1>15, <4>2
    <3>2. CASE o = RESERVED /\ l >= 1 /\ r \in AbiUsed(fs[l])
      <4>1. Item(g.loc, O, fs, l, r, o)  BY <3>2 DEF Item
      <4> QED  BY <1>15, <4>1
    <3>3. CASE l = Len(fs) /\ o = c /\ w.loc[o] = r  BY <1>2, <1>16, <3>3
    <3> QED  BY <1>7, <2>2, <3>1, <3>2, <3>3 DEF Item
  <2> QED  BY <1>14, <2>1, <2>2 DEF Ranged
<1>18. \A l \in 0 .. Len(fs) : \A d \in Wait(Q, fs, l) \ (X \cup {c}) :
         d \in Wait(O, fs, l) \ X /\ w.loc[d] = g.loc[d]
  <2> SUFFICES ASSUME NEW l \in 0 .. Len(fs), NEW d \in Wait(Q, fs, l) \ (X \cup {c})
               PROVE  d \in Wait(O, fs, l) \ X /\ w.loc[d] = g.loc[d]
    OBVIOUS
  <2>1. d \in Wait(O, fs, l) \ X
    <3>1. CASE l = Len(fs)  BY <1>4, <3>1 DEF Q
    <3>2. CASE l # Len(fs)
      <4>1. l \in 0 .. Len(fs) - 1  BY <1>0, <3>2
      <4> QED  BY <1>4, <4>1
    <3> QED  BY <3>1, <3>2
  <2>2. d \in Own(O, fs, l)  BY <1>0, <2>1, OwnCgts
  <2> QED  BY <1>2, <1>6, <2>1, <2>2
<1>19. Intact(w, w.loc, Q, fs, h, Len(fs), X \cup {c})
  <2>1. w.reg = g.reg /\ w.slots = g.slots /\ w.stk = g.stk  BY DEF Placed
  <2>2. \A l \in 0 .. Len(fs) : \A r, v :
          Valued(w.loc, Q, fs, X \cup {c}, l, r, v) => Valued(g.loc, O, fs, X, l, r, v)
    BY <1>18 DEF Valued
  <2>3. \A l \in 0 .. Len(fs) : \A r, v :
          ValueAt(g, fs, h, l, Len(fs), r, v) => ValueAt(w, fs, h, l, Len(fs), r, v)
    BY <2>1 DEF ValueAt
  <2> QED  BY <1>0, <1>18, <2>1, <2>2, <2>3 DEF Intact
<1>20. Snapshots(w.loc, fs, h)
  <2>1. \A l \in 0 .. Len(fs) - 1 : \A d \in Own(O, fs, l) : w.loc[d] = g.loc[d]
    <3>1. \A l \in 0 .. Len(fs) - 1 : l \in 0 .. Len(fs)  BY <1>0
    <3> QED  BY <1>2, <1>6, <3>1
  <2> QED  BY <1>0, <2>1, SameSnapshots
<1>21. Good(w, Q, fs, h, S, X \cup {c})  BY <1>0, <1>5, <1>8, <1>17, <1>19, <1>20 DEF Good
<1> QED  BY <1>2, <1>5, <1>21 DEF Q

(* nnc_store_cgt *)
LEMMA StoreGood ==
  ASSUME NEW g, NEW O, NEW fs, NEW h, NEW S, NEW X, Good(g, O, fs, h, S, X),
         NEW c \in Cgts, g.loc[c] = "none"
  PROVE  /\ Good(StoreCgt(g, c), O \cup {c}, fs, h, S, X \cup {c}) /\ c \notin O
         /\ OnStack(StoreCgt(g, c), c) => Busy(StoreCgt(g, c), "r15")
         /\ \A d \in O : StoreCgt(g, c).loc[d] = g.loc[d]
<1> DEFINE w == StoreCgt(g, c)
<1>0. g \in GenType /\ O \in SUBSET Cgts  BY DEF Good, Shape
<1>1. (w.loc[c] = "stack" => Busy(g, "r15")) /\ Placed(g, w, c, w.loc[c])
  BY <1>0, StoreFields
<1> HIDE DEF w
<1>2. Good(w, O \cup {c}, fs, h, S, X \cup {c}) /\ c \notin O  BY <1>1, PlaceGood
<1>3. ASSUME w.loc[c] = "stack" PROVE Busy(w, "r15")
  <2>1. w.lrs = g.lrs  BY <1>1, <1>3 DEF Placed
  <2> QED  BY <1>1, <1>3, <2>1, PeekTop
<1>4. \A d \in O : w.loc[d] = g.loc[d]
  <2>1. g.loc \in [Cgts -> Places]  BY <1>0, GenFields
  <2> QED  BY <1>0, <1>1, <1>2, <2>1 DEF Placed
<1> QED  BY <1>2, <1>3, <1>4 DEF OnStack, w

(* The registers that a handler borrows: a busy one is saved on the stack,  *)
(* another one must not hide live ranges of an open call.                   *)
Borrowable(g, fs, r) == Busy(g, r) \/ r \notin PushedBy(fs)

(* A register is borrowed, and t is the state before it is given back. *)
Borrowed(g, t, r) ==
  /\ t \in GenType
  /\ t.lrs[r] = GenReserveReg(g, r).lrs[r]
  /\ Len(t.stk) = Len(GenReserveReg(g, r).stk)

(* A register is given back as it was. *)
LEMMA BackFields ==
  ASSUME NEW g \in GenType, NEW r \in Regs, NEW t, Borrowed(g, t, r)
  PROVE  LET w == GenPopReg(t, r, Busy(g, r))
         IN  /\ w \in GenType /\ w.loc = t.loc /\ w.slots = t.slots
             /\ w.lrs = [t.lrs EXCEPT ![r] = IF Busy(g, r) THEN g.lrs[r] ELSE PopS(g.lrs[r])]
             /\ Len(w.stk) = Len(g.stk) /\ Len(g.stk) \in Nat
             /\ \A i \in 1 .. Len(g.stk) : w.stk[i] = t.stk[i]
             /\ w.reg = IF Busy(g, r) THEN [t.reg EXCEPT ![r] = t.stk[Len(g.stk) + 1]] ELSE t.reg
             /\ Len(t.stk) = IF Busy(g, r) THEN Len(g.stk) + 1 ELSE Len(g.stk)
<1>0. g.lrs[r] \in Seq(Ranges) /\ g.reg[r] \in Values /\ g.stk \in Seq(Values)  BY GenFields
<1>1. t \in GenType /\ t.stk \in Seq(Values)  BY GenFields DEF Borrowed
<1>2. RESERVED \in Ranges /\ Len(g.stk) \in Nat  BY <1>0 DEF Ranges
<1> DEFINE e == GenReserveReg(g, r)
           w == GenPopReg(t, r, Busy(g, r))
<1>3. /\ e.lrs[r] = IF Busy(g, r) THEN PushS(g.lrs[r], RESERVED) ELSE PutS(g.lrs[r], RESERVED)
      /\ e.stk = IF Busy(g, r) THEN PushS(g.stk, g.reg[r]) ELSE g.stk
  <2>1. g.lrs \in [Regs -> Seq(Ranges)]  BY GenFields
  <2>2. /\ e.lrs = [g.lrs EXCEPT ![r] = IF Busy(g, r) THEN PushS(g.lrs[r], RESERVED)
                                             ELSE PutS(g.lrs[r], RESERVED)]
        /\ e.stk = IF Busy(g, r) THEN PushS(g.stk, g.reg[r]) ELSE g.stk
    BY ReserveFields
  <2> HIDE DEF e
  <2> QED  BY <2>1, <2>2
<1>4. t.lrs[r] = e.lrs[r] /\ Len(t.stk) = Len(e.stk)  BY DEF Borrowed
<1> HIDE DEF e
<1>5. PopS(t.lrs[r]) = IF Busy(g, r) THEN g.lrs[r] ELSE PopS(g.lrs[r])
  <2>1. PopS(PushS(g.lrs[r], RESERVED)) = g.lrs[r]  BY <1>0, <1>2, PushIs
  <2>2. PopS(PutS(g.lrs[r], RESERVED)) = PopS(g.lrs[r])  BY <1>0, <1>2, PutIs
  <2> QED  BY <1>3, <1>4, <2>1, <2>2
<1>6. Len(t.stk) = IF Busy(g, r) THEN Len(g.stk) + 1 ELSE Len(g.stk)
  <2>1. Len(PushS(g.stk, g.reg[r])) = Len(g.stk) + 1  BY <1>0, PushFacts
  <2> QED  BY <1>3, <1>4, <2>1
<1>7. Busy(g, r) => t.stk # <<>>
  <2>1. Busy(g, r) => Len(t.stk) # 0  BY <1>2, <1>6
  <2> QED  BY <2>1
<1>8. Busy(g, r) \in BOOLEAN  BY DEF Busy
<1>9. /\ w \in GenType
      /\ w.loc = t.loc /\ w.slots = t.slots
      /\ w.lrs = [t.lrs EXCEPT ![r] = PopS(t.lrs[r])]
      /\ w.stk = IF Busy(g, r) THEN PopS(t.stk) ELSE t.stk
      /\ w.reg = IF Busy(g, r) THEN [t.reg EXCEPT ![r] = TopS(t.stk)] ELSE t.reg
  BY <1>1, <1>7, <1>8, GenPopFields
<1> HIDE DEF w
<1>10. CASE Busy(g, r)
  <2>1. /\ Len(PopS(t.stk)) = Len(g.stk) /\ TopS(t.stk) = t.stk[Len(g.stk) + 1]
        /\ \A i \in 1 .. Len(g.stk) : PopS(t.stk)[i] = t.stk[i]
    <3>1. Len(t.stk) = Len(g.stk) + 1 /\ t.stk # <<>>  BY <1>6, <1>7, <1>10
    <3>2. /\ Len(PopS(t.stk)) = (IF Len(t.stk) = 0 THEN 0 ELSE Len(t.stk) - 1)
          /\ \A i \in 1 .. Len(t.stk) - 1 : PopS(t.stk)[i] = t.stk[i]
          /\ TopS(t.stk) = t.stk[Len(t.stk)]
      BY <1>1, <3>1, StackFacts
    <3> QED  BY <1>2, <3>1, <3>2
  <2> QED  BY <1>2, <1>5, <1>6, <1>9, <1>10, <2>1 DEF w
<1>11. CASE ~Busy(g, r)  BY <1>2, <1>5, <1>6, <1>9, <1>11 DEF w
<1> QED  BY <1>10, <1>11

(* The stack while a register is borrowed. *)
LEMMA BorrowStack ==
  ASSUME NEW g \in GenType, NEW r \in Regs
  PROVE  LET e == GenReserveReg(g, r)
         IN  /\ e \in GenType /\ e.loc = g.loc /\ e.reg = g.reg /\ e.slots = g.slots
             /\ Len(g.stk) \in Nat
             /\ \A i \in 1 .. Len(g.stk) : e.stk[i] = g.stk[i]
             /\ Len(e.stk) = IF Busy(g, r) THEN Len(g.stk) + 1 ELSE Len(g.stk)
             /\ Busy(g, r) => e.stk[Len(g.stk) + 1] = g.reg[r]
             /\ \A s \in Regs \ {r} : e.lrs[s] = g.lrs[s]
             /\ TopS(e.lrs[r]) = RESERVED
<1>0. g.lrs \in [Regs -> Seq(Ranges)] /\ g.reg[r] \in Values /\ g.stk \in Seq(Values)
  BY GenFields
<1> DEFINE e == GenReserveReg(g, r)
<1>1. /\ e \in GenType
      /\ e.loc = g.loc /\ e.reg = g.reg /\ e.slots = g.slots
      /\ e.lrs = [g.lrs EXCEPT ![r] = IF Busy(g, r) THEN PushS(g.lrs[r], RESERVED)
                                      ELSE PutS(g.lrs[r], RESERVED)]
      /\ e.stk = IF Busy(g, r) THEN PushS(g.stk, g.reg[r]) ELSE g.stk
  BY ReserveFields
<1> HIDE DEF e
<1>2. RESERVED \in Ranges /\ g.lrs[r] \in Seq(Ranges)  BY <1>0 DEF Ranges
<1>3. TopS(e.lrs[r]) = RESERVED
  <2>1. TopS(PushS(g.lrs[r], RESERVED)) = RESERVED  BY <1>2, PushIs
  <2>2. TopS(PutS(g.lrs[r], RESERVED)) = RESERVED  BY <1>2, PutIs
  <2> QED  BY <1>0, <1>1, <2>1, <2>2
<1>4. /\ Len(PushS(g.stk, g.reg[r])) = Len(g.stk) + 1 /\ Len(g.stk) \in Nat
      /\ \A i \in 1 .. Len(g.stk) : PushS(g.stk, g.reg[r])[i] = g.stk[i]
      /\ PushS(g.stk, g.reg[r])[Len(g.stk) + 1] = g.reg[r]
  BY <1>0, PushIs
<1>5. \A s \in Regs \ {r} : e.lrs[s] = g.lrs[s]  BY <1>0, <1>1
<1> QED  BY <1>1, <1>3, <1>4, <1>5 DEF e

(* nnc_gen_mov_mem_to_mem leaves R15 as it was. *)
LEMMA MemFields ==
  ASSUME NEW g \in GenType, NEW c \in Cgts \cup {FREE}, c # FREE => g.loc[c] \notin Regs,
         NEW v \in Values
  PROVE  LET w == MovMemToMem(g, c, v)
         IN  /\ w \in GenType /\ w.loc = g.loc
             /\ Len(w.stk) = Len(g.stk) /\ \A i \in 1 .. Len(g.stk) : w.stk[i] = g.stk[i]
             /\ w.lrs = [g.lrs EXCEPT !["r15"] = IF Busy(g, "r15") THEN g.lrs["r15"]
                                                 ELSE PopS(g.lrs["r15"])]
             /\ \A r \in Regs : (r = "r15" => Busy(g, r)) => w.reg[r] = g.reg[r]
             /\ w.slots = IF c = FREE THEN g.slots
                          ELSE IF v = Val(c) THEN g.slots \cup {c} ELSE g.slots \ {c}
<1>0. "r15" \in Regs /\ g.lrs \in [Regs -> Seq(Ranges)] /\ g.reg \in [Regs -> Values]
  BY Numbers, GenFields
<1> DEFINE e == GenReserveReg(g, "r15")
           m == MovToReg(e, "r15", v)
           t == IF c = FREE THEN m ELSE Write(m, c, v)
           w == GenPopReg(t, "r15", Busy(g, "r15"))
<1>1. MovMemToMem(g, c, v) = w  BY DEF MovMemToMem
<1>2. /\ e \in GenType /\ e.loc = g.loc /\ e.reg = g.reg /\ e.slots = g.slots
      /\ Len(g.stk) \in Nat
      /\ \A i \in 1 .. Len(g.stk) : e.stk[i] = g.stk[i]
      /\ Busy(g, "r15") => e.stk[Len(g.stk) + 1] = g.reg["r15"]
      /\ \A s \in Regs \ {"r15"} : e.lrs[s] = g.lrs[s]
  BY <1>0, BorrowStack
<1>3. /\ m \in GenType /\ m.lrs = e.lrs /\ m.loc = e.loc /\ m.stk = e.stk /\ m.slots = e.slots
      /\ m.reg = [e.reg EXCEPT !["r15"] = v]
  <2> HIDE DEF e
  <2> QED  BY <1>0, <1>2, MovFields
<1>4. /\ t \in GenType /\ t.lrs = e.lrs /\ t.loc = e.loc /\ t.stk = e.stk
      /\ t.reg = [e.reg EXCEPT !["r15"] = v]
      /\ t.slots = IF c = FREE THEN g.slots
                   ELSE IF v = Val(c) THEN g.slots \cup {c} ELSE g.slots \ {c}
  <2>1. CASE c = FREE  BY <1>2, <1>3, <2>1
  <2>2. CASE c # FREE
    <3>1. t = Write(m, c, v) /\ c \in Cgts /\ m.loc[c] \notin Regs  BY <1>2, <1>3, <2>2
    <3> HIDE DEF m, e
    <3>2. /\ Write(m, c, v) \in GenType /\ Write(m, c, v).lrs = m.lrs
          /\ Write(m, c, v).loc = m.loc /\ Write(m, c, v).stk = m.stk
          /\ Write(m, c, v).reg = m.reg
          /\ Write(m, c, v).slots = IF v = Val(c) THEN m.slots \cup {c} ELSE m.slots \ {c}
      <4>1. m \in GenType  BY <1>3
      <4> QED  BY <3>1, <4>1, WriteSlot
    <3> HIDE DEF t
    <3> QED  BY <1>2, <1>3, <2>2, <3>1, <3>2
  <2> QED  BY <2>1, <2>2
<1>5. Borrowed(g, t, "r15")
  <2> HIDE DEF t
  <2> QED  BY <1>4 DEF Borrowed
<1> HIDE DEF t, m
<1>6. /\ w \in GenType /\ w.loc = t.loc /\ w.slots = t.slots
      /\ w.lrs = [t.lrs EXCEPT !["r15"] = IF Busy(g, "r15") THEN g.lrs["r15"]
                                          ELSE PopS(g.lrs["r15"])]
      /\ Len(w.stk) = Len(g.stk)
      /\ \A i \in 1 .. Len(g.stk) : w.stk[i] = t.stk[i]
      /\ w.reg = IF Busy(g, "r15") THEN [t.reg EXCEPT !["r15"] = t.stk[Len(g.stk) + 1]] ELSE t.reg
  BY <1>0, <1>5, BackFields
<1> HIDE DEF w, e
<1>7. \A r \in Regs : (r = "r15" => Busy(g, r)) => w.reg[r] = g.reg[r]
  BY <1>0, <1>2, <1>4, <1>6
<1>8. w.lrs = [g.lrs EXCEPT !["r15"] = IF Busy(g, "r15") THEN g.lrs["r15"]
                                       ELSE PopS(g.lrs["r15"])]
  <2>1. w.lrs \in [Regs -> Seq(Ranges)] /\ t.lrs \in [Regs -> Seq(Ranges)]  BY <1>4, <1>6, GenFields
  <2> DEFINE q == IF Busy(g, "r15") THEN g.lrs["r15"] ELSE PopS(g.lrs["r15"])
  <2>2. w.lrs = [t.lrs EXCEPT !["r15"] = q]  BY <1>6
  <2>3. \A s \in Regs \ {"r15"} : t.lrs[s] = g.lrs[s]  BY <1>2, <1>4
  <2> HIDE DEF q
  <2>4. w.lrs = [g.lrs EXCEPT !["r15"] = q]  BY <1>0, <2>1, <2>2, <2>3
  <2> QED  BY <2>4 DEF q
<1>9. \A i \in 1 .. Len(g.stk) : w.stk[i] = g.stk[i]  BY <1>2, <1>4, <1>6
<1> QED  BY <1>1, <1>2, <1>4, <1>6, <1>7, <1>8, <1>9

(* A register that is given back keeps its live ranges, or loses one that   *)
(* was free.                                                                *)
LEMMA BackRange ==
  ASSUME NEW g \in GenType, NEW w, NEW r \in Regs, NEW D, NEW fs, Borrowable(g, fs, r),
         w.lrs[r] = IF Busy(g, r) THEN g.lrs[r] ELSE PopS(g.lrs[r])
  PROVE  KeepsRange(g, w, r, D) \/ DropsRange(g, w, r, D, fs)
<1>1. g.lrs[r] \in Seq(Ranges)  BY GenFields
<1>2. CASE Busy(g, r)  BY <1>2 DEF KeepsRange
<1>3. CASE ~Busy(g, r)
  <2>1. r \notin PushedBy(fs) /\ TopS(g.lrs[r]) = FREE  BY <1>3, PeekTop DEF Borrowable
  <2>2. Len(PopS(g.lrs[r])) =< Len(g.lrs[r])  BY <1>1, StackFacts
  <2> QED  BY <1>3, <2>1, <2>2 DEF DropsRange
<1> QED  BY <1>2, <1>3

(* A value goes through R15 to the slot of a temporary. *)
LEMMA MemGood ==
  ASSUME NEW g, NEW O, NEW fs, NEW h, NEW S, NEW X, Good(g, O, fs, h, S, X),
         Borrowable(g, fs, "r15"), NEW c \in O, g.loc[c] = "stack"
  PROVE  Good(MovMemToMem(g, c, Val(c)), O, fs, h, S, X \ {c})
<1>0. g \in GenType /\ X \in SUBSET O /\ "r15" \in Regs  BY Numbers DEF Good
<1> DEFINE w == MovMemToMem(g, c, Val(c))
<1>1. c \in Cgts /\ c # FREE /\ g.loc[c] \notin Regs /\ Val(c) \in Values
  BY HasContent, Numbers, ValueFacts
<1>2. /\ w \in GenType /\ w.loc = g.loc
      /\ Len(w.stk) = Len(g.stk) /\ \A i \in 1 .. Len(g.stk) : w.stk[i] = g.stk[i]
      /\ w.lrs = [g.lrs EXCEPT !["r15"] = IF Busy(g, "r15") THEN g.lrs["r15"]
                                          ELSE PopS(g.lrs["r15"])]
      /\ \A r \in Regs : (r = "r15" => Busy(g, r)) => w.reg[r] = g.reg[r]
      /\ w.slots = IF c = FREE THEN g.slots
                   ELSE IF Val(c) = Val(c) THEN g.slots \cup {c} ELSE g.slots \ {c}
  BY <1>0, <1>1, MemFields
<1> HIDE DEF w
<1>3. g.lrs \in [Regs -> Seq(Ranges)]  BY <1>0, GenFields
<1>4. \A r \in Regs : KeepsRange(g, w, r, {} \ O) \/ DropsRange(g, w, r, {} \ O, fs)
  <2> SUFFICES ASSUME NEW r \in Regs
               PROVE  KeepsRange(g, w, r, {} \ O) \/ DropsRange(g, w, r, {} \ O, fs)
    OBVIOUS
  <2>1. CASE r = "r15"
    <3>1. w.lrs[r] = IF Busy(g, r) THEN g.lrs[r] ELSE PopS(g.lrs[r])  BY <1>2, <1>3, <2>1
    <3> QED  BY <1>0, <2>1, <3>1, BackRange
  <2>2. CASE r # "r15"
    <3>1. w.lrs[r] = g.lrs[r]  BY <1>2, <1>3, <2>2
    <3> QED  BY <3>1 DEF KeepsRange
  <2> QED  BY <2>1, <2>2
<1>5. \A r \in Regs : Busy(g, r) => w.reg[r] = g.reg[r]  BY <1>2
<1>6. Evolves(g, w, O, fs, {})  BY <1>1, <1>2, <1>4, <1>5 DEF Evolves, Survives
<1>7. HasVal(w, w.loc, c)  BY <1>1, <1>2 DEF HasVal
<1>8. \A d \in O \ (X \ {c}) : (d \notin X /\ d \notin {}) \/ HasVal(w, w.loc, d)  BY <1>7
<1>9. /\ {} \in SUBSET Cgts /\ X \ {c} \in SUBSET O
      /\ \A l \in 0 .. Len(fs) - 1 : {} \cap Own(O, fs, l) = {}
  BY <1>0
<1>10. Good(w, O, fs, h, S, X \ {c})  BY <1>6, <1>8, <1>9, Evolve
<1> QED  BY <1>10 DEF w

(* A value goes through R15 to a variable. *)
LEMMA MemVarGood ==
  ASSUME NEW g, NEW O, NEW fs, NEW h, NEW S, NEW X, Good(g, O, fs, h, S, X),
         Borrowable(g, fs, "r15"), NEW v \in Values
  PROVE  Good(MovMemToMem(g, FREE, v), O, fs, h, S, X)
<1>0. g \in GenType /\ X \in SUBSET O /\ "r15" \in Regs  BY Numbers DEF Good
<1> DEFINE w == MovMemToMem(g, FREE, v)
<1>2. /\ w \in GenType /\ w.loc = g.loc
      /\ Len(w.stk) = Len(g.stk) /\ \A i \in 1 .. Len(g.stk) : w.stk[i] = g.stk[i]
      /\ w.lrs = [g.lrs EXCEPT !["r15"] = IF Busy(g, "r15") THEN g.lrs["r15"]
                                          ELSE PopS(g.lrs["r15"])]
      /\ \A r \in Regs : (r = "r15" => Busy(g, r)) => w.reg[r] = g.reg[r]
      /\ w.slots = IF FREE = FREE THEN g.slots
                   ELSE IF v = Val(FREE) THEN g.slots \cup {FREE} ELSE g.slots \ {FREE}
  BY <1>0, MemFields
<1> HIDE DEF w
<1>3. g.lrs \in [Regs -> Seq(Ranges)]  BY <1>0, GenFields
<1>4. \A r \in Regs : KeepsRange(g, w, r, {} \ O) \/ DropsRange(g, w, r, {} \ O, fs)
  <2> SUFFICES ASSUME NEW r \in Regs
               PROVE  KeepsRange(g, w, r, {} \ O) \/ DropsRange(g, w, r, {} \ O, fs)
    OBVIOUS
  <2>1. CASE r = "r15"
    <3>1. w.lrs[r] = IF Busy(g, r) THEN g.lrs[r] ELSE PopS(g.lrs[r])  BY <1>2, <1>3, <2>1
    <3> QED  BY <1>0, <2>1, <3>1, BackRange
  <2>2. CASE r # "r15"
    <3>1. w.lrs[r] = g.lrs[r]  BY <1>2, <1>3, <2>2
    <3> QED  BY <3>1 DEF KeepsRange
  <2> QED  BY <2>1, <2>2
<1>5. \A r \in Regs : Busy(g, r) => w.reg[r] = g.reg[r]  BY <1>2
<1>6. Evolves(g, w, O, fs, {})  BY <1>2, <1>4, <1>5 DEF Evolves, Survives
<1>9. /\ {} \in SUBSET Cgts /\ X \in SUBSET O
      /\ \A l \in 0 .. Len(fs) - 1 : {} \cap Own(O, fs, l) = {}
      /\ \A d \in O \ X : d \notin X /\ d \notin {}
  BY <1>0
<1>10. Good(w, O, fs, h, S, X)  BY <1>6, <1>9, Evolve
<1> QED  BY <1>10 DEF w

(* nnc_gen_mov_operand_to_operand *)
LEMMA OperandGood ==
  ASSUME NEW g, NEW O, NEW fs, NEW h, NEW S, NEW X, Good(g, O, fs, h, S, X),
         NEW c \in O, NEW o \in O \ X,
         OnStack(g, c) /\ OnStack(g, o) => Borrowable(g, fs, "r15")
  PROVE  Good(MovOperand(g, c, o), O, fs, h, S, X \ {c})
<1>1. Computed(c, Contents(g, {o}), {o}) = Val(c)
  <2>1. {o} \in SUBSET (O \ X)  OBVIOUS
  <2> QED  BY <2>1, ContentsAre
<1>2. CASE OnStack(g, c) /\ OnStack(g, o)
  <2>1. MovOperand(g, c, o) = MovMemToMem(g, c, Val(c))  BY <1>1, <1>2 DEF MovOperand
  <2> QED  BY <1>2, <2>1, MemGood DEF OnStack
<1>3. CASE ~(OnStack(g, c) /\ OnStack(g, o))
  <2>1. MovOperand(g, c, o) = Write(g, c, Val(c))  BY <1>1, <1>3 DEF MovOperand
  <2> QED  BY <2>1, WriteGood
<1> QED  BY <1>2, <1>3

-----------------------------------------------------------------------------
(* Operands.                                                                *)

(* A sequence without its last n elements. *)
LEMMA Cut ==
  ASSUME NEW T, NEW s \in Seq(T), Distinct(s), NEW n \in Nat, n =< Len(s)
  PROVE  LET b == SubSeq(s, 1, Len(s) - n)
         IN  /\ b \in Seq(T) /\ Distinct(b)
             /\ ToSet(b) = ToSet(s) \ {s[i] : i \in Len(s) - n + 1 .. Len(s)}
<1>0. Len(s) \in Nat /\ DOMAIN s = 1 .. Len(s) /\ \A i \in 1 .. Len(s) : s[i] \in T  OBVIOUS
<1> DEFINE m == Len(s) - n
           b == SubSeq(s, 1, m)
<1>1. m \in Nat /\ m =< Len(s)  BY <1>0
<1>2. b = [i \in 1 .. m |-> s[i]]
  <2> HIDE DEF m
  <2> QED  BY <1>0, <1>1
<1>3. b \in Seq(T) /\ DOMAIN b = 1 .. m /\ \A i \in 1 .. m : b[i] = s[i]
  <2> HIDE DEF m, b
  <2> QED  BY <1>0, <1>1, <1>2
<1>4. \A i, j \in 1 .. Len(s) : s[i] = s[j] => i = j  BY <1>0 DEF Distinct
<1>5. Distinct(b)
  <2> HIDE DEF b
  <2> QED  BY <1>0, <1>1, <1>3, <1>4 DEF Distinct
<1>6. ToSet(b) = {s[i] : i \in 1 .. m} /\ ToSet(s) = {s[i] : i \in 1 .. Len(s)}
  <2> HIDE DEF b, m
  <2> QED  BY <1>0, <1>3 DEF ToSet
<1>7. {s[i] : i \in 1 .. m} = {s[i] : i \in 1 .. Len(s)} \ {s[i] : i \in m + 1 .. Len(s)}
  <2> HIDE DEF m
  <2>1. \A i \in 1 .. m, j \in m + 1 .. Len(s) : s[i] # s[j]  BY <1>0, <1>1, <1>4
  <2>2. \A i \in 1 .. Len(s) : i \in 1 .. m \/ i \in m + 1 .. Len(s)  BY <1>0, <1>1
  <2>3. \A i \in 1 .. m : i \in 1 .. Len(s)  BY <1>0, <1>1
  <2> QED  BY <2>1, <2>2, <2>3
<1> QED  BY <1>3, <1>5, <1>6, <1>7

(* A new element at the end. *)
LEMMA Added ==
  ASSUME NEW T, NEW s \in Seq(T), Distinct(s), NEW c \in T, c \notin ToSet(s)
  PROVE  /\ Append(s, c) \in Seq(T) /\ Distinct(Append(s, c))
         /\ ToSet(Append(s, c)) = ToSet(s) \cup {c}
<1> DEFINE a == PushS(s, c)
<1>1. /\ a \in Seq(T) /\ Len(a) = Len(s) + 1 /\ Len(s) \in Nat
      /\ (\A i \in 1 .. Len(s) : a[i] = s[i]) /\ a[Len(s) + 1] = c
  BY PushFacts
<1>2. a = Append(s, c)  BY DEF PushS
<1> HIDE DEF a
<1>3. DOMAIN a = 1 .. Len(s) + 1 /\ DOMAIN s = 1 .. Len(s)  BY <1>1
<1>4. \A i \in 1 .. Len(s) : s[i] # c  BY <1>3 DEF ToSet
<1>5. \A i \in 1 .. Len(s) + 1 : i \in 1 .. Len(s) \/ i = Len(s) + 1  BY <1>1
<1>6. Distinct(a)  BY <1>1, <1>3, <1>4, <1>5 DEF Distinct
<1>7. ToSet(a) = ToSet(s) \cup {c}
  <2>1. \A i \in 1 .. Len(s) : i \in 1 .. Len(s) + 1  BY <1>1
  <2>2. Len(s) + 1 \in 1 .. Len(s) + 1  BY <1>1
  <2> QED  BY <1>1, <1>3, <1>5, <2>1, <2>2 DEF ToSet
<1> QED  BY <1>1, <1>2, <1>6, <1>7

(* The last operand. *)
LEMMA LastOp ==
  ASSUME operands \in Seq(Cgts), Distinct(operands), operands # <<>>
  PROVE  /\ Arg2 \in ToSet(operands) /\ Arg2 \in Cgts
         /\ Below(1) \in Seq(Cgts) /\ Distinct(Below(1))
         /\ ToSet(Below(1)) = ToSet(operands) \ {Arg2}
<1>0. Len(operands) \in Nat /\ Len(operands) >= 1 /\ DOMAIN operands = 1 .. Len(operands)
  OBVIOUS
<1>1. Arg2 = operands[Len(operands)]  BY DEF Arg2, Last
<1>2. Arg2 \in Cgts /\ Arg2 \in ToSet(operands)  BY <1>0, <1>1 DEF ToSet
<1>3. {operands[i] : i \in Len(operands) - 1 + 1 .. Len(operands)} = {Arg2}  BY <1>0, <1>1
<1>4. /\ Below(1) \in Seq(Cgts) /\ Distinct(Below(1))
      /\ ToSet(Below(1)) = ToSet(operands) \ {operands[i] : i \in Len(operands) - 1 + 1 .. Len(operands)}
  BY <1>0, Cut DEF Below
<1> QED  BY <1>2, <1>3, <1>4

(* The last two operands. *)
LEMMA LastOps ==
  ASSUME operands \in Seq(Cgts), Distinct(operands), Len(operands) >= 2
  PROVE  /\ Arg1 \in ToSet(operands) /\ Arg1 \in Cgts /\ Arg1 # Arg2
         /\ Below(2) \in Seq(Cgts) /\ Distinct(Below(2))
         /\ ToSet(Below(2)) = ToSet(operands) \ {Arg1, Arg2}
         /\ operands # <<>>
<1>0. Len(operands) \in Nat /\ DOMAIN operands = 1 .. Len(operands) /\ operands # <<>>
  OBVIOUS
<1>1. Arg2 = operands[Len(operands)] /\ Arg1 = operands[Len(operands) - 1]
  BY DEF Arg1, Arg2, Last
<1>2. Arg1 \in Cgts /\ Arg1 \in ToSet(operands)
  <2>1. Len(operands) - 1 \in 1 .. Len(operands)
    <3>1. PICK n \in Nat : n = Len(operands) /\ n >= 2  BY <1>0
    <3>2. n - 1 \in 1 .. n  BY <3>1
    <3> QED  BY <3>1, <3>2
  <2> QED  BY <1>0, <1>1, <2>1 DEF ToSet
<1>3. Arg1 # Arg2
  <2>1. Len(operands) - 1 \in 1 .. Len(operands) /\ Len(operands) \in 1 .. Len(operands)
        /\ Len(operands) - 1 # Len(operands)
    <3>1. Len(operands) \in Nat  BY <1>0
    <3> QED  BY <3>1
  <2> QED  BY <1>0, <1>1, <2>1 DEF Distinct
<1>4. {operands[i] : i \in Len(operands) - 2 + 1 .. Len(operands)} = {Arg1, Arg2}
  <2>1. Len(operands) - 2 + 1 .. Len(operands) = {Len(operands) - 1, Len(operands)}  BY <1>0
  <2> QED  BY <1>1, <2>1
<1>5. /\ Below(2) \in Seq(Cgts) /\ Distinct(Below(2))
      /\ ToSet(Below(2)) = ToSet(operands) \ {operands[i] : i \in Len(operands) - 2 + 1 .. Len(operands)}
  BY <1>0, Cut DEF Below
<1> QED  BY <1>0, <1>2, <1>3, <1>4, <1>5

-----------------------------------------------------------------------------
(* The steps.                                                               *)

(* No code is generated any more. *)
LEMMA StopInv ==
  ASSUME GenInv, NEW why, Stop(why)
  PROVE  GenInv'
<1>1. gen' = gen /\ operands' = operands /\ frames' = frames  BY DEF Stop
<1>2. PICK h, S : Good(gen, ToSet(operands), frames, h, S, {})  BY DEF GenInv
<1>3. Good(gen', ToSet(operands'), frames', h, S, {})  BY <1>1, <1>2
<1> QED  BY <1>1, <1>3 DEF GenInv

(* The code of a quad is out. *)
LEMMA EmitInv ==
  ASSUME NEW g, NEW O, NEW h, NEW S, NEW X, Good(g, O, frames, h, S, X),
         NEW D \in SUBSET O, X \subseteq D, NEW ops \in Seq(Cgts), Distinct(ops),
         ToSet(ops) = O \ D, Emit(g, D, ops)
  PROVE  GenInv'
<1>1. gen' = Retire(g, D) /\ operands' = ops /\ frames' = frames  BY DEF Emit
<1>2. D \in SUBSET Cgts /\ \A l \in 0 .. Len(frames) - 1 : D \cap Own(O, frames, l) = {}
  BY Disjoint
<1>3. Good(Retire(g, D), O \ D, frames, h, S, X \ D)  BY <1>2, RetireGood
<1>4. X \ D = {}  OBVIOUS
<1>5. Good(gen', ToSet(operands'), frames', h, S, {})  BY <1>1, <1>3, <1>4
<1> QED  BY <1>1, <1>5 DEF GenInv

(* The invariant, and what the operands are. *)
LEMMA Start ==
  ASSUME GenInv
  PROVE  /\ \E h, S : Good(gen, ToSet(operands), frames, h, S, {})
         /\ operands \in Seq(Cgts) /\ Distinct(operands)
         /\ gen \in GenType /\ ToSet(operands) \in SUBSET Cgts
<1>1. PICK h, S : Good(gen, ToSet(operands), frames, h, S, {})  BY DEF GenInv
<1> QED  BY <1>1 DEF GenInv, Good, Shape

(* OP_COPY of a constant or a variable, OP_REF *)
LEMMA LoadInv ==
  ASSUME GenInv, NEW source \in {"imm", "name", "ref"}, Load(source)
  PROVE  GenInv'
<1>0. operands \in Seq(Cgts) /\ Distinct(operands) /\ gen \in GenType  BY Start
<1>1. PICK h, S : Good(gen, ToSet(operands), frames, h, S, {})  BY Start
<1> DEFINE c == Fresh(gen)
           g == StoreCgt(gen, c)
           O == ToSet(operands)
<1>2. c \in Cgts /\ gen.loc[c] = "none"  BY FreshDead DEF Load
<1>3. /\ Good(g, O \cup {c}, frames, h, S, {} \cup {c}) /\ c \notin O
      /\ OnStack(g, c) => Busy(g, "r15")
  BY <1>1, <1>2, StoreGood
<1>4. /\ Append(operands, c) \in Seq(Cgts) /\ Distinct(Append(operands, c))
      /\ ToSet(Append(operands, c)) = (O \cup {c}) \ {}
  BY <1>0, <1>2, <1>3, Added
<1>5. ({} \cup {c}) \ {c} = {} /\ {} \in SUBSET (O \cup {c}) /\ c \in O \cup {c}  OBVIOUS
<1>6. IF ~OnStack(g, c)
      THEN Emit(Write(g, c, Val(c)), {}, Append(operands, c))
      ELSE CASE source = "name" -> Emit(MovMemToMem(g, c, Val(c)), {}, Append(operands, c))
             [] source = "imm"  -> Stop("rejected")
             [] source = "ref"  -> Stop("assert")
  BY DEF Load
<1> HIDE DEF c, g, O
<1>7. CASE ~OnStack(g, c)
  <2>1. Good(Write(g, c, Val(c)), O \cup {c}, frames, h, S, {})  BY <1>3, <1>5, WriteGood
  <2> QED  BY <1>4, <1>5, <1>6, <1>7, <2>1, EmitInv
<1>8. CASE OnStack(g, c)
  <2>1. \/ Emit(MovMemToMem(g, c, Val(c)), {}, Append(operands, c))
        \/ Stop("rejected") \/ Stop("assert")
    BY <1>6, <1>8
  <2>2. Good(MovMemToMem(g, c, Val(c)), O \cup {c}, frames, h, S, {})
    BY <1>3, <1>5, <1>8, MemGood DEF OnStack, Borrowable
  <2> QED  BY <1>4, <1>5, <2>1, <2>2, EmitInv, StopInv
<1> QED  BY <1>7, <1>8

(* OP_CAST, OP_COPY of a temporary *)
LEMMA MoveInv ==
  ASSUME GenInv, Move
  PROVE  GenInv'
<1>0. /\ operands \in Seq(Cgts) /\ Distinct(operands) /\ gen \in GenType /\ operands # <<>>
  BY Start DEF Move
<1>1. PICK h, S : Good(gen, ToSet(operands), frames, h, S, {})  BY Start
<1> DEFINE c == Fresh(gen)
           g == StoreCgt(gen, c)
           O == ToSet(operands)
<1>2. c \in Cgts /\ gen.loc[c] = "none"  BY FreshDead DEF Move
<1>3. /\ Good(g, O \cup {c}, frames, h, S, {} \cup {c}) /\ c \notin O
      /\ OnStack(g, c) => Busy(g, "r15")
  BY <1>1, <1>2, StoreGood
<1>4. /\ Arg2 \in O /\ Below(1) \in Seq(Cgts) /\ Distinct(Below(1))
      /\ ToSet(Below(1)) = O \ {Arg2}
  BY <1>0, LastOp
<1>5. Emit(MovOperand(g, c, Arg2), {Arg2}, Append(Below(1), c))  BY DEF Move
<1> HIDE DEF c, g, O
<1>6. /\ Append(Below(1), c) \in Seq(Cgts) /\ Distinct(Append(Below(1), c))
      /\ ToSet(Append(Below(1), c)) = (O \ {Arg2}) \cup {c}
  <2>1. c \notin ToSet(Below(1))  BY <1>3, <1>4
  <2> QED  BY <1>2, <1>4, <2>1, Added
<1>7. Good(MovOperand(g, c, Arg2), O \cup {c}, frames, h, S, ({} \cup {c}) \ {c})
  <2>1. c \in O \cup {c} /\ Arg2 \in (O \cup {c}) \ ({} \cup {c})  BY <1>3, <1>4
  <2> QED  BY <1>3, <2>1, OperandGood DEF Borrowable
<1>8. /\ ({} \cup {c}) \ {c} \subseteq {Arg2} /\ {Arg2} \in SUBSET (O \cup {c})
      /\ (O \ {Arg2}) \cup {c} = (O \cup {c}) \ {Arg2}
  BY <1>3, <1>4
<1> QED  BY <1>5, <1>6, <1>7, <1>8, EmitInv

(* Unary operators *)
LEMMA UnaryInv ==
  ASSUME GenInv, NEW scale, Unary(scale)
  PROVE  GenInv'
<1>0. /\ operands \in Seq(Cgts) /\ Distinct(operands) /\ operands # <<>>  BY Start DEF Unary
<1>1. PICK h, S : Good(gen, ToSet(operands), frames, h, S, {})  BY Start
<1>2. Arg2 \in ToSet(operands)  BY <1>0, LastOp
<1>3. \/ Stop("rejected")
      \/ Emit(Update(gen, Arg2, Computed(Arg2, Contents(gen, {Arg2}), {Arg2})), {}, operands)
  BY DEF Unary
<1>4. Computed(Arg2, Contents(gen, {Arg2}), {Arg2}) = Val(Arg2)
  <2>1. {Arg2} \in SUBSET (ToSet(operands) \ {})  BY <1>2
  <2> QED  BY <1>1, <2>1, ContentsAre
<1>5. Good(Update(gen, Arg2, Val(Arg2)), ToSet(operands), frames, h, S, {} \ {Arg2})
  BY <1>1, <1>2, UpdateGood
<1>6. {} \ {Arg2} \subseteq {} /\ {} \in SUBSET ToSet(operands)
      /\ ToSet(operands) = ToSet(operands) \ {}
  OBVIOUS
<1> QED  BY <1>0, <1>3, <1>4, <1>5, <1>6, EmitInv, StopInv

(* Binary operators *)
LEMMA BinaryInv ==
  ASSUME GenInv, Binary
  PROVE  GenInv'
<1>0. /\ operands \in Seq(Cgts) /\ Distinct(operands) /\ Len(operands) >= 2
  BY Start DEF Binary
<1>1. PICK h, S : Good(gen, ToSet(operands), frames, h, S, {})  BY Start
<1> DEFINE O == ToSet(operands)
           from == {Arg1, Arg2}
<1>2. Arg1 \in O /\ operands # <<>>  BY <1>0, LastOps
<1>3. /\ Arg2 \in O /\ Below(1) \in Seq(Cgts) /\ Distinct(Below(1))
      /\ ToSet(Below(1)) = O \ {Arg2}
  BY <1>0, <1>2, LastOp
<1>4. \/ Stop("rejected")
      \/ Emit(Update(gen, Arg1, Computed(Arg1, Contents(gen, from), from)), {Arg2}, Below(1))
  BY DEF Binary
<1> HIDE DEF O
<1>5. Computed(Arg1, Contents(gen, from), from) = Val(Arg1)
  <2>1. from \in SUBSET (O \ {})  BY <1>2, <1>3
  <2> HIDE DEF from
  <2> QED  BY <1>1, <2>1, ContentsAre DEF O
<1>6. Good(Update(gen, Arg1, Val(Arg1)), O, frames, h, S, {} \ {Arg1})
  BY <1>1, <1>2, UpdateGood DEF O
<1>7. {} \ {Arg1} \subseteq {Arg2} /\ {Arg2} \in SUBSET O  BY <1>3
<1> QED  BY <1>3, <1>4, <1>5, <1>6, <1>7, EmitInv, StopInv

(* OP_MUL of an index *)
LEMMA ScaleInv ==
  ASSUME GenInv, Scale
  PROVE  GenInv'
<1>0. /\ operands \in Seq(Cgts) /\ Distinct(operands) /\ gen \in GenType /\ operands # <<>>
  BY Start DEF Scale
<1>1. PICK h, S : Good(gen, ToSet(operands), frames, h, S, {})  BY Start
<1> DEFINE c == Fresh(gen)
           g == StoreCgt(gen, c)
           O == ToSet(operands)
<1>2. c \in Cgts /\ gen.loc[c] = "none"  BY FreshDead DEF Scale
<1>3. /\ Good(g, O \cup {c}, frames, h, S, {} \cup {c}) /\ c \notin O
      /\ OnStack(g, c) => Busy(g, "r15")
  BY <1>1, <1>2, StoreGood
<1>4. /\ Arg2 \in O /\ Below(1) \in Seq(Cgts) /\ Distinct(Below(1))
      /\ ToSet(Below(1)) = O \ {Arg2}
  BY <1>0, LastOp
<1>5. Stop("rejected") \/ Emit(MovOperand(g, c, Arg2), {Arg2}, Append(Below(1), c))
  BY DEF Scale
<1> HIDE DEF c, g, O
<1>6. /\ Append(Below(1), c) \in Seq(Cgts) /\ Distinct(Append(Below(1), c))
      /\ ToSet(Append(Below(1), c)) = (O \ {Arg2}) \cup {c}
  <2>1. c \notin ToSet(Below(1))  BY <1>3, <1>4
  <2> QED  BY <1>2, <1>4, <2>1, Added
<1>7. Good(MovOperand(g, c, Arg2), O \cup {c}, frames, h, S, ({} \cup {c}) \ {c})
  <2>1. c \in O \cup {c} /\ Arg2 \in (O \cup {c}) \ ({} \cup {c})  BY <1>3, <1>4
  <2> QED  BY <1>3, <2>1, OperandGood DEF Borrowable
<1>8. /\ ({} \cup {c}) \ {c} \subseteq {Arg2} /\ {Arg2} \in SUBSET (O \cup {c})
      /\ (O \ {Arg2}) \cup {c} = (O \cup {c}) \ {Arg2}
  BY <1>3, <1>4
<1> QED  BY <1>5, <1>6, <1>7, <1>8, EmitInv, StopInv

(* OP_ADD of an index *)
LEMMA SumInv ==
  ASSUME GenInv, NEW a, NEW b, {a, b} = {Arg1, Arg2}, Sum(a, b)
  PROVE  GenInv'
<1>0. /\ operands \in Seq(Cgts) /\ Distinct(operands) /\ gen \in GenType /\ Len(operands) >= 2
  BY Start DEF Sum
<1>1. PICK h, S : Good(gen, ToSet(operands), frames, h, S, {})  BY Start
<1> DEFINE c == Fresh(gen)
           O == ToSet(operands)
           from == {a, b}
           sum == Update(gen, a, Computed(a, Contents(gen, from), from))
           g == StoreCgt(sum, c)
<1>2. c \in Cgts /\ gen.loc[c] = "none"  BY FreshDead DEF Sum
<1>3. Arg1 \in O /\ operands # <<>> /\ Below(2) \in Seq(Cgts) /\ Distinct(Below(2))
      /\ ToSet(Below(2)) = O \ {Arg1, Arg2}
  BY <1>0, LastOps
<1>4. Arg2 \in O  BY <1>0, <1>3, LastOp
<1>5. a \in O /\ b \in O  BY <1>3, <1>4
<1>6. Stop("rejected") \/ Emit(MovOperand(g, c, a), from, Append(Below(2), c))
  BY DEF Sum
<1> HIDE DEF c, g, O
<1>7. Computed(a, Contents(gen, from), from) = Val(a)
  <2>1. from \in SUBSET (O \ {})  BY <1>5
  <2> HIDE DEF from
  <2> QED  BY <1>1, <2>1, ContentsAre DEF O
<1>8. Good(sum, O, frames, h, S, {} \ {a})
  BY <1>1, <1>5, <1>7, UpdateGood DEF O
<1>9. sum.loc[c] = "none"
  <2>1. c \notin O
    <3>1. \A d \in O : gen.loc[d] # "none"  BY <1>1, HasContent DEF O
    <3> QED  BY <1>2, <3>1
  <2>2. sum = Write(Forget(gen, {a}), a, Val(a))  BY <1>7 DEF Update
  <2>3. a \in Cgts /\ {a} \in SUBSET Cgts /\ Val(a) \in Values
    <3>1. a \in Cgts  BY <1>1, <1>5, HasContent DEF O
    <3> QED  BY <3>1, ValueFacts
  <2>4. Forget(gen, {a}) \in GenType /\ Forget(gen, {a}).loc = gen.loc
    BY <1>0, <2>3, ForgetFields
  <2>5. sum.loc = gen.loc
    <3>1. PICK f \in GenType : f = Forget(gen, {a}) /\ f.loc = gen.loc  BY <2>4
    <3>2. Write(f, a, Val(a)).loc = f.loc  BY <2>3, WriteFields
    <3> QED  BY <2>2, <3>1, <3>2
  <2> QED  BY <1>2, <2>5
<1> HIDE DEF sum
<1>10. /\ Good(g, O \cup {c}, frames, h, S, ({} \ {a}) \cup {c}) /\ c \notin O
       /\ OnStack(g, c) => Busy(g, "r15")
  BY <1>2, <1>8, <1>9, StoreGood DEF g
<1>11. /\ Append(Below(2), c) \in Seq(Cgts) /\ Distinct(Append(Below(2), c))
       /\ ToSet(Append(Below(2), c)) = (O \ {Arg1, Arg2}) \cup {c}
  <2>1. c \notin ToSet(Below(2))  BY <1>3, <1>10
  <2> QED  BY <1>2, <1>3, <2>1, Added
<1>12. Good(MovOperand(g, c, a), O \cup {c}, frames, h, S, (({} \ {a}) \cup {c}) \ {c})
  <2>1. c \in O \cup {c} /\ a \in (O \cup {c}) \ (({} \ {a}) \cup {c})  BY <1>5, <1>10
  <2> QED  BY <1>10, <2>1, OperandGood DEF Borrowable
<1>13. /\ (({} \ {a}) \cup {c}) \ {c} \subseteq from /\ from \in SUBSET (O \cup {c})
       /\ (O \ {Arg1, Arg2}) \cup {c} = (O \cup {c}) \ from
  BY <1>3, <1>4, <1>5, <1>10
<1> HIDE DEF from
<1> QED  BY <1>6, <1>11, <1>12, <1>13, EmitInv, StopInv

(* The end of some live ranges leaves numbers for new temporaries. *)
LEMMA RetireFresh ==
  ASSUME NEW g, NEW O, NEW fs, NEW h, NEW S, NEW X, Good(g, O, fs, h, S, X),
         NEW D \in SUBSET O, D # {}
  PROVE  LET left == Retire(g, D)
         IN  /\ Good(left, O \ D, fs, h, S, X \ D)
             /\ Fresh(left) \in Cgts /\ left.loc[Fresh(left)] = "none"
             /\ \A d \in O \ D : left.loc[d] = g.loc[d]
<1>0. g \in GenType /\ O \in SUBSET Cgts  BY DEF Good, Shape
<1>1. D \in SUBSET Cgts /\ \A l \in 0 .. Len(fs) - 1 : D \cap Own(O, fs, l) = {}  BY Disjoint
<1> DEFINE left == Retire(g, D)
<1>2. Good(left, O \ D, fs, h, S, X \ D)  BY <1>1, RetireGood
<1>3. \A c \in Cgts : left.loc[c] = IF c \in D THEN "none" ELSE g.loc[c]
  BY <1>0, <1>1, RetireFields
<1> HIDE DEF left
<1>4. Dead(left) # {}  BY <1>1, <1>3 DEF Dead
<1>5. Fresh(left) \in Cgts /\ left.loc[Fresh(left)] = "none"  BY <1>4, FreshDead
<1> QED  BY <1>0, <1>2, <1>3, <1>5 DEF left

(* Comparisons *)
LEMMA CompareInv ==
  ASSUME GenInv, NEW n \in {1, 2}, Compare(n)
  PROVE  GenInv'
<1>0. operands \in Seq(Cgts) /\ Distinct(operands) /\ Len(operands) >= n  BY Start DEF Compare
<1>1. PICK h, S : Good(gen, ToSet(operands), frames, h, S, {})  BY Start
<1> DEFINE O == ToSet(operands)
           from == {operands[i] : i \in (Len(operands) - n + 1) .. Len(operands)}
           left == Retire(gen, from)
           c == Fresh(left)
           g == StoreCgt(left, c)
<1>2. /\ Below(n) \in Seq(Cgts) /\ Distinct(Below(n)) /\ ToSet(Below(n)) = O \ from
  <2>1. n \in Nat /\ n =< Len(operands)  BY <1>0
  <2> QED  BY <1>0, <2>1, Cut DEF Below
<1>3. from \in SUBSET O /\ from # {}
  <2>1. Len(operands) \in Nat /\ DOMAIN operands = 1 .. Len(operands)  BY <1>0
  <2>2. \A i \in (Len(operands) - n + 1) .. Len(operands) : i \in 1 .. Len(operands)
    BY <1>0, <2>1
  <2>3. Len(operands) \in (Len(operands) - n + 1) .. Len(operands)  BY <1>0, <2>1
  <2> QED  BY <2>1, <2>2, <2>3 DEF ToSet
<1>4. \/ Stop("rejected")
      \/ Emit(Write(g, c, Computed(c, Contents(gen, from), from)), {}, Append(Below(n), c))
  BY DEF Compare
<1> HIDE DEF O, from
<1>5. /\ Good(left, O \ from, frames, h, S, {} \ from)
      /\ c \in Cgts /\ left.loc[c] = "none"
  BY <1>1, <1>3, RetireFresh DEF O
<1>6. Computed(c, Contents(gen, from), from) = Val(c)
  <2>1. from \in SUBSET (O \ {})  BY <1>3
  <2> HIDE DEF c
  <2> QED  BY <1>1, <2>1, ContentsAre DEF O
<1> HIDE DEF c, left
<1>7. Good(g, (O \ from) \cup {c}, frames, h, S, ({} \ from) \cup {c}) /\ c \notin O \ from
  BY <1>5, StoreGood
<1> HIDE DEF g
<1>8. Good(Write(g, c, Val(c)), (O \ from) \cup {c}, frames, h, S, (({} \ from) \cup {c}) \ {c})
  BY <1>7, WriteGood
<1>9. /\ Append(Below(n), c) \in Seq(Cgts) /\ Distinct(Append(Below(n), c))
      /\ ToSet(Append(Below(n), c)) = (O \ from) \cup {c}
  BY <1>2, <1>5, <1>7, Added
<1>10. /\ (({} \ from) \cup {c}) \ {c} \subseteq {} /\ {} \in SUBSET ((O \ from) \cup {c})
       /\ (O \ from) \cup {c} = ((O \ from) \cup {c}) \ {}
  OBVIOUS
<1> QED  BY <1>4, <1>6, <1>8, <1>9, <1>10, EmitInv, StopInv

(* OP_DEREF_COPY *)
LEMMA AssignInv ==
  ASSUME GenInv, Assign
  PROVE  GenInv'
<1>0. operands \in Seq(Cgts) /\ Distinct(operands) /\ Len(operands) >= 2  BY Start DEF Assign
<1>1. PICK h, S : Good(gen, ToSet(operands), frames, h, S, {})  BY Start
<1> DEFINE O == ToSet(operands)
           left == Retire(gen, {Arg1})
           c == Fresh(left)
           g == StoreCgt(left, c)
<1>2. /\ Arg1 \in O /\ Arg1 # Arg2 /\ operands # <<>>
      /\ Below(2) \in Seq(Cgts) /\ Distinct(Below(2)) /\ ToSet(Below(2)) = O \ {Arg1, Arg2}
  BY <1>0, LastOps
<1>3. Arg2 \in O  BY <1>0, <1>2, LastOp
<1>4. \/ Stop("lost") \/ Stop("rejected")
      \/ Emit(MovOperand(g, c, Arg2), {Arg2}, Append(Below(2), c))
  BY DEF Assign
<1> HIDE DEF O
<1>5. /\ Good(left, O \ {Arg1}, frames, h, S, {} \ {Arg1})
      /\ c \in Cgts /\ left.loc[c] = "none"
  <2>1. {Arg1} \in SUBSET O /\ {Arg1} # {}  BY <1>2
  <2> QED  BY <1>1, <2>1, RetireFresh DEF O
<1> HIDE DEF c, left
<1> DEFINE Q == (O \ {Arg1}) \cup {c}
           X == ({} \ {Arg1}) \cup {c}
<1>6. Good(g, Q, frames, h, S, X) /\ c \notin O \ {Arg1} /\ (OnStack(g, c) => Busy(g, "r15"))
  BY <1>5, StoreGood
<1> HIDE DEF g
<1>7. c \in Q /\ Arg2 \in Q \ X /\ X \ {c} \subseteq {Arg2} /\ {Arg2} \in SUBSET Q
      /\ (O \ {Arg1, Arg2}) \cup {c} = Q \ {Arg2}
  BY <1>2, <1>3, <1>6
<1> HIDE DEF Q, X
<1>8. Good(MovOperand(g, c, Arg2), Q, frames, h, S, X \ {c})
  BY <1>6, <1>7, OperandGood DEF Borrowable
<1>9. /\ Append(Below(2), c) \in Seq(Cgts) /\ Distinct(Append(Below(2), c))
      /\ ToSet(Append(Below(2), c)) = (O \ {Arg1, Arg2}) \cup {c}
  <2>1. c \notin ToSet(Below(2))  BY <1>2, <1>6
  <2> QED  BY <1>2, <1>5, <2>1, Added
<1> QED  BY <1>4, <1>7, <1>8, <1>9, EmitInv, StopInv

(* The code of a quad is out; it had no use for some operands any more. *)
LEMMA EmitDropped ==
  ASSUME GenInv, NEW D \in SUBSET ToSet(operands), NEW g, NEW P, NEW h, NEW S,
         Good(g, P, frames, h, S, {}), NEW ops \in Seq(Cgts), Distinct(ops),
         ToSet(ops) = P \ D, Emit(g, D, ops)
  PROVE  GenInv'
<1>1. gen' = Retire(g, D) /\ operands' = ops /\ frames' = frames  BY DEF Emit
<1>2. PICK k, T : Good(gen, ToSet(operands), frames, k, T, {})  BY Start
<1>3. D \in SUBSET Cgts /\ \A l \in 0 .. Len(frames) - 1 : D \cap Own(ToSet(operands), frames, l) = {}
  BY <1>2, Disjoint
<1>4. Len(frames) \in Nat  BY DEF Good, Shape
<1>5. \A l \in 0 .. Len(frames) - 1 : D \cap Own(P, frames, l) = {}  BY <1>3, <1>4 DEF Own
<1>6. Good(Retire(g, D), P \ D, frames, h, S, {} \ D)  BY <1>3, <1>5, RetireGood
<1>7. Good(gen', ToSet(operands'), frames', h, S, {})  BY <1>1, <1>6
<1> QED  BY <1>1, <1>7 DEF GenInv

(* The only operand. *)
LEMMA OneOp ==
  ASSUME operands \in Seq(Cgts), Distinct(operands), Len(operands) = 1
  PROVE  ToSet(operands) = {Arg2} /\ Arg2 \in Cgts /\ operands # <<>> /\ Arg2 = operands[1]
<1>1. DOMAIN operands = 1 .. 1 /\ operands # <<>>
  <2>1. DOMAIN operands = 1 .. Len(operands)  OBVIOUS
  <2>2. operands # <<>>
    <3>1. Len(operands) # 0  OBVIOUS
    <3> QED  BY <3>1, EmptySeq
  <2> QED  BY <2>1, <2>2
<1>2. Arg2 = operands[1] /\ operands[1] \in Cgts  BY DEF Arg2, Last
<1> QED  BY <1>1, <1>2 DEF ToSet

(* At the end of a statement nothing has to be kept. *)
LEMMA NothingLeft ==
  ASSUME NEW g, NEW w \in GenType, NEW h, NEW S, Good(g, {}, <<>>, h, S, {}),
         w.lrs = g.lrs, w.stk = g.stk
  PROVE  Good(w, {}, <<>>, h, S, {})
<1>1. Len(<<>>) = 0  OBVIOUS
<1>2. /\ Shape({}, <<>>, h, S) /\ Ranged(g, {}, <<>>, S)
      /\ Intact(g, g.loc, {}, <<>>, h, 0, {})
  BY <1>1 DEF Good
<1>3. \A l \in 0 .. 0 : Own({}, <<>>, l) = {} /\ Wait({}, <<>>, l) = {} /\ ~(l >= 1)
  BY <1>1 DEF Own, Wait
<1>4. Ranged(w, {}, <<>>, S)  BY <1>1, <1>2, <1>3 DEF Ranged, Item, Owner, TopAt
<1>5. Intact(w, w.loc, {}, <<>>, h, 0, {})
  <2>1. \A l \in 0 .. 0 : \A r, v : ~Valued(w.loc, {}, <<>>, {}, l, r, v)  BY <1>3 DEF Valued
  <2>2. Len(w.stk) = h[0]  BY <1>2 DEF Intact
  <2>3. \A l \in 1 .. 0 : FALSE  OBVIOUS
  <2> QED  BY <1>3, <2>1, <2>2, <2>3 DEF Intact
<1>6. Snapshots(w.loc, <<>>, h)  BY <1>1 DEF Snapshots
<1> QED  BY <1>1, <1>2, <1>4, <1>5, <1>6 DEF Good

(* The value of an expression is used *)
LEMMA FinishInv ==
  ASSUME GenInv, NEW use \in {"return", "let", "test", "unused"}, Finish(use)
  PROVE  GenInv'
<1>0. operands \in Seq(Cgts) /\ Distinct(operands) /\ operands # <<>> /\ gen \in GenType
  BY Start DEF Finish
<1>1. PICK h, S : Good(gen, ToSet(operands), frames, h, S, {})  BY Start
<1> DEFINE O == ToSet(operands)
<1>2. /\ Arg2 \in O /\ Arg2 \in Cgts /\ Below(1) \in Seq(Cgts) /\ Distinct(Below(1))
      /\ ToSet(Below(1)) = O \ {Arg2}
  BY <1>0, LastOp
<1>3. Content(gen, Arg2) = Val(Arg2) /\ Val(Arg2) \in Values
  BY <1>1, <1>2, HasContent, ValueFacts
<1>4. {} \subseteq {Arg2} /\ {Arg2} \in SUBSET O  BY <1>2
<1>5. use # "unused" => frames = <<>> /\ Len(operands) = 1  BY DEF Finish
<1>6. \/ Stop("rejected")
      \/ use = "return" /\ Emit(MovToReg(gen, "rax", Content(gen, Arg2)), {Arg2}, Below(1))
      \/ use = "let" /\ Emit(MovMemToMem(gen, FREE, Content(gen, Arg2)), {Arg2}, Below(1))
      \/ Emit(gen, {Arg2}, Below(1))
  BY DEF Finish
<1>7. CASE Stop("rejected")  BY <1>7, StopInv
<1>8. CASE Emit(gen, {Arg2}, Below(1))
  <2> HIDE DEF O
  <2> QED  BY <1>1, <1>2, <1>4, <1>8, EmitInv DEF O
<1>9. CASE use = "let" /\ Emit(MovMemToMem(gen, FREE, Content(gen, Arg2)), {Arg2}, Below(1))
  <2>1. frames = <<>>  BY <1>5, <1>9
  <2>2. Borrowable(gen, frames, "r15")  BY <2>1 DEF Borrowable, PushedBy
  <2>3. Good(MovMemToMem(gen, FREE, Val(Arg2)), O, frames, h, S, {})
    BY <1>1, <1>3, <2>2, MemVarGood
  <2> HIDE DEF O
  <2> QED  BY <1>2, <1>3, <1>4, <1>9, <2>3, EmitInv
<1>10. CASE use = "return" /\ Emit(MovToReg(gen, "rax", Content(gen, Arg2)), {Arg2}, Below(1))
  <2>1. frames = <<>> /\ O = {Arg2}  BY <1>0, <1>5, <1>10, OneOp
  <2>2. Good(gen, {}, frames, h, S, {} \cap {})
    <3>1. {} \in SUBSET O  OBVIOUS
    <3> QED  BY <1>1, <3>1, Fewer
  <2> DEFINE w == MovToReg(gen, "rax", Val(Arg2))
  <2>3. w \in GenType /\ w.lrs = gen.lrs /\ w.stk = gen.stk
    <3>1. PICK v \in Values : v = Val(Arg2)  BY <1>3
    <3>2. "rax" \in Regs  BY Numbers
    <3>3. LET u == MovToReg(gen, "rax", v)
          IN  u \in GenType /\ u.lrs = gen.lrs /\ u.stk = gen.stk
      BY <1>0, <3>2, MovFields
    <3> QED  BY <3>1, <3>3
  <2> HIDE DEF w
  <2>4. Good(w, {}, frames, h, S, {})  BY <2>1, <2>2, <2>3, NothingLeft
  <2>5. Emit(w, {Arg2}, Below(1))  BY <1>3, <1>10 DEF w
  <2>6. ToSet(Below(1)) = {} \ {Arg2}  BY <1>2, <2>1
  <2> QED  BY <1>2, <1>4, <2>4, <2>5, <2>6, EmitDropped
<1> QED  BY <1>6, <1>7, <1>8, <1>9, <1>10

(* nnc_pop_reg of a register that no open call has pushed: the temporary    *)
(* that was in it is lost.                                                  *)
LEMMA PopGood ==
  ASSUME NEW g, NEW O, NEW fs, NEW h, NEW S, Good(g, O, fs, h, S, {}),
         NEW r \in Regs, r \notin PushedBy(fs), NEW o \in O, TopS(g.lrs[r]) = o
  PROVE  Good(PopReg(g, r), O \ {o}, fs, h, S, {})
<1>0. g \in GenType /\ O \in SUBSET Cgts  BY DEF Good, Shape
<1> DEFINE w == PopReg(g, r)
           P == O \ {o}
<1>1. /\ w \in GenType
      /\ w.loc = g.loc /\ w.reg = g.reg /\ w.slots = g.slots /\ w.stk = g.stk
      /\ w.lrs = [g.lrs EXCEPT ![r] = PopS(g.lrs[r])]
  BY <1>0, PopFields
<1> HIDE DEF w
<1>2. g.lrs \in [Regs -> Seq(Ranges)]  BY <1>0, GenFields
<1>3. {o} \ P = {o}  OBVIOUS
<1>4. \A s \in Regs : KeepsRange(g, w, s, {o} \ P) \/ DropsRange(g, w, s, {o} \ P, fs)
  <2> SUFFICES ASSUME NEW s \in Regs
               PROVE  KeepsRange(g, w, s, {o}) \/ DropsRange(g, w, s, {o}, fs)
    BY <1>3
  <2>1. CASE s = r
    <3>1. w.lrs[s] = PopS(g.lrs[s])  BY <1>1, <1>2, <2>1
    <3>2. Len(PopS(g.lrs[s])) =< Len(g.lrs[s])
      <4>1. g.lrs[s] \in Seq(Ranges)  BY <1>2
      <4> QED  BY <4>1, StackFacts
    <3> QED  BY <2>1, <3>1, <3>2 DEF DropsRange
  <2>2. CASE s # r
    <3>1. w.lrs[s] = g.lrs[s]  BY <1>1, <1>2, <2>2
    <3> QED  BY <3>1 DEF KeepsRange
  <2> QED  BY <2>1, <2>2
<1> HIDE DEF P
<1>5. Evolves(g, w, P, fs, {o})  BY <1>1, <1>4 DEF Evolves, Survives
<1>6. /\ {o} \in SUBSET Cgts /\ \A l \in 0 .. Len(fs) - 1 : {o} \cap Own(O, fs, l) = {}
  <2>1. {o} \in SUBSET O  OBVIOUS
  <2> QED  BY <2>1, Disjoint
<1>7. P \in SUBSET O /\ {} \in SUBSET P /\ \A c \in P \ {} : c \notin {} /\ c \notin {o}
  BY DEF P
<1>8. Good(w, P, fs, h, S, {})  BY <1>5, <1>6, <1>7, Evolve
<1> QED  BY <1>8 DEF w, P

(* t is what the instructions of a handler make of e, in which it has       *)
(* borrowed the registers of R: they write these and the temporary c.       *)
Touched(g, e, t, c, R) ==
  /\ t \in GenType /\ t.loc = g.loc /\ t.lrs = e.lrs
  /\ Len(t.stk) = Len(e.stk)
  /\ \A i \in 1 .. Len(e.stk) : Survives(e.stk[i], t.stk[i], {c})
  /\ \A d \in g.slots : d # c => d \in t.slots
  /\ \A s \in Regs \ R : s # g.loc[c] => Survives(g.reg[s], t.reg[s], {c})

(* The registers are borrowed, and nothing is written yet. *)
LEMMA TouchStart ==
  ASSUME NEW g, NEW e \in GenType, e.loc = g.loc, e.reg = g.reg, e.slots = g.slots, NEW c, NEW R
  PROVE  Touched(g, e, e, c, R)
BY DEF Touched, Survives

(* A mov to a borrowed register, or to the one of c. *)
LEMMA TouchMov ==
  ASSUME NEW g, NEW e, NEW t, NEW c, NEW R, Touched(g, e, t, c, R),
         NEW r \in Regs, r \in R \/ r = g.loc[c], NEW v \in Values
  PROVE  /\ Touched(g, e, MovToReg(t, r, v), c, R)
         /\ MovToReg(t, r, v).reg[r] = v /\ MovToReg(t, r, v).slots = t.slots
         /\ \A s \in Regs \ {r} : MovToReg(t, r, v).reg[s] = t.reg[s]
<1>1. t \in GenType /\ t.reg \in [Regs -> Values]  BY GenFields DEF Touched
<1> DEFINE w == MovToReg(t, r, v)
<1>2. /\ w \in GenType
      /\ w.lrs = t.lrs /\ w.loc = t.loc /\ w.stk = t.stk /\ w.slots = t.slots
      /\ w.reg = [t.reg EXCEPT ![r] = v]
  BY <1>1, MovFields
<1> HIDE DEF w
<1>3. w.reg[r] = v /\ \A s \in Regs \ {r} : w.reg[s] = t.reg[s]  BY <1>1, <1>2
<1>4. \A s \in Regs \ R : s # g.loc[c] => w.reg[s] = t.reg[s]  BY <1>3
<1>5. Touched(g, e, w, c, R)  BY <1>2, <1>4 DEF Touched
<1> QED  BY <1>2, <1>3, <1>5 DEF w

(* The old value of c is out of date. *)
LEMMA TouchForget ==
  ASSUME NEW g, NEW e, NEW t, NEW c \in Cgts, NEW R, Touched(g, e, t, c, R)
  PROVE  Touched(g, e, Forget(t, {c}), c, R)
<1>1. t \in GenType /\ {c} \in SUBSET Cgts  BY DEF Touched
<1> DEFINE w == Forget(t, {c})
<1>2. /\ w \in GenType
      /\ w.lrs = t.lrs /\ w.loc = t.loc /\ w.slots = t.slots
      /\ Len(w.stk) = Len(t.stk)
      /\ \A i \in 1 .. Len(t.stk) : w.stk[i] = t.stk[i] \/ \E d \in {c} : t.stk[i] = Val(d)
      /\ \A r \in Regs : w.reg[r] = t.reg[r] \/ \E d \in {c} : t.reg[r] = Val(d)
  BY <1>1, ForgetFields
<1> HIDE DEF w
<1>3. Touched(g, e, w, c, R)  BY <1>2 DEF Touched, Survives
<1> QED  BY <1>3 DEF w

(* The new value of c is written. *)
LEMMA TouchWrite ==
  ASSUME NEW g, NEW e, NEW t, NEW c \in Cgts, NEW R, Touched(g, e, t, c, R)
  PROVE  /\ Touched(g, e, Write(t, c, Val(c)), c, R)
         /\ HasVal(Write(t, c, Val(c)), g.loc, c)
<1>1. t \in GenType /\ Val(c) \in Values /\ t.loc = g.loc /\ t.reg \in [Regs -> Values]
  BY ValueFacts, GenFields DEF Touched
<1> DEFINE w == Write(t, c, Val(c))
<1>2. /\ w \in GenType
      /\ w.lrs = t.lrs /\ w.loc = t.loc /\ w.stk = t.stk
      /\ t.loc[c] \in Regs => w.reg = [t.reg EXCEPT ![t.loc[c]] = Val(c)] /\ w.slots = t.slots
      /\ t.loc[c] \notin Regs =>
           w.reg = t.reg /\ w.slots = IF Val(c) = Val(c) THEN t.slots \cup {c} ELSE t.slots \ {c}
  BY <1>1, WriteFields
<1> HIDE DEF w
<1>3. \A s \in Regs : s # g.loc[c] => w.reg[s] = t.reg[s]  BY <1>1, <1>2
<1>4. \A d \in t.slots : d \in w.slots  BY <1>2
<1>5. Touched(g, e, w, c, R)  BY <1>2, <1>3, <1>4 DEF Touched
<1>6. HasVal(w, g.loc, c)  BY <1>1, <1>2 DEF HasVal
<1> QED  BY <1>5, <1>6 DEF w

(* What is left of a handler that gives back the last register it borrowed. *)
LEMMA BackGood ==
  ASSUME NEW g, NEW O, NEW fs, NEW h, NEW S, NEW X, Good(g, O, fs, h, S, X),
         NEW r \in Regs, Borrowable(g, fs, r), NEW c \in O, g.loc[c] # r,
         NEW t, Borrowed(g, t, r), t.loc = g.loc,
         \A s \in Regs \ {r} : KeepsRange(g, t, s, {}) \/ DropsRange(g, t, s, {}, fs),
         \A i \in 1 .. Len(g.stk) : Survives(g.stk[i], t.stk[i], {c}),
         Busy(g, r) => Survives(g.reg[r], t.stk[Len(g.stk) + 1], {c}),
         \A d \in g.slots : d # c => d \in t.slots,
         \A s \in Regs \ {r} : Busy(g, s) /\ s # g.loc[c] => Survives(g.reg[s], t.reg[s], {c}),
         HasVal(t, g.loc, c)
  PROVE  Good(GenPopReg(t, r, Busy(g, r)), O, fs, h, S, X \ {c})
<1>0. g \in GenType /\ O \in SUBSET Cgts /\ X \in SUBSET O  BY DEF Good, Shape
<1> DEFINE w == GenPopReg(t, r, Busy(g, r))
<1>1. /\ w \in GenType /\ w.loc = t.loc /\ w.slots = t.slots
      /\ w.lrs = [t.lrs EXCEPT ![r] = IF Busy(g, r) THEN g.lrs[r] ELSE PopS(g.lrs[r])]
      /\ Len(w.stk) = Len(g.stk) /\ Len(g.stk) \in Nat
      /\ \A i \in 1 .. Len(g.stk) : w.stk[i] = t.stk[i]
      /\ w.reg = IF Busy(g, r) THEN [t.reg EXCEPT ![r] = t.stk[Len(g.stk) + 1]] ELSE t.reg
  BY <1>0, BackFields
<1> HIDE DEF w
<1>2. t.lrs \in [Regs -> Seq(Ranges)] /\ t.reg \in [Regs -> Values]
  BY GenFields DEF Borrowed
<1>3. \A s \in Regs : KeepsRange(g, w, s, {c} \ O) \/ DropsRange(g, w, s, {c} \ O, fs)
  <2>0. {c} \ O = {}  OBVIOUS
  <2> SUFFICES ASSUME NEW s \in Regs
               PROVE  KeepsRange(g, w, s, {}) \/ DropsRange(g, w, s, {}, fs)
    BY <2>0
  <2>1. CASE s = r
    <3>1. w.lrs[r] = IF Busy(g, r) THEN g.lrs[r] ELSE PopS(g.lrs[r])  BY <1>1, <1>2
    <3> QED  BY <1>0, <2>1, <3>1, BackRange
  <2>2. CASE s # r
    <3>1. w.lrs[s] = t.lrs[s]  BY <1>1, <1>2, <2>2
    <3>2. KeepsRange(g, t, s, {}) \/ DropsRange(g, t, s, {}, fs)  BY <2>2
    <3> QED  BY <3>1, <3>2 DEF KeepsRange, DropsRange
  <2> QED  BY <2>1, <2>2
<1>4. \A s \in Regs : Busy(g, s) /\ TopS(g.lrs[s]) \notin {c} =>
        Survives(g.reg[s], w.reg[s], {c})
  <2> SUFFICES ASSUME NEW s \in Regs, Busy(g, s), TopS(g.lrs[s]) \notin {c}
               PROVE  Survives(g.reg[s], w.reg[s], {c})
    OBVIOUS
  <2>1. s # g.loc[c]  BY HasContent
  <2>2. CASE s = r
    <3>1. w.reg[r] = t.stk[Len(g.stk) + 1]  BY <1>1, <1>2, <2>2
    <3> QED  BY <2>2, <3>1
  <2>3. CASE s # r
    <3>1. w.reg[s] = t.reg[s]  BY <1>1, <1>2, <2>3
    <3> QED  BY <2>1, <2>3, <3>1
  <2> QED  BY <2>2, <2>3
<1>5. \A i \in 1 .. Len(g.stk) : Survives(g.stk[i], w.stk[i], {c})  BY <1>1
<1>6. \A d \in g.slots : d \notin {c} => d \in w.slots  BY <1>1
<1>7. Evolves(g, w, O, fs, {c})  BY <1>1, <1>3, <1>4, <1>5, <1>6 DEF Evolves
<1>8. HasVal(w, w.loc, c)
  <2>1. g.loc[c] \in Regs => w.reg[g.loc[c]] = t.reg[g.loc[c]]  BY <1>1, <1>2
  <2> QED  BY <1>1, <2>1 DEF HasVal
<1>9. \A d \in O \ (X \ {c}) : (d \notin X /\ d \notin {c}) \/ HasVal(w, w.loc, d)  BY <1>8
<1>10. /\ {c} \in SUBSET Cgts /\ X \ {c} \in SUBSET O
       /\ \A l \in 0 .. Len(fs) - 1 : {c} \cap Own(O, fs, l) = {}
  <2>1. {c} \in SUBSET O  OBVIOUS
  <2> QED  BY <1>0, <2>1, Disjoint
<1>11. Good(w, O, fs, h, S, X \ {c})  BY <1>7, <1>9, <1>10, Evolve
<1> QED  BY <1>11 DEF w

(* One register is borrowed. *)
LEMMA OneBack ==
  ASSUME NEW g, NEW O, NEW fs, NEW h, NEW S, NEW X, Good(g, O, fs, h, S, X),
         NEW r \in Regs, Borrowable(g, fs, r), NEW c \in O, g.loc[c] # r, NEW t,
         Touched(g, GenReserveReg(g, r), t, c, {r}), HasVal(t, g.loc, c)
  PROVE  Good(GenPopReg(t, r, Busy(g, r)), O, fs, h, S, X \ {c})
<1>0. g \in GenType  BY DEF Good
<1> DEFINE e == GenReserveReg(g, r)
<1>1. /\ Len(g.stk) \in Nat
      /\ \A i \in 1 .. Len(g.stk) : e.stk[i] = g.stk[i]
      /\ Len(e.stk) = IF Busy(g, r) THEN Len(g.stk) + 1 ELSE Len(g.stk)
      /\ Busy(g, r) => e.stk[Len(g.stk) + 1] = g.reg[r]
      /\ \A s \in Regs \ {r} : e.lrs[s] = g.lrs[s]
  BY <1>0, BorrowStack
<1>2. Borrowed(g, t, r)  BY DEF Borrowed, Touched
<1> HIDE DEF e
<1>3. \A s \in Regs \ {r} : KeepsRange(g, t, s, {})
  BY <1>1 DEF Touched, KeepsRange, e
<1>4. \A i \in 1 .. Len(e.stk) : Survives(e.stk[i], t.stk[i], {c})  BY DEF Touched, e
<1>5. \A i \in 1 .. Len(g.stk) : i \in 1 .. Len(e.stk)  BY <1>1
<1>6. \A i \in 1 .. Len(g.stk) : Survives(g.stk[i], t.stk[i], {c})  BY <1>1, <1>4, <1>5
<1>7. Busy(g, r) => Survives(g.reg[r], t.stk[Len(g.stk) + 1], {c})
  <2>1. Busy(g, r) => Len(g.stk) + 1 \in 1 .. Len(e.stk)  BY <1>1
  <2> QED  BY <1>1, <1>4, <2>1
<1>8. /\ t.loc = g.loc /\ \A d \in g.slots : d # c => d \in t.slots
      /\ \A s \in Regs \ {r} : s # g.loc[c] => Survives(g.reg[s], t.reg[s], {c})
  BY DEF Touched
<1> QED  BY <1>2, <1>3, <1>6, <1>7, <1>8, BackGood

(* Two registers are borrowed. *)
LEMMA TwoBack ==
  ASSUME NEW g, NEW O, NEW fs, NEW h, NEW S, NEW X, Good(g, O, fs, h, S, X),
         NEW r \in Regs, NEW q \in Regs, q # r, Borrowable(g, fs, r), Borrowable(g, fs, q),
         NEW c \in O, g.loc[c] # r, g.loc[c] # q, NEW t,
         Touched(g, GenReserveReg(GenReserveReg(g, r), q), t, c, {r, q}), HasVal(t, g.loc, c)
  PROVE  Good(GenPopReg(GenPopReg(t, q, Busy(GenReserveReg(g, r), q)), r, Busy(g, r)),
              O, fs, h, S, X \ {c})
<1>0. g \in GenType  BY DEF Good
<1> DEFINE e == GenReserveReg(g, r)
           f == GenReserveReg(e, q)
           b == GenPopReg(t, q, Busy(e, q))
<1>1. /\ e \in GenType /\ e.reg = g.reg /\ Len(g.stk) \in Nat
      /\ \A i \in 1 .. Len(g.stk) : e.stk[i] = g.stk[i]
      /\ Len(e.stk) = IF Busy(g, r) THEN Len(g.stk) + 1 ELSE Len(g.stk)
      /\ Busy(g, r) => e.stk[Len(g.stk) + 1] = g.reg[r]
      /\ \A s \in Regs \ {r} : e.lrs[s] = g.lrs[s]
  BY <1>0, BorrowStack
<1>2. /\ t \in GenType /\ t.loc = g.loc /\ t.lrs = f.lrs /\ Len(t.stk) = Len(f.stk)
      /\ \A i \in 1 .. Len(f.stk) : Survives(f.stk[i], t.stk[i], {c})
      /\ \A d \in g.slots : d # c => d \in t.slots
      /\ \A s \in Regs \ {r, q} : s # g.loc[c] => Survives(g.reg[s], t.reg[s], {c})
  BY DEF Touched
<1>3. Borrowed(e, t, q)  BY <1>2 DEF Borrowed
<1> HIDE DEF e
<1>4. /\ Len(e.stk) \in Nat
      /\ \A i \in 1 .. Len(e.stk) : f.stk[i] = e.stk[i]
      /\ Len(f.stk) = IF Busy(e, q) THEN Len(e.stk) + 1 ELSE Len(e.stk)
      /\ Busy(e, q) => f.stk[Len(e.stk) + 1] = e.reg[q]
      /\ \A s \in Regs \ {q} : f.lrs[s] = e.lrs[s]
  BY <1>1, BorrowStack
<1>5. /\ b \in GenType /\ b.loc = t.loc /\ b.slots = t.slots
      /\ b.lrs = [t.lrs EXCEPT ![q] = IF Busy(e, q) THEN e.lrs[q] ELSE PopS(e.lrs[q])]
      /\ Len(b.stk) = Len(e.stk)
      /\ \A i \in 1 .. Len(e.stk) : b.stk[i] = t.stk[i]
      /\ b.reg = IF Busy(e, q) THEN [t.reg EXCEPT ![q] = t.stk[Len(e.stk) + 1]] ELSE t.reg
  <2>1. e \in GenType  BY <1>1
  <2> HIDE DEF f
  <2> QED  BY <1>3, <2>1, BackFields
<1> HIDE DEF f, b
<1>6. t.lrs \in [Regs -> Seq(Ranges)] /\ t.reg \in [Regs -> Values]  BY <1>2, GenFields
<1>7. e.lrs[q] = g.lrs[q] /\ (Busy(e, q) <=> Busy(g, q))
  <2>1. e.lrs[q] = g.lrs[q]  BY <1>1
  <2> QED  BY <2>1, PeekTop
<1>8. Borrowed(g, b, r)
  <2>1. b.lrs[r] = e.lrs[r]  BY <1>2, <1>4, <1>5, <1>6
  <2> QED  BY <1>5, <2>1 DEF Borrowed, e
<1>9. \A s \in Regs \ {r} : KeepsRange(g, b, s, {}) \/ DropsRange(g, b, s, {}, fs)
  <2> SUFFICES ASSUME NEW s \in Regs \ {r}
               PROVE  KeepsRange(g, b, s, {}) \/ DropsRange(g, b, s, {}, fs)
    OBVIOUS
  <2>1. CASE s = q
    <3>1. b.lrs[q] = IF Busy(g, q) THEN g.lrs[q] ELSE PopS(g.lrs[q])  BY <1>5, <1>6, <1>7
    <3> QED  BY <1>0, <2>1, <3>1, BackRange
  <2>2. CASE s # q
    <3>1. b.lrs[s] = g.lrs[s]  BY <1>1, <1>2, <1>4, <1>5, <1>6, <2>2
    <3> QED  BY <3>1 DEF KeepsRange
  <2> QED  BY <2>1, <2>2
<1>10. \A i \in 1 .. Len(e.stk) : i \in 1 .. Len(f.stk)  BY <1>4
<1>11. \A i \in 1 .. Len(e.stk) : Survives(e.stk[i], b.stk[i], {c})
  BY <1>2, <1>4, <1>5, <1>10
<1>12. \A i \in 1 .. Len(g.stk) : Survives(g.stk[i], b.stk[i], {c})
  <2>1. \A i \in 1 .. Len(g.stk) : i \in 1 .. Len(e.stk)  BY <1>1
  <2> QED  BY <1>1, <1>11, <2>1
<1>13. Busy(g, r) => Survives(g.reg[r], b.stk[Len(g.stk) + 1], {c})
  <2>1. Busy(g, r) => Len(g.stk) + 1 \in 1 .. Len(e.stk)  BY <1>1
  <2> QED  BY <1>1, <1>11, <2>1
<1>14. \A s \in Regs \ {r} : Busy(g, s) /\ s # g.loc[c] => Survives(g.reg[s], b.reg[s], {c})
  <2> SUFFICES ASSUME NEW s \in Regs \ {r}, Busy(g, s), s # g.loc[c]
               PROVE  Survives(g.reg[s], b.reg[s], {c})
    OBVIOUS
  <2>1. CASE s = q
    <3>1. Len(e.stk) + 1 \in 1 .. Len(f.stk) /\ f.stk[Len(e.stk) + 1] = g.reg[q]
      BY <1>1, <1>4, <1>7, <2>1
    <3>2. b.reg[q] = t.stk[Len(e.stk) + 1]  BY <1>5, <1>6, <1>7, <2>1
    <3> QED  BY <1>2, <2>1, <3>1, <3>2
  <2>2. CASE s # q
    <3>1. b.reg[s] = t.reg[s]  BY <1>5, <1>6, <2>2
    <3> QED  BY <1>2, <2>2, <3>1
  <2> QED  BY <2>1, <2>2
<1>15. HasVal(b, g.loc, c)
  <2>1. g.loc[c] \in Regs => b.reg[g.loc[c]] = t.reg[g.loc[c]]  BY <1>5, <1>6
  <2> QED  BY <1>5, <2>1 DEF HasVal
<1>16. b.loc = g.loc /\ \A d \in g.slots : d # c => d \in b.slots  BY <1>2, <1>5
<1>17. Good(GenPopReg(b, r, Busy(g, r)), O, fs, h, S, X \ {c})
  BY <1>8, <1>9, <1>12, <1>13, <1>14, <1>15, <1>16, BackGood
<1> QED  BY <1>17 DEF b, e

(* Without the situations, a register that is not busy may be borrowed. *)
LEMMA Covered ==
  ASSUME Situations = {}
  PROVE  /\ \A s, met : Allows(s, met) => ~met
         /\ \A r : ~Uncovers(r) => Borrowable(gen, frames, r)
BY DEF Allows, Uncovers, Borrowable, Pushed, PushedBy

(* OP_DEREF *)
LEMMA DerefInv ==
  ASSUME Situations = {}, GenInv, Deref
  PROVE  GenInv'
<1>0. /\ operands \in Seq(Cgts) /\ Distinct(operands) /\ gen \in GenType /\ operands # <<>>
      /\ "rbx" \in Regs
  BY Start, Numbers DEF Deref
<1>1. PICK h, S : Good(gen, ToSet(operands), frames, h, S, {})  BY Start
<1> DEFINE O == ToSet(operands)
           c == Fresh(gen)
           inside == gen.loc[Arg2] = "rbx"
           e == GenReserveReg(gen, "rbx")
           m == MovToReg(e, "rbx", Content(gen, Arg2))
<1>2. c \in Cgts /\ gen.loc[c] = "none"  BY FreshDead DEF Deref
<1>3. /\ Arg2 \in O /\ Below(1) \in Seq(Cgts) /\ Distinct(Below(1))
      /\ ToSet(Below(1)) = O \ {Arg2}
  BY <1>0, LastOp
<1>4. /\ Content(gen, Arg2) = Val(Arg2) /\ Val(Arg2) \in Values
      /\ gen.loc[Arg2] \in Regs => TopS(gen.lrs[gen.loc[Arg2]]) = Arg2
      /\ gen.loc[Arg2] # "none"
  BY <1>1, <1>3, HasContent, ValueFacts
<1>5. IF inside THEN "rbx" \notin PushedBy(frames) ELSE Borrowable(gen, frames, "rbx")
  <2>1. ~ (IF inside THEN "rbx" \in Pushed ELSE Uncovers("rbx"))  BY Covered DEF Deref
  <2> QED  BY <2>1, Covered DEF Pushed, PushedBy
<1>6. c \notin O
  <2>1. \A d \in O : gen.loc[d] # "none"  BY <1>1, HasContent
  <2> QED  BY <1>2, <2>1
<1>7. /\ Append(Below(1), c) \in Seq(Cgts) /\ Distinct(Append(Below(1), c))
      /\ ToSet(Append(Below(1), c)) = (O \ {Arg2}) \cup {c}
  <2>1. c \notin ToSet(Below(1))  BY <1>3, <1>6
  <2> QED  BY <1>2, <1>3, <2>1, Added
<1> DEFINE loaded == IF inside THEN gen ELSE m
           G == StoreCgt(loaded, c)
           V == Computed(c, [a \in {Arg2} |-> loaded.reg["rbx"]], {Arg2})
           B == ~inside /\ Busy(gen, "rbx")
<1>10. \/ Stop("rejected")
       \/ ~OnStack(G, c) /\ Emit(GenPopReg(Write(G, c, V), "rbx", B), {Arg2}, Append(Below(1), c))
  BY DEF Deref
<1>8. CASE inside
  <2> DEFINE g == StoreCgt(gen, c)
             v == Computed(c, [a \in {Arg2} |-> gen.reg["rbx"]], {Arg2})
             t == Write(g, c, Val(c))
  <2>1. \/ Stop("rejected")
        \/ Emit(GenPopReg(Write(g, c, v), "rbx", FALSE), {Arg2}, Append(Below(1), c))
    <3>1. loaded = gen /\ B = FALSE  BY <1>8
    <3> HIDE DEF loaded, B
    <3> QED  BY <1>10, <3>1
  <2>2. v = Val(c)
    <3>1. gen.reg["rbx"] = Val(Arg2)  BY <1>0, <1>4, <1>8 DEF Content
    <3> QED  BY <3>1, ComputedIs
  <2>3. GenPopReg(t, "rbx", FALSE) = PopReg(t, "rbx")  BY DEF GenPopReg
  <2>4. /\ Good(g, O \cup {c}, frames, h, S, {} \cup {c}) /\ \A d \in O : g.loc[d] = gen.loc[d]
    BY <1>1, <1>2, StoreGood
  <2>5. Good(t, O \cup {c}, frames, h, S, ({} \cup {c}) \ {c}) /\ t.loc = g.loc
    <3>1. c \in O \cup {c} /\ g \in GenType /\ Val(c) \in Values
      BY <1>2, <2>4, ValueFacts DEF Good
    <3> HIDE DEF g, c, O
    <3>2. Write(g, c, Val(c)).loc = g.loc  BY <1>2, <3>1, WriteFields
    <3> QED  BY <2>4, <3>1, <3>2, WriteGood
  <2>6. ({} \cup {c}) \ {c} = {}  OBVIOUS
  <2>7. TopS(t.lrs["rbx"]) = Arg2
    <3>1. Arg2 \in O \cup {c} /\ t.loc[Arg2] = "rbx"  BY <1>3, <1>8, <2>4, <2>5
    <3> HIDE DEF t, g, c, O
    <3> QED  BY <1>0, <2>5, <3>1, HasContent
  <2>8. Good(PopReg(t, "rbx"), (O \cup {c}) \ {Arg2}, frames, h, S, {})
    <3>1. Arg2 \in O \cup {c} /\ "rbx" \notin PushedBy(frames)  BY <1>3, <1>5, <1>8
    <3> HIDE DEF t, g, c, O
    <3> QED  BY <1>0, <2>5, <2>6, <2>7, <3>1, PopGood
  <2>9. ((O \ {Arg2}) \cup {c}) = ((O \cup {c}) \ {Arg2}) \ {Arg2} /\ {Arg2} \in SUBSET O
    BY <1>3, <1>6
  <2>10. \/ Stop("rejected")
         \/ Emit(PopReg(t, "rbx"), {Arg2}, Append(Below(1), c))
    BY <2>1, <2>2, <2>3
  <2> HIDE DEF t, c
  <2> QED  BY <1>7, <2>8, <2>9, <2>10, EmitDropped, StopInv
<1>9. CASE ~inside
  <2> DEFINE g == StoreCgt(m, c)
             v == Computed(c, [a \in {Arg2} |-> m.reg["rbx"]], {Arg2})
             r == g.loc[c]
             t == Write(g, c, Val(c))
             u == [gen EXCEPT !.loc = [gen.loc EXCEPT ![c] = r],
                              !.lrs = [gen.lrs EXCEPT ![r] = PutS(gen.lrs[r], c)]]
  <2>1. \/ Stop("rejected")
        \/ /\ ~OnStack(g, c)
           /\ Emit(GenPopReg(Write(g, c, v), "rbx", Busy(gen, "rbx")), {Arg2}, Append(Below(1), c))
    <3>1. loaded = m /\ B = Busy(gen, "rbx")  BY <1>9 DEF Busy
    <3> HIDE DEF loaded, B, m
    <3> QED  BY <1>10, <3>1
  <2>2. CASE Stop("rejected")  BY <2>2, StopInv
  <2>3. CASE /\ ~OnStack(g, c)
             /\ Emit(GenPopReg(Write(g, c, v), "rbx", Busy(gen, "rbx")), {Arg2}, Append(Below(1), c))
    <3>0. /\ gen.lrs \in [Regs -> Seq(Ranges)] /\ gen.loc \in [Cgts -> Places]
          /\ gen.reg \in [Regs -> Values] /\ gen.slots \in SUBSET Cgts /\ gen.stk \in Seq(Values)
      BY <1>0, GenFields
    <3>1. /\ e \in GenType /\ e.loc = gen.loc /\ e.reg = gen.reg /\ e.slots = gen.slots
          /\ \A s \in Regs \ {"rbx"} : e.lrs[s] = gen.lrs[s]
          /\ TopS(e.lrs["rbx"]) = RESERVED
      BY <1>0, BorrowStack
    <3> HIDE DEF e
    <3>2. /\ m \in GenType
          /\ m.lrs = e.lrs /\ m.loc = e.loc /\ m.stk = e.stk /\ m.slots = e.slots
          /\ m.reg = [e.reg EXCEPT !["rbx"] = Val(Arg2)]
      BY <1>0, <1>4, <3>1, MovFields
    <3> HIDE DEF m, c
    <3>3. Placed(m, g, c, r)  BY <1>2, <3>2, StoreFields
    <3>4. r \in Regs /\ ~Busy(m, r)
      <4>1. r # "stack"  BY <2>3 DEF OnStack
      <4> QED  BY <3>3, <4>1 DEF Placed
    <3>5. r # "rbx" /\ ~Busy(gen, r)
      <4>1. TopS(m.lrs["rbx"]) # FREE  BY <3>1, <3>2, Numbers
      <4>2. r # "rbx"  BY <3>4, <4>1, PeekTop
      <4>3. m.lrs[r] = gen.lrs[r]  BY <3>1, <3>2, <3>4, <4>2
      <4> QED  BY <3>4, <4>2, <4>3, PeekTop
    <3>6. /\ g \in GenType /\ g.reg = m.reg /\ g.slots = m.slots /\ g.stk = m.stk
          /\ g.loc = [m.loc EXCEPT ![c] = r]
          /\ g.lrs = [m.lrs EXCEPT ![r] = PutS(m.lrs[r], c)]
      BY <3>3, <3>4 DEF Placed
    <3>7. v = Val(c)
      <4>1. m.reg["rbx"] = Val(Arg2)  BY <1>0, <3>0, <3>1, <3>2
      <4> QED  BY <4>1, ComputedIs
    <3> HIDE DEF g
    <3>8. PICK p : p = r  OBVIOUS
    <3>9. PutS(gen.lrs[r], c) \in Seq(Ranges) /\ r \in Places
      <4>1. gen.lrs[r] \in Seq(Ranges) /\ c \in Ranges  BY <1>2, <3>0, <3>4 DEF Ranges
      <4> QED  BY <3>4, <4>1, PutFacts DEF Places
    <3>10. /\ u \in GenType /\ u.loc = [gen.loc EXCEPT ![c] = r]
           /\ u.lrs = [gen.lrs EXCEPT ![r] = PutS(gen.lrs[r], c)]
           /\ u.reg = gen.reg /\ u.slots = gen.slots /\ u.stk = gen.stk
      <4> HIDE DEF r
      <4> QED  BY <1>0, <1>2, <3>0, <3>4, <3>9 DEF GenType
    <3> HIDE DEF u
    <3>11. Placed(gen, u, c, r)
      <4> HIDE DEF r
      <4> QED  BY <3>4, <3>5, <3>10, Numbers DEF Placed
    <3>12. Good(u, O \cup {c}, frames, h, S, {} \cup {c}) /\ u.loc[c] = r
      <4> HIDE DEF r
      <4> QED  BY <1>1, <1>2, <3>11, PlaceGood
    <3>13. u.lrs["rbx"] = gen.lrs["rbx"] /\ (Busy(u, "rbx") <=> Busy(gen, "rbx"))
      <4>1. u.lrs["rbx"] = gen.lrs["rbx"]  BY <1>0, <3>0, <3>4, <3>5, <3>10
      <4> QED  BY <4>1, PeekTop
    <3> DEFINE f == GenReserveReg(u, "rbx")
    <3>14. /\ f \in GenType /\ f.loc = u.loc /\ f.reg = u.reg /\ f.slots = u.slots
           /\ f.lrs = [u.lrs EXCEPT !["rbx"] = IF Busy(u, "rbx") THEN PushS(u.lrs["rbx"], RESERVED)
                                               ELSE PutS(u.lrs["rbx"], RESERVED)]
           /\ f.stk = IF Busy(u, "rbx") THEN PushS(u.stk, u.reg["rbx"]) ELSE u.stk
      BY <1>0, <3>10, ReserveFields
    <3>15. /\ e.lrs = [gen.lrs EXCEPT !["rbx"] = IF Busy(gen, "rbx") THEN PushS(gen.lrs["rbx"], RESERVED)
                                                 ELSE PutS(gen.lrs["rbx"], RESERVED)]
           /\ e.stk = IF Busy(gen, "rbx") THEN PushS(gen.stk, gen.reg["rbx"]) ELSE gen.stk
      BY <1>0, ReserveFields DEF e
    <3> HIDE DEF f, r
    <3>16. g.lrs = f.lrs /\ g.stk = f.stk /\ g.loc = u.loc
      <4>1. m.lrs[r] = gen.lrs[r]  BY <3>1, <3>2, <3>4, <3>5
      <4>2. g.lrs = [e.lrs EXCEPT ![r] = PutS(gen.lrs[r], c)]  BY <3>2, <3>6, <4>1
      <4>3. f.lrs = [[gen.lrs EXCEPT ![r] = PutS(gen.lrs[r], c)] EXCEPT !["rbx"] = e.lrs["rbx"]]
        BY <1>0, <3>0, <3>10, <3>13, <3>14, <3>15
      <4>4. e.lrs = [gen.lrs EXCEPT !["rbx"] = e.lrs["rbx"]]  BY <1>0, <3>0, <3>15
      <4>5. g.lrs = f.lrs
        <5>1. PICK x, y : x = PutS(gen.lrs[r], c) /\ y = e.lrs["rbx"]  OBVIOUS
        <5>2. [[gen.lrs EXCEPT !["rbx"] = y] EXCEPT ![r] = x]
                = [[gen.lrs EXCEPT ![r] = x] EXCEPT !["rbx"] = y]
          BY <1>0, <3>0, <3>4, <3>5
        <5> QED  BY <4>2, <4>3, <4>4, <5>1, <5>2
      <4>6. g.stk = f.stk  BY <3>2, <3>6, <3>10, <3>13, <3>14, <3>15
      <4>7. g.loc = u.loc  BY <3>1, <3>2, <3>6, <3>10
      <4> QED  BY <4>5, <4>6, <4>7
    <3>17. Touched(u, f, g, c, {"rbx"})
      <4>1. \A s \in Regs \ {"rbx"} : g.reg[s] = u.reg[s]
        BY <3>0, <3>1, <3>2, <3>6, <3>10
      <4>2. g.slots = u.slots  BY <3>1, <3>2, <3>6, <3>10
      <4> QED  BY <3>6, <3>16, <4>1, <4>2 DEF Touched, Survives
    <3>18. Touched(u, f, t, c, {"rbx"}) /\ HasVal(t, u.loc, c)  BY <1>2, <3>17, TouchWrite
    <3>19. Borrowable(u, frames, "rbx")  BY <1>5, <1>9, <3>13 DEF Borrowable
    <3> HIDE DEF t
    <3>20. Good(GenPopReg(t, "rbx", Busy(u, "rbx")), O \cup {c}, frames, h, S, ({} \cup {c}) \ {c})
      <4>1. c \in O \cup {c} /\ u.loc[c] # "rbx"  BY <3>5, <3>12
      <4> QED  BY <1>0, <3>12, <3>18, <3>19, <4>1, OneBack DEF f
    <3>21. Emit(GenPopReg(t, "rbx", Busy(u, "rbx")), {Arg2}, Append(Below(1), c))
      <4>1. Busy(u, "rbx") = Busy(gen, "rbx")  BY <3>13 DEF Busy
      <4> QED  BY <2>3, <3>7, <4>1 DEF t
    <3>22. /\ ({} \cup {c}) \ {c} \subseteq {Arg2} /\ {Arg2} \in SUBSET (O \cup {c})
           /\ (O \ {Arg2}) \cup {c} = (O \cup {c}) \ {Arg2}
      BY <1>3, <1>6
    <3> QED  BY <1>7, <3>20, <3>21, <3>22, EmitInv
  <2> QED  BY <2>1, <2>2, <2>3
<1> QED  BY <1>8, <1>9

(* OP_SHL, OP_SHR *)
LEMMA ShiftInv ==
  ASSUME Situations = {}, GenInv, Shift
  PROVE  GenInv'
<1>0. /\ operands \in Seq(Cgts) /\ Distinct(operands) /\ gen \in GenType /\ Len(operands) >= 2
      /\ "rcx" \in Regs
  BY Start, Numbers DEF Shift
<1>1. PICK h, S : Good(gen, ToSet(operands), frames, h, S, {})  BY Start
<1> DEFINE O == ToSet(operands)
           inside == gen.loc[Arg2] = "rcx"
           from == {Arg1, Arg2}
           count == IF inside THEN gen
                    ELSE MovToReg(ReserveReg(gen, "rcx"), "rcx", Content(gen, Arg2))
           w == [a \in from |-> IF a = Arg2 THEN count.reg["rcx"] ELSE Content(count, a)]
           v == Computed(Arg1, w, from)
<1>2. Arg1 \in O /\ Arg1 \in Cgts /\ Arg1 # Arg2 /\ operands # <<>>  BY <1>0, LastOps
<1>3. /\ Arg2 \in O /\ Below(1) \in Seq(Cgts) /\ Distinct(Below(1))
      /\ ToSet(Below(1)) = O \ {Arg2}
  BY <1>0, <1>2, LastOp
<1>4. \/ Stop("assert") \/ Stop("rejected")
      \/ /\ gen.loc[Arg1] # "rcx" /\ (inside \/ ~Busy(gen, "rcx"))
         /\ Allows("scratch", "rcx" \in Pushed)
         /\ Emit(PopReg(Update(count, Arg1, v), "rcx"), {Arg2}, Below(1))
  BY DEF Shift
<1>5. CASE Stop("assert") \/ Stop("rejected")  BY <1>5, StopInv
<1>6. CASE /\ gen.loc[Arg1] # "rcx" /\ (inside \/ ~Busy(gen, "rcx"))
           /\ Allows("scratch", "rcx" \in Pushed)
           /\ Emit(PopReg(Update(count, Arg1, v), "rcx"), {Arg2}, Below(1))
  <2>1. "rcx" \notin PushedBy(frames)  BY <1>6, Covered DEF Pushed, PushedBy
  <2>2. /\ Content(gen, Arg1) = Val(Arg1) /\ Content(gen, Arg2) = Val(Arg2)
        /\ Val(Arg2) \in Values /\ HasVal(gen, gen.loc, Arg1)
    <3>1. Arg2 \in Cgts  BY <1>1, <1>3, HasContent
    <3> QED  BY <1>1, <1>2, <1>3, <3>1, HasContent, ValueFacts
  <2>3. w[Arg1] = Content(count, Arg1) /\ w[Arg2] = count.reg["rcx"]
    <3> HIDE DEF count
    <3> QED  BY <1>2
  <2>4. ASSUME Content(count, Arg1) = Val(Arg1), count.reg["rcx"] = Val(Arg2)
        PROVE  v = Val(Arg1)
    <3>1. \A a \in from : w[a] = Val(a)  BY <2>3, <2>4
    <3> HIDE DEF w, from
    <3> QED  BY <3>1, ComputedIs
  <2>5. CASE inside
    <3>1. count = gen /\ gen.reg["rcx"] = Val(Arg2)  BY <1>0, <2>2, <2>5 DEF Content
    <3>2. v = Val(Arg1)  BY <2>2, <2>4, <3>1
    <3> DEFINE u == Update(gen, Arg1, Val(Arg1))
    <3>3. Good(u, O, frames, h, S, {} \ {Arg1})  BY <1>1, <1>2, UpdateGood
    <3>4. u.loc = gen.loc
      <4>1. {Arg1} \in SUBSET Cgts /\ Val(Arg1) \in Values  BY <1>2, ValueFacts
      <4>2. PICK f \in GenType : f = Forget(gen, {Arg1}) /\ f.loc = gen.loc
        BY <1>0, <4>1, ForgetFields
      <4>3. Write(f, Arg1, Val(Arg1)).loc = f.loc  BY <1>2, <4>1, WriteFields
      <4> QED  BY <4>2, <4>3 DEF Update
    <3> HIDE DEF u
    <3>5. TopS(u.lrs["rcx"]) = Arg2
      <4>1. Arg2 \in O /\ u.loc[Arg2] = "rcx"  BY <1>3, <2>5, <3>4
      <4> QED  BY <1>0, <3>3, <4>1, HasContent
    <3>6. Good(u, O, frames, h, S, {})
      <4>1. {} \ {Arg1} = {}  OBVIOUS
      <4> QED  BY <3>3, <4>1
    <3>7. Good(PopReg(u, "rcx"), O \ {Arg2}, frames, h, S, {})
      BY <1>0, <1>3, <2>1, <3>5, <3>6, PopGood
    <3>8. Emit(PopReg(u, "rcx"), {Arg2}, Below(1))
      <4>1. Update(count, Arg1, v) = u  BY <3>1, <3>2 DEF u
      <4> HIDE DEF v, count
      <4> QED  BY <1>6, <4>1
    <3>9. {Arg2} \in SUBSET O /\ ToSet(Below(1)) = (O \ {Arg2}) \ {Arg2}  BY <1>3
    <3> QED  BY <1>3, <3>7, <3>8, <3>9, EmitDropped
  <2>6. CASE ~inside
    <3>1. ~Busy(gen, "rcx")  BY <1>6, <2>6
    <3> DEFINE e == GenReserveReg(gen, "rcx")
               m == MovToReg(e, "rcx", Val(Arg2))
               t == Update(m, Arg1, Val(Arg1))
    <3>2. e = ReserveReg(gen, "rcx")
      <4>1. ReserveReg(gen, "rcx") = [gen EXCEPT !.lrs = [gen.lrs EXCEPT !["rcx"] =
              Append(IF gen.lrs["rcx"] = <<>> THEN gen.lrs["rcx"] ELSE Front(gen.lrs["rcx"]), RESERVED)]]
        BY <3>1 DEF ReserveReg, UpdateReg
      <4>2. e = [ReserveReg(gen, "rcx") EXCEPT !.stk = ReserveReg(gen, "rcx").stk]
        BY <3>1 DEF GenReserveReg
      <4> HIDE DEF e
      <4>3. PICK y : ReserveReg(gen, "rcx") = [gen EXCEPT !.lrs = y]  BY <4>1
      <4>4. gen = [lrs |-> gen.lrs, loc |-> gen.loc, reg |-> gen.reg, slots |-> gen.slots,
                   stk |-> gen.stk]
        BY <1>0 DEF GenType
      <4>5. ReserveReg(gen, "rcx") = [lrs |-> y, loc |-> gen.loc, reg |-> gen.reg,
                                      slots |-> gen.slots, stk |-> gen.stk]
        BY <4>3, <4>4
      <4> QED  BY <4>2, <4>5
    <3>3. /\ e \in GenType /\ e.loc = gen.loc /\ e.reg = gen.reg /\ e.slots = gen.slots
      BY <1>0, BorrowStack
    <3>4. count = m  BY <2>2, <2>6, <3>2
    <3> HIDE DEF e
    <3>5. Touched(gen, e, e, Arg1, {"rcx"})  BY <3>3, TouchStart
    <3>6. /\ Touched(gen, e, m, Arg1, {"rcx"})
          /\ m.reg["rcx"] = Val(Arg2) /\ m.slots = e.slots
          /\ \A s \in Regs \ {"rcx"} : m.reg[s] = e.reg[s]
      BY <1>0, <2>2, <3>5, TouchMov
    <3> HIDE DEF m, count
    <3>7. Content(m, Arg1) = Val(Arg1)
      <4>1. m.loc = gen.loc  BY <3>6 DEF Touched
      <4>2. gen.loc[Arg1] \in Regs => m.reg[gen.loc[Arg1]] = gen.reg[gen.loc[Arg1]]
        BY <1>6, <3>3, <3>6
      <4> QED  BY <2>2, <3>3, <3>6, <4>1, <4>2 DEF Content, HasVal
    <3>8. v = Val(Arg1)
      <4> HIDE DEF v
      <4> QED  BY <2>4, <3>4, <3>6, <3>7
    <3>9. Touched(gen, e, t, Arg1, {"rcx"}) /\ HasVal(t, gen.loc, Arg1)
      <4>1. Touched(gen, e, Forget(m, {Arg1}), Arg1, {"rcx"})  BY <1>2, <3>6, TouchForget
      <4> QED  BY <1>2, <4>1, TouchWrite DEF Update
    <3> HIDE DEF t
    <3>10. Good(GenPopReg(t, "rcx", Busy(gen, "rcx")), O, frames, h, S, {} \ {Arg1})
      <4>1. Borrowable(gen, frames, "rcx")  BY <2>1 DEF Borrowable
      <4> QED  BY <1>0, <1>1, <1>2, <1>6, <3>9, <4>1, OneBack DEF e
    <3>11. GenPopReg(t, "rcx", Busy(gen, "rcx")) = PopReg(t, "rcx")  BY <3>1 DEF GenPopReg
    <3>12. Emit(PopReg(t, "rcx"), {Arg2}, Below(1))
      <4>1. Update(count, Arg1, v) = t  BY <3>4, <3>8 DEF t
      <4> HIDE DEF v
      <4> QED  BY <1>6, <4>1
    <3>13. {} \ {Arg1} \subseteq {Arg2} /\ {Arg2} \in SUBSET O  BY <1>3
    <3> HIDE DEF O
    <3> QED  BY <1>3, <3>10, <3>11, <3>12, <3>13, EmitInv
  <2> QED  BY <2>5, <2>6
<1> QED  BY <1>4, <1>5, <1>6

(* A temporary is read where it was. *)
LEMMA SameContent ==
  ASSUME NEW g, NEW t, NEW a, t.loc = g.loc, t.slots = g.slots,
         g.loc[a] \in Regs => t.reg[g.loc[a]] = g.reg[g.loc[a]]
  PROVE  Content(t, a) = Content(g, a)
BY DEF Content

(* mul with one operand *)
LEMMA OneOpMulInv ==
  ASSUME Situations = {}, GenInv, OneOpMul
  PROVE  GenInv'
<1>0. /\ operands \in Seq(Cgts) /\ Distinct(operands) /\ gen \in GenType /\ Len(operands) >= 2
      /\ "rax" \in Regs /\ "rdx" \in Regs
  BY Start, Numbers DEF OneOpMul
<1>1. PICK h, S : Good(gen, ToSet(operands), frames, h, S, {})  BY Start
<1> DEFINE O == ToSet(operands)
           inside == gen.loc[Arg1] = "rax"
           g == GenReserveReg(gen, "rdx")
           f == GenReserveReg(g, "rax")
           loaded == IF inside THEN g ELSE MovToReg(f, "rax", Content(g, Arg1))
           from == {Arg1, Arg2}
           read == [a \in from |-> IF a = Arg1 THEN loaded.reg["rax"] ELSE Content(loaded, a)]
           v == Computed(Arg1, read, from)
           product == MovToReg(MovToReg(Forget(loaded, {Arg1}), "rdx", JUNK), "rax", v)
           stored == IF inside THEN product
                     ELSE GenPopReg(Write(product, Arg1, v), "rax", Busy(g, "rax"))
<1>2. Arg1 \in O /\ Arg1 \in Cgts /\ Arg1 # Arg2 /\ operands # <<>>  BY <1>0, LastOps
<1>3. /\ Arg2 \in O /\ Below(1) \in Seq(Cgts) /\ Distinct(Below(1))
      /\ ToSet(Below(1)) = O \ {Arg2}
  BY <1>0, <1>2, LastOp
<1>4. Emit(GenPopReg(stored, "rdx", Busy(gen, "rdx")), {Arg2}, Below(1))  BY DEF OneOpMul
<1>5. /\ gen.loc[Arg2] # "rax" /\ gen.loc[Arg1] # "rdx"
      /\ Borrowable(gen, frames, "rdx") /\ (~inside => Borrowable(gen, frames, "rax"))
  <2>1. /\ Allows("mulrax", gen.loc[Arg2] = "rax") /\ Allows("rdx", gen.loc[Arg1] = "rdx")
        /\ Allows("scratch", Uncovers("rdx") \/ (gen.loc[Arg1] # "rax" /\ Uncovers("rax")))
    BY DEF OneOpMul
  <2> QED  BY <2>1, Covered
<1>6. /\ Content(gen, Arg1) = Val(Arg1) /\ Content(gen, Arg2) = Val(Arg2)
      /\ Val(Arg1) \in Values /\ JUNK \in Values
  BY <1>1, <1>2, <1>3, HasContent, ValueFacts
<1>7. g \in GenType /\ g.loc = gen.loc /\ g.reg = gen.reg /\ g.slots = gen.slots
  BY <1>0, BorrowStack
<1> HIDE DEF g
<1>8. f \in GenType /\ f.loc = gen.loc /\ f.reg = gen.reg /\ f.slots = gen.slots
  <2>1. f \in GenType /\ f.loc = g.loc /\ f.reg = g.reg /\ f.slots = g.slots
    BY <1>0, <1>7, BorrowStack
  <2> HIDE DEF f
  <2> QED  BY <1>7, <2>1
<1> HIDE DEF f
<1>9. Content(g, Arg1) = Val(Arg1) /\ Content(g, Arg2) = Val(Arg2)
  <2>1. Content(g, Arg1) = Content(gen, Arg1) /\ Content(g, Arg2) = Content(gen, Arg2)
    BY <1>7, SameContent
  <2> QED  BY <1>6, <2>1
<1>10. ASSUME loaded.reg["rax"] = Val(Arg1), Content(loaded, Arg2) = Val(Arg2)
       PROVE  v = Val(Arg1)
  <2> HIDE DEF loaded
  <2>1. \A a \in from : read[a] = Val(a)  BY <1>2, <1>10
  <2> HIDE DEF read, from
  <2> QED  BY <2>1, ComputedIs
<1>11. {} \ {Arg1} \subseteq {Arg2} /\ {Arg2} \in SUBSET O  BY <1>3
<1>12. CASE inside
  <2>1. loaded = g  BY <1>12
  <2>2. g.reg["rax"] = Val(Arg1)  BY <1>0, <1>7, <1>9, <1>12 DEF Content
  <2>3. v = Val(Arg1)  BY <1>9, <1>10, <2>1, <2>2
  <2>4. Touched(gen, g, g, Arg1, {"rdx"})  BY <1>7, TouchStart
  <2>5. Touched(gen, g, Forget(g, {Arg1}), Arg1, {"rdx"})  BY <1>2, <2>4, TouchForget
  <2>6. Touched(gen, g, MovToReg(Forget(g, {Arg1}), "rdx", JUNK), Arg1, {"rdx"})
    BY <1>0, <1>6, <2>5, TouchMov
  <2> DEFINE t == MovToReg(MovToReg(Forget(g, {Arg1}), "rdx", JUNK), "rax", Val(Arg1))
  <2>7. Touched(gen, g, t, Arg1, {"rdx"}) /\ t.reg["rax"] = Val(Arg1)
    BY <1>0, <1>6, <1>12, <2>6, TouchMov
  <2>8. stored = t
    <3> HIDE DEF loaded, v
    <3> QED  BY <1>12, <2>1, <2>3
  <2> HIDE DEF t, stored
  <2>9. HasVal(t, gen.loc, Arg1)  BY <1>0, <1>12, <2>7 DEF HasVal
  <2>10. Good(GenPopReg(t, "rdx", Busy(gen, "rdx")), O, frames, h, S, {} \ {Arg1})
    BY <1>0, <1>1, <1>2, <1>5, <2>7, <2>9, OneBack DEF g
  <2> HIDE DEF O
  <2> QED  BY <1>3, <1>4, <1>11, <2>8, <2>10, EmitInv
<1>13. CASE ~inside
  <2> DEFINE m == MovToReg(f, "rax", Val(Arg1))
             k == MovToReg(MovToReg(Forget(m, {Arg1}), "rdx", JUNK), "rax", Val(Arg1))
             t == Write(k, Arg1, Val(Arg1))
  <2>1. loaded = m  BY <1>9, <1>13
  <2>2. Touched(gen, f, f, Arg1, {"rdx", "rax"})  BY <1>8, TouchStart
  <2>3. /\ Touched(gen, f, m, Arg1, {"rdx", "rax"})
        /\ m.reg["rax"] = Val(Arg1) /\ m.slots = f.slots
        /\ \A s \in Regs \ {"rax"} : m.reg[s] = f.reg[s]
    BY <1>0, <1>6, <2>2, TouchMov
  <2> HIDE DEF m
  <2>4. Content(m, Arg2) = Val(Arg2)
    <3>1. m.loc = gen.loc /\ m.slots = gen.slots  BY <1>8, <2>3 DEF Touched
    <3>2. gen.loc[Arg2] \in Regs => m.reg[gen.loc[Arg2]] = gen.reg[gen.loc[Arg2]]
      BY <1>5, <1>8, <2>3
    <3>3. Content(m, Arg2) = Content(gen, Arg2)  BY <3>1, <3>2, SameContent
    <3> QED  BY <1>6, <3>3
  <2>5. v = Val(Arg1)
    <3> HIDE DEF loaded, v
    <3> QED  BY <1>10, <2>1, <2>3, <2>4
  <2>6. Touched(gen, f, Forget(m, {Arg1}), Arg1, {"rdx", "rax"})  BY <1>2, <2>3, TouchForget
  <2>7. Touched(gen, f, MovToReg(Forget(m, {Arg1}), "rdx", JUNK), Arg1, {"rdx", "rax"})
    BY <1>0, <1>6, <2>6, TouchMov
  <2>8. Touched(gen, f, k, Arg1, {"rdx", "rax"})  BY <1>0, <1>6, <2>7, TouchMov
  <2>9. product = k
    <3> HIDE DEF loaded, v
    <3> QED  BY <2>1, <2>5
  <2> HIDE DEF k, product
  <2>10. Touched(gen, f, t, Arg1, {"rdx", "rax"}) /\ HasVal(t, gen.loc, Arg1)
    BY <1>2, <2>8, TouchWrite
  <2>11. stored = GenPopReg(t, "rax", Busy(g, "rax"))
    <3> HIDE DEF v
    <3> QED  BY <1>13, <2>5, <2>9
  <2> HIDE DEF t, stored
  <2>12. Good(GenPopReg(GenPopReg(t, "rax", Busy(g, "rax")), "rdx", Busy(gen, "rdx")),
              O, frames, h, S, {} \ {Arg1})
    <3>1. "rax" # "rdx" /\ gen.loc[Arg1] # "rax" /\ gen.loc[Arg1] # "rdx"  BY <1>5, <1>13
    <3> QED  BY <1>0, <1>1, <1>2, <1>5, <1>13, <2>10, <3>1, TwoBack DEF f, g
  <2> HIDE DEF O
  <2> QED  BY <1>3, <1>4, <1>11, <2>11, <2>12, EmitInv
<1> QED  BY <1>12, <1>13

(* div with one operand *)
LEMMA OneOpDivInv ==
  ASSUME Situations = {}, GenInv, NEW mod \in BOOLEAN, OneOpDiv(mod)
  PROVE  GenInv'
<1>0. /\ operands \in Seq(Cgts) /\ Distinct(operands) /\ gen \in GenType /\ Len(operands) >= 2
      /\ "rax" \in Regs /\ "rdx" \in Regs
  BY Start, Numbers DEF OneOpDiv
<1>1. PICK h, S : Good(gen, ToSet(operands), frames, h, S, {})  BY Start
<1> DEFINE O == ToSet(operands)
           inside == gen.loc[Arg1] = "rax"
           swap == gen.loc[Arg2] = "rax"
           g == GenReserveReg(gen, "rdx")
           f == GenReserveReg(g, "rax")
           loaded == MovToReg(f, "rax", Content(g, Arg1))
           swapped == GenPop(SwapLoc(PopReg(loaded, "rax"), Arg1, Arg2), gen.loc[Arg1])
           base == IF inside THEN g ELSE IF swap THEN swapped ELSE loaded
           ready == MovToReg(base, "rdx", JUNK)
           from == {Arg1, Arg2}
           read == [a \in from |-> IF a = Arg1 THEN ready.reg["rax"] ELSE Content(ready, a)]
           v == Computed(Arg1, read, from)
           divided == MovToReg(MovToReg(Forget(ready, {Arg1}), "rax", IF mod THEN JUNK ELSE v),
                               "rdx", IF mod THEN v ELSE JUNK)
           stored == Write(divided, Arg1, v)
           restored == IF stored.loc[Arg1] = "rax" THEN stored
                       ELSE GenPopReg(stored, "rax", Busy(g, "rax"))
           E == IF inside THEN g ELSE f
           R == IF inside THEN {"rdx"} ELSE {"rdx", "rax"}
<1>2. Arg1 \in O /\ Arg1 \in Cgts /\ Arg1 # Arg2 /\ operands # <<>>  BY <1>0, LastOps
<1>3. /\ Arg2 \in O /\ Below(1) \in Seq(Cgts) /\ Distinct(Below(1))
      /\ ToSet(Below(1)) = O \ {Arg2}
  BY <1>0, <1>2, LastOp
<1>4. \/ Stop("assert")
      \/ Emit(GenPopReg(restored, "rdx", Busy(gen, "rdx")), {Arg2}, Below(1))
  BY DEF OneOpDiv
<1>5. /\ ~swap /\ gen.loc[Arg1] # "rdx" /\ gen.loc[Arg2] # "rdx"
      /\ Borrowable(gen, frames, "rdx") /\ (~inside => Borrowable(gen, frames, "rax"))
  <2>1. /\ Allows("divswap", gen.loc[Arg2] = "rax")
        /\ Allows("rdx", "rdx" \in {gen.loc[Arg1], gen.loc[Arg2]})
        /\ Allows("scratch", Uncovers("rdx") \/ (gen.loc[Arg1] # "rax" /\ Uncovers("rax")))
    BY DEF OneOpDiv
  <2> QED  BY <2>1, Covered
<1>6. /\ Content(gen, Arg1) = Val(Arg1) /\ Content(gen, Arg2) = Val(Arg2)
      /\ Val(Arg1) \in Values /\ JUNK \in Values
  BY <1>1, <1>2, <1>3, HasContent, ValueFacts
<1>7. g \in GenType /\ g.loc = gen.loc /\ g.reg = gen.reg /\ g.slots = gen.slots
  BY <1>0, BorrowStack
<1> HIDE DEF g
<1>8. f \in GenType /\ f.loc = gen.loc /\ f.reg = gen.reg /\ f.slots = gen.slots
  <2>1. f \in GenType /\ f.loc = g.loc /\ f.reg = g.reg /\ f.slots = g.slots
    BY <1>0, <1>7, BorrowStack
  <2> HIDE DEF f
  <2> QED  BY <1>7, <2>1
<1> HIDE DEF f
<1>9. Content(g, Arg1) = Val(Arg1)
  <2>1. Content(g, Arg1) = Content(gen, Arg1)  BY <1>7, SameContent
  <2> QED  BY <1>6, <2>1
<1>10. base = IF inside THEN g ELSE MovToReg(f, "rax", Val(Arg1))  BY <1>5, <1>9
<1> HIDE DEF base
<1>11. /\ Touched(gen, E, base, Arg1, R) /\ base.slots = gen.slots
       /\ base.reg["rax"] = Val(Arg1)
       /\ \A s \in Regs \ {"rax"} : base.reg[s] = gen.reg[s]
  <2>1. CASE inside
    <3>1. Touched(gen, g, g, Arg1, {"rdx"})  BY <1>7, TouchStart
    <3>2. g.reg["rax"] = Val(Arg1)  BY <1>0, <1>7, <1>9, <2>1 DEF Content
    <3> QED  BY <1>7, <1>10, <2>1, <3>1, <3>2
  <2>2. CASE ~inside
    <3>1. Touched(gen, f, f, Arg1, {"rdx", "rax"})  BY <1>8, TouchStart
    <3> DEFINE m == MovToReg(f, "rax", Val(Arg1))
    <3>2. /\ Touched(gen, f, m, Arg1, {"rdx", "rax"})
          /\ m.reg["rax"] = Val(Arg1) /\ m.slots = f.slots
          /\ \A s \in Regs \ {"rax"} : m.reg[s] = f.reg[s]
      BY <1>0, <1>6, <3>1, TouchMov
    <3> HIDE DEF m
    <3>3. base = m  BY <1>10, <2>2 DEF m
    <3> QED  BY <1>8, <2>2, <3>2, <3>3
  <2> QED  BY <2>1, <2>2
<1>12. "rdx" \in R /\ ("rax" \in R \/ "rax" = gen.loc[Arg1])  OBVIOUS
<1> HIDE DEF E, R
<1>13. /\ Touched(gen, E, ready, Arg1, R) /\ ready.slots = base.slots
       /\ \A s \in Regs \ {"rdx"} : ready.reg[s] = base.reg[s]
  BY <1>0, <1>6, <1>11, <1>12, TouchMov
<1> HIDE DEF ready
<1>14. v = Val(Arg1)
  <2>1. ready.reg["rax"] = Val(Arg1)  BY <1>0, <1>11, <1>13
  <2>2. Content(ready, Arg2) = Val(Arg2)
    <3>1. ready.loc = gen.loc /\ ready.slots = gen.slots  BY <1>11, <1>13 DEF Touched
    <3>2. gen.loc[Arg2] \in Regs => ready.reg[gen.loc[Arg2]] = gen.reg[gen.loc[Arg2]]
      BY <1>5, <1>11, <1>13
    <3>3. Content(ready, Arg2) = Content(gen, Arg2)  BY <3>1, <3>2, SameContent
    <3> QED  BY <1>6, <3>3
  <2>3. \A a \in from : read[a] = Val(a)  BY <1>2, <2>1, <2>2
  <2> HIDE DEF read, from
  <2> QED  BY <2>3, ComputedIs
<1> HIDE DEF v
<1>15. Touched(gen, E, Forget(ready, {Arg1}), Arg1, R)  BY <1>2, <1>13, TouchForget
<1> DEFINE x == IF mod THEN JUNK ELSE v
           y == IF mod THEN v ELSE JUNK
<1>16. x \in Values /\ y \in Values  BY <1>6, <1>14
<1> HIDE DEF x, y
<1>17. Touched(gen, E, MovToReg(Forget(ready, {Arg1}), "rax", x), Arg1, R)
  BY <1>0, <1>12, <1>15, <1>16, TouchMov
<1>18. Touched(gen, E, MovToReg(MovToReg(Forget(ready, {Arg1}), "rax", x), "rdx", y), Arg1, R)
  BY <1>0, <1>12, <1>16, <1>17, TouchMov
<1>19. Touched(gen, E, divided, Arg1, R)  BY <1>18 DEF x, y
<1> HIDE DEF divided
<1>20. Touched(gen, E, stored, Arg1, R) /\ HasVal(stored, gen.loc, Arg1)
  BY <1>2, <1>14, <1>19, TouchWrite
<1> HIDE DEF stored
<1>21. stored.loc = gen.loc  BY <1>20 DEF Touched
<1>22. Good(GenPopReg(restored, "rdx", Busy(gen, "rdx")), O, frames, h, S, {} \ {Arg1})
  <2>1. CASE inside
    <3>1. restored = stored /\ Touched(gen, g, stored, Arg1, {"rdx"})
      BY <1>20, <1>21, <2>1 DEF E, R
    <3> HIDE DEF restored
    <3> QED  BY <1>0, <1>1, <1>2, <1>5, <1>20, <3>1, OneBack DEF g
  <2>2. CASE ~inside
    <3>1. restored = GenPopReg(stored, "rax", Busy(g, "rax"))  BY <1>21, <2>2
    <3>2. Touched(gen, f, stored, Arg1, {"rdx", "rax"})  BY <1>20, <2>2 DEF E, R
    <3>3. "rax" # "rdx" /\ gen.loc[Arg1] # "rax" /\ gen.loc[Arg1] # "rdx"  BY <1>5, <2>2
    <3> HIDE DEF restored
    <3> QED  BY <1>0, <1>1, <1>2, <1>5, <1>20, <2>2, <3>1, <3>2, <3>3, TwoBack DEF f, g
  <2> QED  BY <2>1, <2>2
<1>23. {} \ {Arg1} \subseteq {Arg2} /\ {Arg2} \in SUBSET O  BY <1>3
<1> HIDE DEF restored, O
<1> QED  BY <1>3, <1>4, <1>22, <1>23, EmitInv, StopInv

-----------------------------------------------------------------------------
(* Frames are opened and closed.                                            *)

(* Up to level k the frames are the same, and at most as many wait. *)
Agree(O, P, fs, ft, h, t, k, X, Z) ==
  /\ k \in Nat
  /\ \A j \in 1 .. k : ft[j] = fs[j]
  /\ \A l \in 0 .. k : t[l] = h[l] /\ Wait(P, ft, l) \ Z \subseteq Wait(O, fs, l) \ X

(* What is intact at level k depends on the frames up to k only. *)
LEMMA View ==
  ASSUME NEW m, NEW p, p.reg = m.reg, p.slots = m.slots, p.stk = m.stk,
         NEW loc, NEW O, NEW P, NEW fs, NEW ft, NEW h, NEW t, NEW k, NEW X, NEW Z,
         Intact(m, loc, O, fs, h, k, X), Agree(O, P, fs, ft, h, t, k, X, Z)
  PROVE  Intact(p, loc, P, ft, t, k, Z)
<1>0. /\ k \in Nat /\ \A j \in 1 .. k : ft[j] = fs[j]
      /\ \A l \in 0 .. k : t[l] = h[l] /\ Wait(P, ft, l) \ Z \subseteq Wait(O, fs, l) \ X
  BY DEF Agree
<1>1. \A l \in 0 .. k, j \in 0 .. k : Open(ft, l, j) <=> Open(fs, l, j)
  BY <1>0 DEF Open
<1>2. ASSUME NEW l \in 0 .. k, NEW r \in Regs, NEW v \in Values, Valued(loc, P, ft, Z, l, r, v)
      PROVE  ValueAt(p, ft, t, l, k, r, v)
  <2>1. l >= 1 => ft[l] = fs[l]  BY <1>0
  <2>2. Valued(loc, O, fs, X, l, r, v)  BY <1>0, <1>2, <2>1 DEF Valued
  <2>3. ValueAt(m, fs, h, l, k, r, v)  BY <2>2 DEF Intact
  <2>4. \A j \in l + 1 .. k : j \in 1 .. k /\ j - 1 \in 0 .. k /\ ft[j] = fs[j] /\ t[j - 1] = h[j - 1]
    BY <1>0
  <2>5. k \in 0 .. k  BY <1>0
  <2> QED  BY <1>1, <2>3, <2>4, <2>5 DEF ValueAt
<1>3. k \in 0 .. k /\ Len(p.stk) = t[k]  BY <1>0 DEF Intact
<1>4. \A l \in 0 .. k : \A c \in Wait(P, ft, l) \ Z : loc[c] = "stack" => c \in p.slots
  BY <1>0 DEF Intact
<1>5. \A l \in 1 .. k : \A i \in 1 .. ft[l].args :
        i > Len(IntPParam) => p.stk[t[l] - ft[l].args + i] = ArgVal(l, i)
  <2>1. \A l \in 1 .. k : l \in 0 .. k /\ ft[l] = fs[l] /\ t[l] = h[l]  BY <1>0
  <2> QED  BY <2>1 DEF Intact
<1> QED  BY <1>2, <1>3, <1>4, <1>5 DEF Intact

(* ft is fs and one more frame f, which h and S account for in t and U. *)
Extends(fs, f, h, S, ft, t, U) ==
  /\ ft \in Seq(FrameType) /\ Len(ft) = Len(fs) + 1
  /\ \A j \in 1 .. Len(fs) : ft[j] = fs[j]
  /\ ft[Len(fs) + 1] = f
  /\ \A l \in 0 .. Len(fs) : t[l] = h[l] /\ U[l] = S[l]
  /\ t[Len(fs) + 1] = h[Len(fs)] + Size(f)
  /\ \A r \in Regs : U[Len(fs) + 1][r] = S[Len(fs)][r] + Levels(f, r)

(* Who waits at the levels, before and after. *)
Waiting(fs, f, ft, O, P) ==
  /\ \A l \in 0 .. Len(fs) - 1 : Own(P, ft, l) = Own(O, fs, l) /\ Wait(P, ft, l) = Wait(O, fs, l)
  /\ Own(P, ft, Len(fs)) = Mine(f) /\ Wait(P, ft, Len(fs)) = ToSet(f.outer)
  /\ Own(P, ft, Len(fs) + 1) = P /\ Wait(P, ft, Len(fs) + 1) = P
  /\ Own(O, fs, Len(fs)) = O /\ Wait(O, fs, Len(fs)) = O
  /\ Len(fs) \in Nat

(* They are the same below the new frame. *)
LEMMA ExtendOwn ==
  ASSUME NEW fs \in Seq(FrameType), NEW f, NEW h, NEW S, NEW ft, NEW t, NEW U,
         Extends(fs, f, h, S, ft, t, U), NEW O, NEW P
  PROVE  Waiting(fs, f, ft, O, P)
<1>0. Len(fs) \in Nat  OBVIOUS
<1>1. ASSUME NEW l \in 0 .. Len(fs) - 1
      PROVE  Own(P, ft, l) = Own(O, fs, l) /\ Wait(P, ft, l) = Wait(O, fs, l)
  <2>1. l # Len(fs) /\ l # Len(ft) /\ l + 1 \in 1 .. Len(fs)  BY <1>0 DEF Extends
  <2>2. ft[l + 1] = fs[l + 1]  BY <2>1 DEF Extends
  <2> QED  BY <2>1, <2>2 DEF Own, Wait
<1>2. Len(fs) # Len(ft) /\ ft[Len(fs) + 1] = f /\ Len(ft) = Len(fs) + 1  BY <1>0 DEF Extends
<1> QED  BY <1>0, <1>1, <1>2 DEF Waiting, Own, Wait

(* A frame is opened: the shape. *)
LEMMA OpenShape ==
  ASSUME NEW O, NEW fs, NEW h, NEW S, Shape(O, fs, h, S), Len(fs) < MaxDepth,
         NEW f \in FrameType, FrameOK(f), Mine(f) = O
  PROVE  \E t, U : Extends(fs, f, h, S, PushS(fs, f), t, U) /\ Shape({}, PushS(fs, f), t, U)
<1>0. /\ fs \in Seq(FrameType) /\ Len(fs) \in Nat /\ Sums(fs, h) /\ Counts(fs, S)
      /\ O \in SUBSET Cgts
  BY DEF Shape
<1> DEFINE n == Len(fs)
           t == [l \in 0 .. n + 1 |-> IF l = n + 1 THEN h[n] + Size(f) ELSE h[l]]
           U == [l \in 0 .. n + 1 |-> IF l = n + 1 THEN [r \in Regs |-> S[n][r] + Levels(f, r)]
                                      ELSE S[l]]
<1>1. PICK ft \in Seq(FrameType) :
        ft = PushS(fs, f) /\ Len(ft) = n + 1 /\ ft[n + 1] = f /\ \A j \in 1 .. n : ft[j] = fs[j]
  BY <1>0, PushFacts
<1>2. h \in [0 .. n -> Nat] /\ S \in [0 .. n -> [Regs -> Nat]]  BY <1>0 DEF Sums, Counts
<1>3. Size(f) \in Nat /\ \A r : Levels(f, r) \in Nat
  <2>1. Size(f) \in Nat /\ \A r : Levels(f, r) \in {0, 1, 2}  BY FrameParts
  <2> QED  BY <2>1
<1>4. /\ t[n + 1] = h[n] + Size(f) /\ \A r \in Regs : U[n + 1][r] = S[n][r] + Levels(f, r)
      /\ \A l \in 0 .. n : t[l] = h[l] /\ U[l] = S[l]
  <2>1. n + 1 \in 0 .. n + 1 /\ \A l \in 0 .. n : l \in 0 .. n + 1 /\ l # n + 1  BY <1>0
  <2> QED  BY <2>1
<1>5. t \in [0 .. n + 1 -> Nat] /\ U \in [0 .. n + 1 -> [Regs -> Nat]]
  <2>1. n \in 0 .. n /\ \A l \in 0 .. n + 1 : l # n + 1 => l \in 0 .. n  BY <1>0
  <2>2. h[n] + Size(f) \in Nat  BY <1>2, <1>3, <2>1
  <2>3. [r \in Regs |-> S[n][r] + Levels(f, r)] \in [Regs -> Nat]
    <3>1. \A r \in Regs : S[n][r] \in Nat  BY <1>2, <2>1
    <3>2. \A r \in Regs : S[n][r] + Levels(f, r) \in Nat  BY <1>3, <3>1
    <3> QED  BY <3>2
  <2> QED  BY <1>2, <2>1, <2>2, <2>3
<1> HIDE DEF t, U
<1>6. Extends(fs, f, h, S, ft, t, U)  BY <1>1, <1>4 DEF Extends
<1>7. Sums(ft, t)
  <2>1. t[0] = 0  BY <1>0, <1>4 DEF Sums
  <2>2. ASSUME NEW k \in 1 .. n + 1 PROVE t[k] = t[k - 1] + Size(ft[k])
    <3>1. CASE k = n + 1
      <4>1. k - 1 = n /\ n \in 0 .. n  BY <1>0, <3>1
      <4> QED  BY <1>1, <1>4, <3>1, <4>1
    <3>2. CASE k # n + 1
      <4>1. k \in 1 .. n /\ k \in 0 .. n /\ k - 1 \in 0 .. n  BY <1>0, <3>2
      <4> QED  BY <1>0, <1>1, <1>4, <4>1 DEF Sums
    <3> QED  BY <3>1, <3>2
  <2> QED  BY <1>1, <1>5, <2>1, <2>2 DEF Sums
<1>8. Counts(ft, U)
  <2>1. \A r \in Regs : U[0][r] = 0  BY <1>0, <1>4 DEF Counts
  <2>2. ASSUME NEW k \in 1 .. n + 1, NEW r \in Regs PROVE U[k][r] = U[k - 1][r] + Levels(ft[k], r)
    <3>1. CASE k = n + 1
      <4>1. k - 1 = n /\ n \in 0 .. n  BY <1>0, <3>1
      <4> QED  BY <1>1, <1>4, <3>1, <4>1
    <3>2. CASE k # n + 1
      <4>1. k \in 1 .. n /\ k \in 0 .. n /\ k - 1 \in 0 .. n  BY <1>0, <3>2
      <4> QED  BY <1>0, <1>1, <1>4, <4>1 DEF Counts
    <3> QED  BY <3>1, <3>2
  <2> QED  BY <1>1, <1>5, <2>1, <2>2 DEF Counts
<1>9. \A k \in 1 .. Len(ft) : FrameOK(ft[k])
  <2>1. \A k \in 1 .. n + 1 : k = n + 1 \/ k \in 1 .. n  BY <1>0
  <2>2. \A k \in 1 .. n : FrameOK(fs[k])  BY DEF Shape
  <2> QED  BY <1>1, <2>1, <2>2
<1>10. \A l, k \in 0 .. Len(ft) : l < k => Own({}, ft, l) \cap Own({}, ft, k) = {}
  <2> SUFFICES ASSUME NEW l \in 0 .. n + 1, NEW k \in 0 .. n + 1, l < k
               PROVE  Own({}, ft, l) \cap Own({}, ft, k) = {}
    BY <1>1
  <2>1. /\ \A j \in 0 .. n - 1 : Own({}, ft, j) = Own(O, fs, j)
        /\ Own({}, ft, n) = O /\ Own({}, ft, n + 1) = {} /\ Own(O, fs, n) = O
    <3>1. Waiting(fs, f, ft, O, {})  BY <1>0, <1>6, ExtendOwn
    <3> QED  BY <3>1 DEF Waiting
  <2>2. CASE k = n + 1  BY <2>1, <2>2
  <2>3. CASE k # n + 1
    <3>1. l \in 0 .. n - 1 /\ l \in 0 .. n /\ k \in 0 .. n /\ (k = n \/ k \in 0 .. n - 1)
      BY <1>0, <2>3
    <3>2. Own(O, fs, l) \cap Own(O, fs, k) = {}  BY <3>1 DEF Shape
    <3> QED  BY <2>1, <3>1, <3>2
  <2> QED  BY <2>2, <2>3
<1>11. Len(ft) =< MaxDepth  BY <1>0, <1>1, BoundAssumption
<1>12. Shape({}, ft, t, U)  BY <1>1, <1>7, <1>8, <1>9, <1>10, <1>11 DEF Shape
<1> QED  BY <1>1, <1>6, <1>12

(* A frame is closed: the shape. *)
LEMMA CloseShape ==
  ASSUME NEW O, NEW ft, NEW t, NEW U, Shape(O, ft, t, U), ft # <<>>
  PROVE  LET fs == PopS(ft)
             f  == TopS(ft)
         IN  \E h, S : Extends(fs, f, h, S, ft, t, U) /\ Shape(Mine(f) \cup O, fs, h, S)
<1>0. /\ ft \in Seq(FrameType) /\ Len(ft) \in Nat /\ Sums(ft, t) /\ Counts(ft, U)
      /\ O \in SUBSET Cgts /\ Len(ft) =< MaxDepth
  BY DEF Shape
<1>1. PICK fs \in Seq(FrameType) :
        fs = PopS(ft) /\ Len(ft) = Len(fs) + 1 /\ \A j \in 1 .. Len(ft) - 1 : fs[j] = ft[j]
  <2>1. /\ PopS(ft) \in Seq(FrameType) /\ Len(PopS(ft)) = (IF Len(ft) = 0 THEN 0 ELSE Len(ft) - 1)
        /\ \A j \in 1 .. Len(ft) - 1 : PopS(ft)[j] = ft[j]
        /\ Len(ft) >= 1
    BY <1>0, StackFacts
  <2> QED  BY <1>0, <2>1
<1> DEFINE n == Len(fs)
           h == [l \in 0 .. n |-> t[l]]
           S == [l \in 0 .. n |-> U[l]]
<1>2. n \in Nat /\ \A j \in 1 .. n : ft[j] = fs[j]
  <2>1. n \in Nat /\ Len(ft) - 1 = n  BY <1>1
  <2> QED  BY <1>1, <2>1
<1>3. PICK f \in FrameType : f = TopS(ft) /\ f = ft[n + 1]
  <2>1. TopS(ft) = ft[Len(ft)]  BY <1>0, <1>1, <1>2, TopIs
  <2>2. n + 1 \in 1 .. Len(ft)  BY <1>1, <1>2
  <2> QED  BY <1>0, <1>1, <2>1, <2>2
<1>4. t \in [0 .. n + 1 -> Nat] /\ U \in [0 .. n + 1 -> [Regs -> Nat]]
  BY <1>0, <1>1 DEF Sums, Counts
<1>5. \A l \in 0 .. n : h[l] = t[l] /\ S[l] = U[l]  OBVIOUS
<1>6. h \in [0 .. n -> Nat] /\ S \in [0 .. n -> [Regs -> Nat]]
  <2>1. \A l \in 0 .. n : l \in 0 .. n + 1  BY <1>2
  <2> QED  BY <1>4, <2>1
<1> HIDE DEF h, S
<1>7. Extends(fs, f, h, S, ft, t, U)
  <2>1. n + 1 \in 1 .. Len(ft) /\ n + 1 - 1 = n /\ n \in 0 .. n  BY <1>1, <1>2
  <2>2. t[n + 1] = h[n] + Size(f)  BY <1>0, <1>3, <1>5, <2>1 DEF Sums
  <2>3. \A r \in Regs : U[n + 1][r] = S[n][r] + Levels(f, r)  BY <1>0, <1>3, <1>5, <2>1 DEF Counts
  <2> QED  BY <1>0, <1>1, <1>2, <1>3, <1>5, <2>2, <2>3 DEF Extends
<1>8. \A k \in 1 .. n : k \in 1 .. Len(ft) /\ k \in 0 .. n /\ k - 1 \in 0 .. n /\ ft[k] = fs[k]
  BY <1>1, <1>2
<1>9. 0 \in 0 .. n /\ 0 \in 0 .. n + 1  BY <1>2
<1>10. Sums(fs, h)
  <2>1. h[0] = 0  BY <1>0, <1>5, <1>9 DEF Sums
  <2>2. \A k \in 1 .. n : h[k] = h[k - 1] + Size(fs[k])  BY <1>0, <1>5, <1>8 DEF Sums
  <2> QED  BY <1>6, <2>1, <2>2 DEF Sums
<1>11. Counts(fs, S)
  <2>1. \A r \in Regs : S[0][r] = 0  BY <1>0, <1>5, <1>9 DEF Counts
  <2>2. \A k \in 1 .. n, r \in Regs : S[k][r] = S[k - 1][r] + Levels(fs[k], r)
    BY <1>0, <1>5, <1>8 DEF Counts
  <2> QED  BY <1>6, <2>1, <2>2 DEF Counts
<1>12. \A k \in 1 .. n : FrameOK(fs[k])  BY <1>8 DEF Shape
<1> DEFINE P == Mine(f) \cup O
<1>13. P \in SUBSET Cgts  BY <1>0, <1>3, FrameParts
<1>14. Waiting(fs, f, ft, P, O)  BY <1>7, ExtendOwn
<1> HIDE DEF P
<1>15. ASSUME NEW l \in 0 .. n, NEW k \in 0 .. n, l < k PROVE Own(P, fs, l) \cap Own(P, fs, k) = {}
  <2>1. /\ l \in 0 .. n - 1 /\ l \in 0 .. Len(ft) /\ k \in 0 .. Len(ft) /\ n + 1 \in 0 .. Len(ft)
        /\ l < n + 1 /\ (k = n \/ k \in 0 .. n - 1)
    BY <1>1, <1>2, <1>15
  <2>2. /\ Own(O, ft, l) \cap Own(O, ft, k) = {} /\ Own(O, ft, l) \cap Own(O, ft, n + 1) = {}
    BY <1>15, <2>1 DEF Shape
  <2>3. Own(P, fs, l) = Own(O, ft, l) /\ Own(O, ft, n + 1) = O /\ Own(O, ft, n) = Mine(f)
        /\ Own(P, fs, n) = P /\ (k \in 0 .. n - 1 => Own(P, fs, k) = Own(O, ft, k))
    BY <1>14, <2>1 DEF Waiting
  <2>4. CASE k = n  BY <2>2, <2>3, <2>4 DEF P
  <2>5. CASE k \in 0 .. n - 1  BY <2>2, <2>3, <2>5
  <2> QED  BY <2>1, <2>4, <2>5
<1>16. n =< MaxDepth  BY <1>0, <1>1, <1>2, BoundAssumption
<1>17. Shape(P, fs, h, S)  BY <1>10, <1>11, <1>12, <1>13, <1>15, <1>16 DEF Shape
<1> QED  BY <1>1, <1>3, <1>7, <1>17 DEF P

(* The live ranges that the frame f adds to those of g give those of w. *)
Layered(g, w, f) ==
  /\ w.loc = g.loc
  /\ \A r \in Regs : /\ Len(g.lrs[r]) \in Nat
                     /\ Len(w.lrs[r]) = Len(g.lrs[r]) + Levels(f, r)
                     /\ \A i \in 1 .. Len(g.lrs[r]) : w.lrs[r][i] = g.lrs[r][i]

(* The owners below a frame have the same live ranges with and without it. *)
LEMMA LayeredTop ==
  ASSUME NEW g, NEW w, NEW f \in FrameType, Layered(g, w, f), NEW O, NEW fs, NEW h, NEW S,
         Shape(O, fs, h, S), NEW ft, NEW t, NEW U, Extends(fs, f, h, S, ft, t, U),
         NEW l \in 0 .. Len(fs), NEW r \in Regs, NEW o
  PROVE  Owner(g, fs, S, l, r, o) <=> Owner(w, ft, U, l, r, o)
<1> DEFINE a == Len(g.lrs[r])
           b == Levels(f, r)
           x == S[Len(fs)][r]
           y == S[l][r]
<1>0. Len(fs) \in Nat  BY DEF Shape
<1>1. a \in Nat /\ Len(w.lrs[r]) = a + b /\ \A i \in 1 .. a : w.lrs[r][i] = g.lrs[r][i]
  BY DEF Layered
<1>2. x \in Nat /\ y \in Nat /\ y =< x
  <2>1. Len(fs) \in l .. Len(fs)  BY <1>0
  <2> QED  BY <2>1, Growing
<1>3. b \in {0, 1, 2}  BY FrameParts
<1>4. U[Len(ft)][r] = x + b /\ U[l][r] = y  BY DEF Extends
<1>5. TopAt(g, fs, S, l, r) = a - (x - y) /\ TopAt(w, ft, U, l, r) = (a + b) - ((x + b) - y)
  BY <1>1, <1>4 DEF TopAt
<1> HIDE DEF a, b, x, y
<1>6. (a + b) - ((x + b) - y) = a - (x - y) /\ a - (x - y) =< a /\ a =< a + b
      /\ a - (x - y) \in Int
  BY <1>1, <1>2, <1>3
<1>7. a - (x - y) \in 1 .. a + b <=> a - (x - y) \in 1 .. a  BY <1>1, <1>3, <1>6
<1>8. Owner(g, fs, S, l, r, o) <=> a - (x - y) \in 1 .. a /\ g.lrs[r][a - (x - y)] = o
  BY <1>5 DEF Owner, a
<1>9. Owner(w, ft, U, l, r, o) <=> a - (x - y) \in 1 .. a + b /\ w.lrs[r][a - (x - y)] = o
  BY <1>1, <1>5, <1>6 DEF Owner
<1> QED  BY <1>1, <1>7, <1>8, <1>9

(* A frame without arguments is opened: the live ranges. *)
LEMMA OpenRanged ==
  ASSUME NEW g, NEW w, NEW f \in FrameType, Layered(g, w, f), NEW O, NEW fs, NEW h, NEW S,
         Shape(O, fs, h, S), NEW ft, NEW t, NEW U, Extends(fs, f, h, S, ft, t, U),
         Ranged(g, O, fs, S), Mine(f) = O, f.args = 0
  PROVE  Ranged(w, {}, ft, U)
<1>0. /\ fs \in Seq(FrameType) /\ Len(fs) \in Nat /\ Len(ft) = Len(fs) + 1
      /\ ft[Len(ft)] = f
  BY DEF Shape, Extends
<1>1. Waiting(fs, f, ft, O, {})  BY <1>0, ExtendOwn
<1>2. \A l \in 0 .. Len(ft) : \/ l \in 0 .. Len(fs) /\ Own({}, ft, l) = Own(O, fs, l)
                              \/ l = Len(ft) /\ Own({}, ft, l) = {}
  <2> SUFFICES ASSUME NEW l \in 0 .. Len(ft)
               PROVE  \/ l \in 0 .. Len(fs) /\ Own({}, ft, l) = Own(O, fs, l)
                      \/ l = Len(ft) /\ Own({}, ft, l) = {}
    OBVIOUS
  <2>1. l \in 0 .. Len(fs) - 1 \/ l = Len(fs) \/ l = Len(fs) + 1  BY <1>0
  <2> QED  BY <1>0, <1>1, <2>1 DEF Waiting
<1>3. ASSUME NEW r \in Regs PROVE Len(w.lrs[r]) - U[Len(ft)][r] \in {0, 1}
  <2> DEFINE a == Len(g.lrs[r])
             b == Levels(f, r)
             x == S[Len(fs)][r]
  <2>1. a \in Nat /\ Len(w.lrs[r]) = a + b  BY DEF Layered
  <2>2. b \in {0, 1, 2}  BY FrameParts
  <2>3. x \in Nat /\ a - x \in {0, 1}
    <3>1. Len(fs) \in 0 .. Len(fs) /\ Len(fs) \in Len(fs) .. Len(fs)  BY <1>0
    <3> QED  BY <3>1, Growing DEF Ranged
  <2>4. U[Len(ft)][r] = x + b  BY DEF Extends
  <2> HIDE DEF a, b, x
  <2> QED  BY <2>1, <2>2, <2>3, <2>4
<1>4. \A l \in 0 .. Len(ft) : \A c \in Own({}, ft, l) : w.loc[c] # "none"
  BY <1>2 DEF Ranged, Layered
<1>5. ASSUME NEW l \in 0 .. Len(ft), NEW r \in Regs, NEW o \in Ranges, Item(w.loc, {}, ft, l, r, o)
      PROVE  Owner(w, ft, U, l, r, o)
  <2>1. l \in 0 .. Len(fs) /\ Item(g.loc, O, fs, l, r, o)
    <3>1. CASE l = Len(ft)
      <4>1. AbiUsed(f) = {}  BY <1>0 DEF AbiUsed
      <4>2. l # Len(fs) /\ l \notin 0 .. Len(fs)  BY <1>0, <3>1
      <4> QED  BY <1>0, <1>2, <1>5, <3>1, <4>1, <4>2 DEF Item
    <3>2. CASE l # Len(ft)
      <4>1. l \in 0 .. Len(fs) /\ Own({}, ft, l) = Own(O, fs, l)  BY <1>2, <3>2
      <4>2. l >= 1 => ft[l] = fs[l]  BY <1>0, <4>1 DEF Extends
      <4> QED  BY <1>5, <4>1, <4>2 DEF Item, Layered
    <3> QED  BY <3>1, <3>2
  <2>2. Owner(g, fs, S, l, r, o)  BY <2>1 DEF Ranged
  <2> QED  BY <2>1, <2>2, LayeredTop
<1> QED  BY <1>3, <1>4, <1>5 DEF Ranged

(* A frame is closed: the live ranges.  The temporaries O of the closed     *)
(* level stay if the frame has added none.                                  *)
LEMMA CloseRanged ==
  ASSUME NEW g, NEW w, NEW f \in FrameType, Layered(g, w, f), NEW O, NEW P, NEW fs, NEW h, NEW S,
         Shape(P, fs, h, S), NEW ft, NEW t, NEW U, Extends(fs, f, h, S, ft, t, U),
         Ranged(w, O, ft, U), P = Mine(f) \cup O,
         O = {} \/ \A r \in Regs : Levels(f, r) = 0
  PROVE  Ranged(g, P, fs, S)
<1>0. /\ fs \in Seq(FrameType) /\ Len(fs) \in Nat /\ Len(ft) = Len(fs) + 1
      /\ \A l \in 0 .. Len(fs) : l \in 0 .. Len(ft) /\ l # Len(ft)
  <2>1. fs \in Seq(FrameType) /\ Len(fs) \in Nat /\ Len(ft) = Len(fs) + 1  BY DEF Shape, Extends
  <2> QED  BY <2>1
<1>1. Waiting(fs, f, ft, P, O)  BY <1>0, ExtendOwn
<1>2. \A l \in 0 .. Len(fs) : \A c \in Own(P, fs, l) :
        c \in Own(O, ft, l) \/ (l = Len(fs) /\ c \in O)
  <2> SUFFICES ASSUME NEW l \in 0 .. Len(fs), NEW c \in Own(P, fs, l)
               PROVE  c \in Own(O, ft, l) \/ (l = Len(fs) /\ c \in O)
    OBVIOUS
  <2>1. l \in 0 .. Len(fs) - 1 \/ l = Len(fs)  BY <1>0
  <2> QED  BY <1>1, <2>1 DEF Waiting
<1>3. Own(O, ft, Len(ft)) = O /\ Len(ft) \in 0 .. Len(ft)  BY <1>0, <1>1 DEF Waiting
<1>4. ASSUME NEW r \in Regs PROVE Len(g.lrs[r]) - S[Len(fs)][r] \in {0, 1}
  <2> DEFINE a == Len(g.lrs[r])
             b == Levels(f, r)
             x == S[Len(fs)][r]
  <2>1. a \in Nat /\ Len(w.lrs[r]) = a + b  BY DEF Layered
  <2>2. b \in {0, 1, 2}  BY FrameParts
  <2>3. x \in Nat
    <3>1. Len(fs) \in 0 .. Len(fs) /\ Len(fs) \in Len(fs) .. Len(fs)  BY <1>0
    <3> QED  BY <3>1, Growing
  <2>4. U[Len(ft)][r] = x + b  BY DEF Extends
  <2>5. Len(w.lrs[r]) - U[Len(ft)][r] \in {0, 1}  BY DEF Ranged
  <2> HIDE DEF a, b, x
  <2>6. a - x \in {0, 1}  BY <2>1, <2>2, <2>3, <2>4, <2>5
  <2> QED  BY <2>6 DEF a, x
<1>5. \A l \in 0 .. Len(fs) : \A c \in Own(P, fs, l) : g.loc[c] # "none"
  BY <1>0, <1>2, <1>3 DEF Ranged, Layered
<1>6. ASSUME NEW l \in 0 .. Len(fs), NEW r \in Regs, NEW o \in Ranges, Item(g.loc, P, fs, l, r, o)
      PROVE  Owner(g, fs, S, l, r, o)
  <2>1. CASE Item(w.loc, O, ft, l, r, o)
    <3>1. Owner(w, ft, U, l, r, o)  BY <1>0, <2>1 DEF Ranged
    <3> QED  BY <3>1, LayeredTop
  <2>2. CASE ~Item(w.loc, O, ft, l, r, o)
    <3>1. l = Len(fs) /\ o \in O /\ w.loc[o] = r
      <4>1. l >= 1 => ft[l] = fs[l]  BY <1>0 DEF Extends
      <4>2. w.loc = g.loc  BY DEF Layered
      <4>3. o \in Own(P, fs, l) /\ w.loc[o] = r /\ o \notin Own(O, ft, l)
        BY <1>6, <2>2, <4>1, <4>2 DEF Item
      <4> QED  BY <1>2, <4>3
    <3>2. Item(w.loc, O, ft, Len(ft), r, o)  BY <1>3, <3>1 DEF Item
    <3>3. Owner(w, ft, U, Len(ft), r, o)  BY <1>3, <3>2 DEF Ranged
    <3>4. Levels(f, r) = 0  BY <3>1
    <3> DEFINE x == S[Len(fs)][r]
    <3>5. x \in Nat /\ U[Len(ft)][r] = x + 0
      <4>1. Len(fs) \in 0 .. Len(fs) /\ Len(fs) \in Len(fs) .. Len(fs)  BY <1>0
      <4> QED  BY <3>4, <4>1, Growing DEF Extends
    <3>6. U[Len(fs)][r] = x /\ Len(fs) \in 0 .. Len(fs)  BY <1>0 DEF Extends
    <3>7. TopAt(w, ft, U, Len(ft), r) = TopAt(w, ft, U, Len(fs), r)
      <4> HIDE DEF x
      <4> QED  BY <3>5, <3>6 DEF TopAt
    <3>8. Owner(w, ft, U, l, r, o)  BY <3>1, <3>3, <3>7 DEF Owner
    <3> QED  BY <3>8, LayeredTop
  <2> QED  BY <2>1, <2>2
<1> QED  BY <1>4, <1>5, <1>6 DEF Ranged

(* A frame is opened: what was intact stays intact below it. *)
LEMMA OpenAgree ==
  ASSUME NEW O, NEW fs, NEW h, NEW S, Shape(O, fs, h, S), NEW f, NEW ft, NEW t, NEW U,
         Extends(fs, f, h, S, ft, t, U), NEW Z \in SUBSET O, Z \cap ToSet(f.outer) = {},
         ToSet(f.outer) \in SUBSET O
  PROVE  Agree(O, {}, fs, ft, h, t, Len(fs), Z, {})
<1>0. /\ fs \in Seq(FrameType) /\ Len(fs) \in Nat /\ Len(ft) = Len(fs) + 1
      /\ \A j \in 1 .. Len(fs) : ft[j] = fs[j]
      /\ \A l \in 0 .. Len(fs) : t[l] = h[l]
  BY DEF Shape, Extends
<1>1. Waiting(fs, f, ft, O, {})  BY <1>0, ExtendOwn
<1>2. ASSUME NEW l \in 0 .. Len(fs)
      PROVE  t[l] = h[l] /\ Wait({}, ft, l) \ {} \subseteq Wait(O, fs, l) \ Z
  <2>1. CASE l = Len(fs)  BY <1>0, <1>1, <2>1 DEF Waiting
  <2>2. CASE l # Len(fs)
    <3>1. l \in 0 .. Len(fs) - 1 /\ Len(fs) \in 0 .. Len(fs) /\ l < Len(fs)  BY <1>0, <2>2
    <3>2. Own(O, fs, l) \cap Own(O, fs, Len(fs)) = {}  BY <3>1 DEF Shape
    <3>3. Wait(O, fs, l) \cap Z = {}
      <4>1. Wait(O, fs, l) \in SUBSET Own(O, fs, l)  BY OwnCgts
      <4>2. Own(O, fs, Len(fs)) = O  BY <1>1 DEF Waiting
      <4> QED  BY <3>2, <4>1, <4>2
    <3> QED  BY <1>0, <1>1, <3>1, <3>3 DEF Waiting
  <2> QED  BY <2>1, <2>2
<1> QED  BY <1>0, <1>2 DEF Agree

(* A frame is opened: the machines at the jumps. *)
LEMMA OpenSnapshots ==
  ASSUME NEW loc, NEW O, NEW fs, NEW h, NEW S, Shape(O, fs, h, S), NEW f, NEW ft, NEW t, NEW U,
         Extends(fs, f, h, S, ft, t, U), Snapshots(loc, fs, h),
         f.kind = "call" /\ f.res # FREE => loc[f.res] \notin ToSet(f.pushed),
         NEW Z \in SUBSET O, Z \cap ToSet(f.outer) = {}, ToSet(f.outer) \in SUBSET O,
         f.kind # "call" => /\ Intact(f.machine, loc, O, fs, h, Len(fs), Z)
                            /\ f.kind = "else" => HasVal(f.machine, loc, f.res)
  PROVE  Snapshots(loc, ft, t)
<1>0. /\ fs \in Seq(FrameType) /\ Len(fs) \in Nat /\ Len(ft) = Len(fs) + 1
      /\ ft[Len(fs) + 1] = f /\ \A j \in 1 .. Len(fs) : ft[j] = fs[j]
      /\ \A l \in 0 .. Len(fs) : t[l] = h[l]
  BY DEF Shape, Extends
<1>1. ASSUME NEW k \in 1 .. Len(fs), fs[k].kind # "call"
      PROVE  Intact(fs[k].machine, loc, {}, ft, t, k - 1, {})
  <2>1. k - 1 \in Nat /\ \A l \in 0 .. k - 1 : l \in 0 .. Len(fs) - 1 /\ l \in 0 .. Len(fs)
    BY <1>0
  <2>2. \A j \in 1 .. k - 1 : ft[j] = fs[j]  BY <1>0
  <2>3. Waiting(fs, f, ft, {}, {})  BY <1>0, ExtendOwn
  <2>4. \A l \in 0 .. k - 1 : t[l] = h[l] /\ Wait({}, ft, l) \ {} \subseteq Wait({}, fs, l) \ {}
    BY <1>0, <2>1, <2>3 DEF Waiting
  <2>5. PICK m : m = fs[k].machine  OBVIOUS
  <2>6. Intact(m, loc, {}, fs, h, k - 1, {})  BY <1>1, <2>5 DEF Snapshots
  <2>7. Agree({}, {}, fs, ft, h, t, k - 1, {}, {})  BY <2>1, <2>2, <2>4 DEF Agree
  <2>8. Intact(m, loc, {}, ft, t, k - 1, {})  BY <2>6, <2>7, View
  <2> QED  BY <2>5, <2>8
<1>2. ASSUME f.kind # "call" PROVE Intact(f.machine, loc, {}, ft, t, Len(fs), {})
  <2>1. PICK m : m = f.machine  OBVIOUS
  <2>2. Intact(m, loc, O, fs, h, Len(fs), Z)  BY <1>2, <2>1
  <2>3. Agree(O, {}, fs, ft, h, t, Len(fs), Z, {})  BY OpenAgree
  <2>4. Intact(m, loc, {}, ft, t, Len(fs), {})  BY <2>2, <2>3, View
  <2> QED  BY <2>1, <2>4
<1>3. ASSUME NEW k \in 1 .. Len(ft)
      PROVE  /\ ft[k].kind = "call" /\ ft[k].res # FREE => loc[ft[k].res] \notin ToSet(ft[k].pushed)
             /\ ft[k].kind # "call" =>
                  /\ Intact(ft[k].machine, loc, {}, ft, t, k - 1, {})
                  /\ ft[k].kind = "else" => HasVal(ft[k].machine, loc, ft[k].res)
  <2>1. CASE k = Len(fs) + 1
    <3>1. k - 1 = Len(fs) /\ ft[k] = f  BY <1>0, <2>1
    <3> QED  BY <1>2, <3>1
  <2>2. CASE k # Len(fs) + 1
    <3>1. k \in 1 .. Len(fs) /\ ft[k] = fs[k]  BY <1>0, <2>2
    <3>2. /\ fs[k].kind = "call" /\ fs[k].res # FREE => loc[fs[k].res] \notin ToSet(fs[k].pushed)
          /\ fs[k].kind # "call" /\ fs[k].kind = "else" => HasVal(fs[k].machine, loc, fs[k].res)
      BY <3>1 DEF Snapshots
    <3> QED  BY <1>1, <3>1, <3>2
  <2> QED  BY <2>1, <2>2
<1> QED  BY <1>3 DEF Snapshots

(* A frame is closed: the machines at the jumps. *)
LEMMA CloseSnapshots ==
  ASSUME NEW loc, NEW O, NEW fs, NEW h, NEW S, Shape(O, fs, h, S), NEW f, NEW ft, NEW t, NEW U,
         Extends(fs, f, h, S, ft, t, U), Snapshots(loc, ft, t)
  PROVE  Snapshots(loc, fs, h)
<1>0. /\ fs \in Seq(FrameType) /\ Len(fs) \in Nat /\ Len(ft) = Len(fs) + 1
      /\ \A j \in 1 .. Len(fs) : ft[j] = fs[j]
      /\ \A l \in 0 .. Len(fs) : t[l] = h[l]
  BY DEF Shape, Extends
<1>1. ASSUME NEW k \in 1 .. Len(fs)
      PROVE  /\ fs[k].kind = "call" /\ fs[k].res # FREE => loc[fs[k].res] \notin ToSet(fs[k].pushed)
             /\ fs[k].kind # "call" =>
                  /\ Intact(fs[k].machine, loc, {}, fs, h, k - 1, {})
                  /\ fs[k].kind = "else" => HasVal(fs[k].machine, loc, fs[k].res)
  <2>1. k - 1 \in Nat /\ (\A l \in 0 .. k - 1 : l \in 0 .. Len(fs) - 1 /\ l \in 0 .. Len(fs))
        /\ k \in 1 .. Len(ft)
    BY <1>0
  <2>2. /\ fs[k].kind = "call" /\ fs[k].res # FREE => loc[fs[k].res] \notin ToSet(fs[k].pushed)
        /\ fs[k].kind # "call" =>
             /\ Intact(fs[k].machine, loc, {}, ft, t, k - 1, {})
             /\ fs[k].kind = "else" => HasVal(fs[k].machine, loc, fs[k].res)
    BY <1>0, <2>1 DEF Snapshots
  <2>3. \A j \in 1 .. k - 1 : fs[j] = ft[j]  BY <1>0
  <2>4. Waiting(fs, f, ft, {}, {})  BY <1>0, ExtendOwn
  <2>5. \A l \in 0 .. k - 1 : h[l] = t[l] /\ Wait({}, fs, l) \ {} \subseteq Wait({}, ft, l) \ {}
    BY <1>0, <2>1, <2>4 DEF Waiting
  <2>6. PICK m : m = fs[k].machine  OBVIOUS
  <2>7. Agree({}, {}, ft, fs, t, h, k - 1, {}, {})  BY <2>1, <2>3, <2>5 DEF Agree
  <2>8. Intact(m, loc, {}, ft, t, k - 1, {}) => Intact(m, loc, {}, fs, h, k - 1, {})
    BY <2>7, View
  <2> QED  BY <2>2, <2>6, <2>8
<1> QED  BY <1>1 DEF Snapshots

(* A branch is opened: what is intact below it is intact in it. *)
LEMMA Lift ==
  ASSUME NEW m, NEW loc, NEW ft, NEW t, NEW n \in Nat, Len(ft) = n + 1,
         ft[n + 1].kind # "call", ft[n + 1].args = 0, t[n + 1] = t[n],
         Intact(m, loc, {}, ft, t, n, {})
  PROVE  Intact(m, loc, {}, ft, t, n + 1, {})
<1>1. \A l \in 0 .. n + 1 : l \in 0 .. n \/ l = n + 1  OBVIOUS
<1>2. Wait({}, ft, n + 1) = {}  BY DEF Wait
<1>3. ASSUME NEW l \in 0 .. n + 1, NEW r \in Regs, NEW v \in Values, Valued(loc, {}, ft, {}, l, r, v)
      PROVE  ValueAt(m, ft, t, l, n + 1, r, v)
  <2>1. l \in 0 .. n
    <3>1. CASE l = n + 1  BY <1>2, <1>3, <3>1 DEF Valued
    <3> QED  BY <1>1, <3>1
  <2>2. ValueAt(m, ft, t, l, n, r, v)  BY <1>3, <2>1 DEF Intact
  <2>3. Open(ft, l, n + 1) => Open(ft, l, n)  BY <2>1 DEF Open
  <2>4. \A j \in l + 1 .. n + 1 : j \in l + 1 .. n \/ j = n + 1  BY <2>1
  <2> QED  BY <2>2, <2>3, <2>4 DEF ValueAt
<1>4. Len(m.stk) = t[n + 1]  BY DEF Intact
<1>5. \A l \in 0 .. n + 1 : \A c \in Wait({}, ft, l) \ {} : loc[c] = "stack" => c \in m.slots
  BY <1>1, <1>2 DEF Intact
<1>6. ASSUME NEW l \in 1 .. n + 1, NEW i \in 1 .. ft[l].args, i > Len(IntPParam)
      PROVE  m.stk[t[l] - ft[l].args + i] = ArgVal(l, i)
  <2>1. l \in 1 .. n
    <3>1. CASE l = n + 1  BY <3>1
    <3> QED  BY <3>1
  <2> QED  BY <1>6, <2>1 DEF Intact
<1> QED  BY <1>3, <1>4, <1>5, <1>6 DEF Intact

(* A branch is opened. *)
LEMMA OpenBranch ==
  ASSUME NEW g, NEW O, NEW fs, NEW h, NEW S, NEW X, Good(g, O, fs, h, S, X), Len(fs) < MaxDepth,
         NEW f \in FrameType, FrameOK(f), f.kind # "call", Mine(f) = O, X \cap ToSet(f.outer) = {},
         NEW Z \in SUBSET O, Z \cap ToSet(f.outer) = {},
         Intact(f.machine, g.loc, O, fs, h, Len(fs), Z),
         f.kind = "else" => HasVal(f.machine, g.loc, f.res)
  PROVE  \E t, U : Good(g, {}, PushS(fs, f), t, U, {})
<1>0. /\ g \in GenType /\ Shape(O, fs, h, S) /\ Ranged(g, O, fs, S) /\ X \in SUBSET O
      /\ Intact(g, g.loc, O, fs, h, Len(fs), X) /\ Snapshots(g.loc, fs, h)
      /\ Len(fs) \in Nat
  BY DEF Good, Shape
<1>1. PICK ft : ft = PushS(fs, f)  OBVIOUS
<1>2. PICK t, U : Extends(fs, f, h, S, ft, t, U) /\ Shape({}, ft, t, U)  BY <1>0, <1>1, OpenShape
<1>3. Size(f) = 0 /\ f.args = 0 /\ \A r : Levels(f, r) = 0  BY BranchAdds
<1>4. ToSet(f.outer) \in SUBSET O  BY DEF Mine
<1>5. Layered(g, g, f)
  <2>1. \A r \in Regs : g.lrs[r] \in Seq(Ranges)  BY <1>0, GenFields
  <2>2. \A r \in Regs : Len(g.lrs[r]) \in Nat  BY <2>1, StackFacts
  <2> QED  BY <1>3, <2>2 DEF Layered
<1>6. Ranged(g, {}, ft, U)  BY <1>0, <1>2, <1>3, <1>5, OpenRanged
<1>7. Snapshots(g.loc, ft, t)  BY <1>0, <1>2, <1>4, OpenSnapshots
<1>8. Agree(O, {}, fs, ft, h, t, Len(fs), X, {})  BY <1>0, <1>2, <1>4, OpenAgree
<1>9. Intact(g, g.loc, {}, ft, t, Len(fs), {})  BY <1>0, <1>8, View
<1>10. Len(ft) = Len(fs) + 1 /\ ft[Len(fs) + 1] = f /\ t[Len(fs) + 1] = t[Len(fs)]
  <2>1. Len(fs) \in 0 .. Len(fs) /\ Len(fs) \in Len(fs) .. Len(fs)  BY <1>0
  <2>2. t[Len(fs)] = h[Len(fs)] /\ t[Len(fs) + 1] = h[Len(fs)] + 0
    BY <1>2, <1>3, <2>1 DEF Extends
  <2>3. h[Len(fs)] \in Nat  BY <1>0, <2>1, Growing
  <2> QED  BY <1>2, <2>2, <2>3 DEF Extends
<1>11. Intact(g, g.loc, {}, ft, t, Len(ft), {})  BY <1>0, <1>3, <1>9, <1>10, Lift
<1>12. Good(g, {}, ft, t, U, {})  BY <1>0, <1>2, <1>6, <1>7, <1>11 DEF Good
<1> QED  BY <1>1, <1>12

(* A branch is closed.  The temporaries of the level stay; the result of a  *)
(* ternary has no value on the machine that has come through its last arm.  *)
LEMMA CloseBranch ==
  ASSUME NEW g, NEW O, NEW ft, NEW t, NEW U, NEW X, Good(g, O, ft, t, U, X), ft # <<>>,
         TopS(ft).kind # "call"
  PROVE  LET f == TopS(ft)
             P == Mine(f) \cup O
             N == {f.res} \ {FREE}
         IN  \E h, S : /\ Good(g, P, PopS(ft), h, S, X \cup N)
                       /\ Intact(f.machine, g.loc, P, PopS(ft), h, Len(PopS(ft)), O \cup N)
<1>0. /\ g \in GenType /\ Shape(O, ft, t, U) /\ Ranged(g, O, ft, U) /\ X \in SUBSET O
      /\ Intact(g, g.loc, O, ft, t, Len(ft), X) /\ Snapshots(g.loc, ft, t)
      /\ ft \in Seq(FrameType) /\ Len(ft) \in Nat
  BY DEF Good, Shape
<1>1. PICK fs, f : fs = PopS(ft) /\ f = TopS(ft)  OBVIOUS
<1> DEFINE P == Mine(f) \cup O
           N == {f.res} \ {FREE}
<1>2. PICK h, S : Extends(fs, f, h, S, ft, t, U) /\ Shape(P, fs, h, S)  BY <1>0, <1>1, CloseShape
<1>3. /\ fs \in Seq(FrameType) /\ Len(fs) \in Nat /\ Len(ft) = Len(fs) + 1
      /\ ft[Len(fs) + 1] = f /\ \A j \in 1 .. Len(fs) : ft[j] = fs[j]
      /\ \A l \in 0 .. Len(fs) : t[l] = h[l]
  BY <1>2 DEF Shape, Extends
<1>4. f \in FrameType /\ FrameOK(f) /\ f.kind # "call"
  <2>1. Len(fs) + 1 \in 1 .. Len(ft)  BY <1>3
  <2> QED  BY <1>0, <1>1, <1>3, <2>1 DEF Shape
<1>5. Size(f) = 0 /\ f.args = 0 /\ \A r : Levels(f, r) = 0  BY <1>4, BranchAdds
<1>6. Layered(g, g, f)
  <2>1. \A r \in Regs : g.lrs[r] \in Seq(Ranges)  BY <1>0, GenFields
  <2>2. \A r \in Regs : Len(g.lrs[r]) \in Nat  BY <2>1, StackFacts
  <2> QED  BY <1>5, <2>2 DEF Layered
<1>7. Waiting(fs, f, ft, P, O)  BY <1>2, <1>3, ExtendOwn
<1> HIDE DEF P
<1>8. P = Mine(f) \cup O  BY DEF P
<1>9. Ranged(g, P, fs, S)  BY <1>0, <1>2, <1>4, <1>5, <1>6, <1>8, CloseRanged
<1>10. Snapshots(g.loc, fs, h)  BY <1>0, <1>2, CloseSnapshots
<1>11. Intact(f.machine, g.loc, P, fs, h, Len(fs), O \cup N)
  <2>1. Len(fs) + 1 \in 1 .. Len(ft) /\ Len(fs) + 1 - 1 = Len(fs)  BY <1>3
  <2>2. PICK m : m = f.machine  OBVIOUS
  <2>3. Intact(m, g.loc, {}, ft, t, Len(fs), {})  BY <1>0, <1>3, <1>4, <2>1, <2>2 DEF Snapshots
  <2>4. Waiting(fs, f, ft, P, {})  BY <1>2, <1>3, ExtendOwn
  <2>5. ASSUME NEW l \in 0 .. Len(fs)
        PROVE  h[l] = t[l] /\ Wait(P, fs, l) \ (O \cup N) \subseteq Wait({}, ft, l) \ {}
    <3>1. CASE l = Len(fs)  BY <1>3, <1>8, <2>4, <3>1 DEF Waiting, Mine
    <3>2. CASE l # Len(fs)
      <4>1. l \in 0 .. Len(fs) - 1  BY <1>3, <3>2
      <4> QED  BY <1>3, <2>4, <4>1 DEF Waiting
    <3> QED  BY <3>1, <3>2
  <2>6. Agree({}, P, ft, fs, t, h, Len(fs), {}, O \cup N)  BY <1>3, <2>5 DEF Agree
  <2>7. Intact(m, g.loc, P, fs, h, Len(fs), O \cup N)  BY <2>3, <2>6, View
  <2> QED  BY <2>2, <2>7
<1>12. Intact(g, g.loc, P, fs, h, Len(fs), X \cup N)
  <2>1. ASSUME NEW l \in 0 .. Len(fs), NEW c \in Wait(P, fs, l) \ (X \cup N)
        PROVE  c \in Wait(O, ft, l) \ X \/ (l = Len(fs) /\ c \in Wait(O, ft, Len(ft)) \ X)
    <3>1. CASE l = Len(fs)  BY <1>3, <1>7, <1>8, <2>1, <3>1 DEF Waiting, Mine
    <3>2. CASE l # Len(fs)
      <4>1. l \in 0 .. Len(fs) - 1  BY <1>3, <3>2
      <4> QED  BY <1>7, <2>1, <4>1 DEF Waiting
    <3> QED  BY <3>1, <3>2
  <2>2. \A l \in 0 .. Len(fs) : l \in 0 .. Len(ft)  BY <1>3
  <2>3. \A l \in 0 .. Len(fs), j \in 0 .. Len(fs) : Open(fs, l, j) <=> Open(ft, l, j)
    BY <1>3 DEF Open
  <2>4. \A l \in 0 .. Len(fs) : Open(fs, l, Len(fs)) => Open(ft, l, Len(ft))
    BY <1>3, <1>4 DEF Open
  <2>5. ASSUME NEW l \in 0 .. Len(fs), NEW r \in Regs, NEW v \in Values,
               Valued(g.loc, P, fs, X \cup N, l, r, v)
        PROVE  ValueAt(g, fs, h, l, Len(fs), r, v)
    <3>1. CASE Valued(g.loc, O, ft, X, l, r, v)
      <4>1. ValueAt(g, ft, t, l, Len(ft), r, v)  BY <1>0, <2>2, <3>1 DEF Intact
      <4>2. \A j \in l + 1 .. Len(fs) :
              /\ j \in l + 1 .. Len(ft) /\ j \in 1 .. Len(fs) /\ j - 1 \in 0 .. Len(fs)
              /\ ft[j] = fs[j] /\ t[j - 1] = h[j - 1]
        BY <1>3
      <4> QED  BY <2>3, <2>4, <4>1, <4>2 DEF ValueAt
    <3>2. CASE ~Valued(g.loc, O, ft, X, l, r, v)
      <4>1. l >= 1 => ft[l] = fs[l]  BY <1>3
      <4>2. PICK c \in Wait(P, fs, l) \ (X \cup N) : g.loc[c] = r /\ v = Val(c)
        BY <2>5, <3>2, <4>1 DEF Valued
      <4>3. l = Len(fs) /\ c \in Wait(O, ft, Len(ft)) \ X  BY <2>1, <3>2, <4>2 DEF Valued
      <4>4. Len(ft) \in 0 .. Len(ft) /\ Valued(g.loc, O, ft, X, Len(ft), r, v)
        BY <1>0, <4>2, <4>3 DEF Valued
      <4>5. ValueAt(g, ft, t, Len(ft), Len(ft), r, v)  BY <1>0, <4>4 DEF Intact
      <4>6. g.reg[r] = v
        <5>1. Open(ft, Len(ft), Len(ft))  BY <1>0 DEF Open
        <5> QED  BY <4>5, <5>1 DEF ValueAt
      <4>7. \A j \in Len(fs) + 1 .. Len(fs) : FALSE  BY <1>3
      <4> QED  BY <4>3, <4>6, <4>7 DEF ValueAt
    <3> QED  BY <3>1, <3>2
  <2>6. Len(g.stk) = h[Len(fs)]
    <3>1. Len(fs) \in 0 .. Len(fs) /\ Len(fs) \in Len(fs) .. Len(fs)  BY <1>3
    <3>2. h[Len(fs)] \in Nat /\ t[Len(fs) + 1] = h[Len(fs)] + 0
      BY <1>2, <1>5, <3>1, Growing DEF Extends
    <3> QED  BY <1>0, <1>3, <3>2 DEF Intact
  <2>7. \A l \in 0 .. Len(fs) : \A c \in Wait(P, fs, l) \ (X \cup N) :
          g.loc[c] = "stack" => c \in g.slots
    <3>1. Len(ft) \in 0 .. Len(ft)  BY <1>0
    <3> QED  BY <1>0, <2>1, <2>2, <3>1 DEF Intact
  <2>8. \A l \in 1 .. Len(fs) : \A i \in 1 .. fs[l].args :
          i > Len(IntPParam) => g.stk[h[l] - fs[l].args + i] = ArgVal(l, i)
    <3>1. \A l \in 1 .. Len(fs) : l \in 1 .. Len(ft) /\ ft[l] = fs[l] /\ t[l] = h[l]  BY <1>3
    <3> QED  BY <1>0, <3>1 DEF Intact
  <2> QED  BY <2>5, <2>6, <2>7, <2>8 DEF Intact
<1>13. X \cup N \in SUBSET P  BY <1>0, <1>8 DEF Mine
<1>14. Good(g, P, fs, h, S, X \cup N)  BY <1>0, <1>2, <1>9, <1>10, <1>12, <1>13 DEF Good
<1> QED  BY <1>1, <1>11, <1>14 DEF P, N

(* The machine of a state. *)
LEMMA OwnMachine ==
  ASSUME NEW g \in GenType
  PROVE  /\ Machine(g) \in MachineType /\ OnMachine(g, Machine(g)) = g
         /\ Machine(g).reg = g.reg /\ Machine(g).slots = g.slots /\ Machine(g).stk = g.stk
<1>1. /\ g.lrs \in [Regs -> Seq(Ranges)] /\ g.loc \in [Cgts -> Places]
      /\ g.reg \in [Regs -> Values] /\ g.slots \in SUBSET Cgts /\ g.stk \in Seq(Values)
  BY GenFields
<1> QED  BY <1>1 DEF Machine, OnMachine, MachineType, GenType

(* The code goes on with the machine of another path. *)
LEMMA SwapGood ==
  ASSUME NEW g, NEW O, NEW fs, NEW h, NEW S, NEW X, Good(g, O, fs, h, S, X),
         NEW m \in MachineType, NEW Z \in SUBSET O, Intact(m, g.loc, O, fs, h, Len(fs), Z)
  PROVE  /\ Good(OnMachine(g, m), O, fs, h, S, Z)
         /\ OnMachine(g, m).loc = g.loc
         /\ OnMachine(g, m).reg = m.reg /\ OnMachine(g, m).slots = m.slots
<1>0. /\ g \in GenType /\ Shape(O, fs, h, S) /\ Ranged(g, O, fs, S)
      /\ Snapshots(g.loc, fs, h) /\ Len(fs) \in Nat
  BY DEF Good, Shape
<1>1. /\ g.lrs \in [Regs -> Seq(Ranges)] /\ g.loc \in [Cgts -> Places]
      /\ g.reg \in [Regs -> Values] /\ g.slots \in SUBSET Cgts /\ g.stk \in Seq(Values)
  BY <1>0, GenFields
<1>2. PICK w : w = OnMachine(g, m)  OBVIOUS
<1>3. /\ w \in GenType /\ w.lrs = g.lrs /\ w.loc = g.loc
      /\ w.reg = m.reg /\ w.slots = m.slots /\ w.stk = m.stk
  BY <1>0, <1>1, <1>2 DEF OnMachine, GenType, MachineType
<1>4. Ranged(w, O, fs, S)  BY <1>0, <1>3 DEF Ranged, Owner, TopAt
<1>5. Agree(O, O, fs, fs, h, h, Len(fs), Z, Z)  BY <1>0 DEF Agree
<1>6. Intact(w, g.loc, O, fs, h, Len(fs), Z)  BY <1>3, <1>5, View
<1>7. Good(w, O, fs, h, S, Z)  BY <1>0, <1>3, <1>4, <1>6 DEF Good
<1> QED  BY <1>2, <1>3, <1>7

(* The innermost frame, and the temporaries of its level. *)
LEMMA Innermost ==
  ASSUME NEW g, NEW O, NEW ft, NEW t, NEW U, NEW X, Good(g, O, ft, t, U, X), ft # <<>>
  PROVE  /\ TopS(ft) \in FrameType /\ FrameOK(TopS(ft)) /\ O \cap Mine(TopS(ft)) = {}
         /\ TopS(ft) = ft[Len(ft)] /\ Len(ft) \in 1 .. Len(ft) /\ Len(ft) \in Nat
<1>1. Shape(O, ft, t, U) /\ ft \in Seq(FrameType) /\ Len(ft) \in Nat  BY DEF Good, Shape
<1>2. Len(ft) >= 1 /\ TopS(ft) = ft[Len(ft)]  BY <1>1, StackFacts
<1>3. Len(ft) \in 1 .. Len(ft)  BY <1>1, <1>2
<1>4. ft[Len(ft)] \in FrameType /\ FrameOK(ft[Len(ft)])  BY <1>1, <1>3 DEF Shape
<1>5. Own(O, ft, Len(ft)) = O /\ Own(O, ft, Len(ft) - 1) = Mine(ft[Len(ft)])
  <2>1. Len(ft) - 1 # Len(ft) /\ Len(ft) - 1 + 1 = Len(ft)  BY <1>1
  <2> QED  BY <2>1 DEF Own
<1>6. Len(ft) - 1 \in 0 .. Len(ft) /\ Len(ft) \in 0 .. Len(ft) /\ Len(ft) - 1 < Len(ft)
  BY <1>1, <1>2
<1>7. Own(O, ft, Len(ft) - 1) \cap Own(O, ft, Len(ft)) = {}  BY <1>1, <1>6 DEF Shape
<1> QED  BY <1>1, <1>2, <1>3, <1>4, <1>5, <1>7

(* The frames of NncGen as a stack. *)
LEMMA FramesTop ==
  ASSUME frames # <<>>
  PROVE  Last(frames) = TopS(frames) /\ Front(frames) = PopS(frames)
BY DEF TopS, PopS

(* A new frame. *)
MkFrame(kind, outer, res, pushed, machine) ==
  [kind |-> kind, outer |-> outer, res |-> res, pushed |-> pushed, args |-> 0, machine |-> machine]

(* A branch is a frame. *)
LEMMA BranchFrame ==
  ASSUME NEW kind \in {"logic", "then", "else"}, NEW outer \in Seq(Cgts), Distinct(outer),
         NEW res \in Cgts \cup {FREE}, res \notin ToSet(outer), res = FREE <=> kind # "else",
         NEW m \in MachineType
  PROVE  LET f == MkFrame(kind, outer, res, <<>>, m)
         IN  /\ f \in FrameType /\ FrameOK(f) /\ f.kind = kind /\ f.res = res /\ f.outer = outer
             /\ f.machine = m /\ Mine(f) = ToSet(outer) \cup ({res} \ {FREE})
<1> DEFINE f == MkFrame(kind, outer, res, <<>>, m)
<1>1. f.kind = kind /\ f.outer = outer /\ f.res = res /\ f.pushed = <<>> /\ f.args = 0
      /\ f.machine = m
  BY DEF MkFrame
<1>2. f \in FrameType
  <2>1. <<>> \in Seq(Regs) /\ 0 \in 0 .. MaxArgs  BY BoundAssumption
  <2> QED  BY <2>1 DEF MkFrame, FrameType
<1> HIDE DEF f
<1>3. FrameOK(f)  BY <1>1 DEF FrameOK
<1>4. Mine(f) = ToSet(outer) \cup ({res} \ {FREE})  BY <1>1 DEF Mine
<1> QED  BY <1>1, <1>2, <1>3, <1>4 DEF f

(* No temporary waits at a new level. *)
LEMMA NoneWait == ToSet(<<>>) = {} /\ <<>> \in Seq(Cgts) /\ Distinct(<<>>)
BY DEF ToSet, Distinct

(* The first jump of a ternary or a logical operator *)
LEMMA BranchInv ==
  ASSUME GenInv, NEW kind \in {"logic", "then"}, Branch(kind)
  PROVE  GenInv'
<1>0. /\ operands \in Seq(Cgts) /\ Distinct(operands) /\ operands # <<>> /\ Len(frames) < MaxDepth
  BY Start DEF Branch
<1>1. PICK h, S : Good(gen, ToSet(operands), frames, h, S, {})  BY Start
<1>2. /\ Arg2 \in ToSet(operands) /\ Below(1) \in Seq(Cgts) /\ Distinct(Below(1))
      /\ ToSet(Below(1)) = ToSet(operands) \ {Arg2}
  BY <1>0, LastOp
<1> DEFINE g == Retire(gen, {Arg2})
           O == ToSet(Below(1))
           f == MkFrame(kind, Below(1), FREE, <<>>, Machine(g))
<1>3. \/ Stop("rejected")
      \/ gen' = g /\ operands' = <<>> /\ frames' = PushS(frames, f)
  BY DEF Branch, PushS, MkFrame
<1>4. Good(g, O, frames, h, S, {})
  <2>1. {Arg2} \in SUBSET ToSet(operands)  BY <1>2
  <2>2. {Arg2} \in SUBSET Cgts
        /\ \A l \in 0 .. Len(frames) - 1 : {Arg2} \cap Own(ToSet(operands), frames, l) = {}
    BY <1>1, <2>1, Disjoint
  <2>3. Good(g, ToSet(operands) \ {Arg2}, frames, h, S, {} \ {Arg2})  BY <1>1, <2>2, RetireGood
  <2>4. {} \ {Arg2} = {}  OBVIOUS
  <2> QED  BY <1>2, <2>3, <2>4
<1> HIDE DEF g
<1>5. g \in GenType /\ Intact(g, g.loc, O, frames, h, Len(frames), {}) /\ O \in SUBSET Cgts
      /\ Len(frames) \in Nat
  BY <1>4 DEF Good, Shape
<1>6. Machine(g) \in MachineType
      /\ Machine(g).reg = g.reg /\ Machine(g).slots = g.slots /\ Machine(g).stk = g.stk
  BY <1>5, OwnMachine
<1>7. /\ f \in FrameType /\ FrameOK(f) /\ f.kind = kind /\ f.outer = Below(1)
      /\ f.machine = Machine(g) /\ Mine(f) = O \cup ({FREE} \ {FREE})
  <2>1. FREE \in Cgts \cup {FREE} /\ FREE \notin O /\ kind # "else" /\ kind \in {"logic", "then", "else"}
    BY <1>5, Numbers
  <2> HIDE DEF f
  <2> QED  BY <1>2, <1>6, <2>1, BranchFrame DEF f
<1> HIDE DEF f
<1>8. Intact(f.machine, g.loc, O, frames, h, Len(frames), {})
  <2>1. PICK m : m = f.machine  OBVIOUS
  <2>2. m.reg = g.reg /\ m.slots = g.slots /\ m.stk = g.stk  BY <1>6, <1>7, <2>1
  <2>3. Agree(O, O, frames, frames, h, h, Len(frames), {}, {})  BY <1>5 DEF Agree
  <2>4. Intact(m, g.loc, O, frames, h, Len(frames), {})  BY <1>5, <2>2, <2>3, View
  <2> QED  BY <2>1, <2>4
<1>9. \E t, U : Good(g, {}, PushS(frames, f), t, U, {})
  <2>1. Mine(f) = O /\ f.kind # "call" /\ f.kind # "else"  BY <1>7
  <2>2. {} \in SUBSET O /\ {} \cap ToSet(f.outer) = {}  OBVIOUS
  <2> HIDE DEF O
  <2> QED  BY <1>0, <1>4, <1>7, <1>8, <2>1, <2>2, OpenBranch
<1>10. ASSUME gen' = g, operands' = <<>>, frames' = PushS(frames, f) PROVE GenInv'
  BY <1>9, <1>10, NoneWait DEF GenInv
<1> QED  BY <1>3, <1>10, StopInv

(* The end of a logical operator *)
LEMMA LogicEndInv ==
  ASSUME GenInv, LogicEnd
  PROVE  GenInv'
<1>0. /\ operands \in Seq(Cgts) /\ Distinct(operands) /\ Len(operands) = 1
      /\ frames # <<>> /\ Last(frames).kind = "logic"
  BY Start DEF LogicEnd, InFrame
<1>1. PICK h, S : Good(gen, ToSet(operands), frames, h, S, {})  BY Start
<1>2. ToSet(operands) = {Arg2} /\ Arg2 \in Cgts  BY <1>0, OneOp
<1> DEFINE left == Retire(gen, {Arg2})
           c == Fresh(left)
           g == StoreCgt(left, c)
           f == TopS(frames)
<1>3. \/ Stop("rejected")
      \/ /\ \E m \in {Machine(g), f.machine} : gen' = Write(OnMachine(g, m), c, Val(c))
         /\ operands' = Append(f.outer, c)
         /\ frames' = PopS(frames)
  BY <1>0, FramesTop DEF LogicEnd
<1>4. Good(left, {}, frames, h, S, {}) /\ c \in Cgts /\ left.loc[c] = "none"
  <2>1. {Arg2} \in SUBSET ToSet(operands) /\ {Arg2} # {}  BY <1>2
  <2>2. /\ Good(left, ToSet(operands) \ {Arg2}, frames, h, S, {} \ {Arg2})
        /\ c \in Cgts /\ left.loc[c] = "none"
    BY <1>1, <2>1, RetireFresh
  <2>3. ToSet(operands) \ {Arg2} = {} /\ {} \ {Arg2} = {}  BY <1>2
  <2> QED  BY <2>2, <2>3
<1> HIDE DEF c, left
<1>5. Good(g, {c}, frames, h, S, {c})
  <2>1. Good(g, {} \cup {c}, frames, h, S, {} \cup {c})  BY <1>4, StoreGood
  <2>2. {} \cup {c} = {c}  OBVIOUS
  <2> QED  BY <2>1, <2>2
<1> HIDE DEF g
<1>6. f \in FrameType /\ FrameOK(f) /\ {c} \cap Mine(f) = {} /\ f.kind = "logic"
  BY <1>0, <1>5, Innermost, FramesTop
<1> HIDE DEF f
<1>7. f.res = FREE /\ f.outer \in Seq(Cgts) /\ Distinct(f.outer) /\ f.machine \in MachineType
  BY <1>6, FrameParts DEF FrameOK
<1> DEFINE P == ToSet(f.outer) \cup {c}
<1>8. PICK t, U : /\ Good(g, P, PopS(frames), t, U, {c})
                  /\ Intact(f.machine, g.loc, P, PopS(frames), t, Len(PopS(frames)), {c})
  <2>1. \E t, U : /\ Good(g, Mine(f) \cup {c}, PopS(frames), t, U, {c} \cup ({f.res} \ {FREE}))
                  /\ Intact(f.machine, g.loc, Mine(f) \cup {c}, PopS(frames), t, Len(PopS(frames)),
                            {c} \cup ({f.res} \ {FREE}))
    BY <1>0, <1>5, <1>6, CloseBranch DEF f
  <2>2. Mine(f) \cup {c} = P /\ {c} \cup ({f.res} \ {FREE}) = {c}  BY <1>7 DEF Mine
  <2> HIDE DEF P
  <2> QED  BY <2>1, <2>2
<1>9. /\ Append(f.outer, c) \in Seq(Cgts) /\ Distinct(Append(f.outer, c))
      /\ ToSet(Append(f.outer, c)) = P
  <2>1. c \notin ToSet(f.outer)  BY <1>6 DEF Mine
  <2> QED  BY <1>4, <1>7, <2>1, Added
<1> HIDE DEF P
<1>10. ASSUME NEW m \in {Machine(g), f.machine}
       PROVE  Good(OnMachine(g, m), P, PopS(frames), t, U, {c})
  <2>1. CASE m = Machine(g)
    <3>1. g \in GenType  BY <1>8 DEF Good
    <3> QED  BY <1>8, <2>1, <3>1, OwnMachine
  <2>2. CASE m = f.machine
    <3>1. {c} \in SUBSET P  BY DEF P
    <3> QED  BY <1>7, <1>8, <2>2, <3>1, SwapGood
  <2> QED  BY <2>1, <2>2
<1>11. ASSUME NEW m \in {Machine(g), f.machine}
       PROVE  Good(Write(OnMachine(g, m), c, Val(c)), P, PopS(frames), t, U, {})
  <2>1. c \in P /\ {c} \ {c} = {}  BY DEF P
  <2>2. Good(Write(OnMachine(g, m), c, Val(c)), P, PopS(frames), t, U, {c} \ {c})
    BY <1>10, <2>1, WriteGood
  <2> QED  BY <2>1, <2>2
<1>12. ASSUME NEW m \in {Machine(g), f.machine}, gen' = Write(OnMachine(g, m), c, Val(c)),
              operands' = Append(f.outer, c), frames' = PopS(frames)
       PROVE  GenInv'
  <2>1. Good(gen', ToSet(operands'), frames', t, U, {})  BY <1>9, <1>11, <1>12
  <2> QED  BY <1>9, <1>12, <2>1 DEF GenInv
<1> QED  BY <1>3, <1>12, StopInv

(* The end of the first arm of a ternary *)
LEMMA ThenEndInv ==
  ASSUME GenInv, ThenEnd
  PROVE  GenInv'
<1>0. /\ operands \in Seq(Cgts) /\ Distinct(operands) /\ Len(operands) = 1
      /\ frames # <<>> /\ Last(frames).kind = "then" /\ Dead(gen) # {}
  BY Start DEF ThenEnd, InFrame
<1>1. PICK h, S : Good(gen, ToSet(operands), frames, h, S, {})  BY Start
<1>2. ToSet(operands) = {Arg2} /\ Arg2 \in Cgts  BY <1>0, OneOp
<1> DEFINE a == Arg2
           c == Fresh(gen)
           s == StoreCgt(gen, c)
           o == MovOperand(s, c, a)
           g == Retire(o, {a})
           f == TopS(frames)
           e == [f EXCEPT !.kind = "else", !.res = c, !.machine = Machine(g)]
<1>3. f \in FrameType /\ FrameOK(f) /\ f.kind = "then"
  BY <1>0, <1>1, Innermost, FramesTop
<1>4. gen' = OnMachine(g, f.machine) /\ operands' = <<>> /\ frames' = PushS(PopS(frames), e)
  BY <1>0, FramesTop DEF ThenEnd, PushS
<1>5. c \in Cgts /\ gen.loc[c] = "none"  BY <1>0, FreshDead
<1> HIDE DEF c, a
<1>6. /\ Good(s, {a} \cup {c}, frames, h, S, {} \cup {c}) /\ c \notin {a}
      /\ OnStack(s, c) => Busy(s, "r15")
  BY <1>1, <1>2, <1>5, StoreGood DEF a
<1> HIDE DEF s
<1>7. Good(o, {a} \cup {c}, frames, h, S, ({} \cup {c}) \ {c})
  <2>1. c \in {a} \cup {c} /\ a \in ({a} \cup {c}) \ ({} \cup {c})  BY <1>6
  <2> QED  BY <1>6, <2>1, OperandGood DEF Borrowable
<1> HIDE DEF o
<1>8. Good(g, {c}, frames, h, S, {})
  <2>1. {a} \in SUBSET ({a} \cup {c})  OBVIOUS
  <2>2. {a} \in SUBSET Cgts
        /\ \A l \in 0 .. Len(frames) - 1 : {a} \cap Own({a} \cup {c}, frames, l) = {}
    BY <1>7, <2>1, Disjoint
  <2>3. Good(g, ({a} \cup {c}) \ {a}, frames, h, S, (({} \cup {c}) \ {c}) \ {a})
    BY <1>7, <2>2, RetireGood
  <2>4. ({a} \cup {c}) \ {a} = {c} /\ (({} \cup {c}) \ {c}) \ {a} = {}  BY <1>6
  <2> QED  BY <2>3, <2>4
<1> HIDE DEF g
<1>9. {c} \cap Mine(f) = {}  BY <1>0, <1>8, Innermost
<1> HIDE DEF f
<1>10. f.res = FREE /\ f.outer \in Seq(Cgts) /\ Distinct(f.outer) /\ f.machine \in MachineType
  BY <1>3, FrameParts DEF FrameOK
<1> DEFINE P == ToSet(f.outer) \cup {c}
           b == PopS(frames)
<1>11. PICK t, U : /\ Good(g, P, b, t, U, {})
                   /\ Intact(f.machine, g.loc, P, b, t, Len(b), {c})
  <2>1. \E t, U : /\ Good(g, Mine(f) \cup {c}, b, t, U, {} \cup ({f.res} \ {FREE}))
                  /\ Intact(f.machine, g.loc, Mine(f) \cup {c}, b, t, Len(b),
                            {c} \cup ({f.res} \ {FREE}))
    BY <1>0, <1>3, <1>8, CloseBranch DEF f
  <2>2. Mine(f) \cup {c} = P /\ {c} \cup ({f.res} \ {FREE}) = {c} /\ {} \cup ({f.res} \ {FREE}) = {}
    BY <1>10 DEF Mine
  <2> HIDE DEF P, b
  <2> QED  BY <2>1, <2>2
<1>12. g \in GenType /\ Intact(g, g.loc, P, b, t, Len(b), {}) /\ Len(b) \in Nat
  BY <1>11 DEF Good, Shape
<1>13. Machine(g) \in MachineType
       /\ Machine(g).reg = g.reg /\ Machine(g).slots = g.slots /\ Machine(g).stk = g.stk
  BY <1>12, OwnMachine
<1>14. /\ e \in FrameType /\ FrameOK(e) /\ e.kind = "else" /\ e.res = c /\ e.outer = f.outer
       /\ e.machine = Machine(g) /\ Mine(e) = ToSet(f.outer) \cup ({c} \ {FREE})
  <2>1. c \in Cgts \cup {FREE} /\ c # FREE /\ c \notin ToSet(f.outer)  BY <1>5, <1>9, Numbers DEF Mine
  <2>2. f.pushed = <<>> /\ f.args = 0  BY <1>3 DEF FrameOK
  <2>3. /\ e \in FrameType /\ e.kind = "else" /\ e.res = c /\ e.outer = f.outer
        /\ e.pushed = f.pushed /\ e.args = f.args /\ e.machine = Machine(g)
    BY <1>3, <1>13, <2>1 DEF FrameType
  <2> HIDE DEF e
  <2>4. FrameOK(e)  BY <1>10, <1>13, <2>1, <2>2, <2>3 DEF FrameOK
  <2> QED  BY <2>3, <2>4 DEF Mine
<1> HIDE DEF e
<1>15. Mine(e) = P /\ {c} \in SUBSET P /\ {c} \cap ToSet(e.outer) = {} /\ c \in P
  <2>1. c # FREE /\ c \notin ToSet(f.outer)  BY <1>5, <1>9, Numbers DEF Mine
  <2> QED  BY <1>14, <2>1
<1> HIDE DEF P, b
<1>16. Good(OnMachine(g, f.machine), P, b, t, U, {c}) /\ OnMachine(g, f.machine).loc = g.loc
  <2>1. PICK m \in MachineType : m = f.machine  BY <1>10
  <2>2. Intact(m, g.loc, P, b, t, Len(b), {c})  BY <1>11, <2>1
  <2>3. Good(OnMachine(g, m), P, b, t, U, {c}) /\ OnMachine(g, m).loc = g.loc
    BY <1>11, <1>15, <2>2, SwapGood
  <2> QED  BY <2>1, <2>3
<1>17. Intact(e.machine, g.loc, P, b, t, Len(b), {}) /\ HasVal(e.machine, g.loc, e.res)
  <2>1. PICK m : m = e.machine  OBVIOUS
  <2>2. m.reg = g.reg /\ m.slots = g.slots /\ m.stk = g.stk  BY <1>13, <1>14, <2>1
  <2>3. Agree(P, P, b, b, t, t, Len(b), {}, {})  BY <1>12 DEF Agree
  <2>4. Intact(m, g.loc, P, b, t, Len(b), {})  BY <1>12, <2>2, <2>3, View
  <2>5. HasVal(g, g.loc, c)
    <3>1. c \notin {}  OBVIOUS
    <3> QED  BY <1>11, <1>15, <3>1, HasContent
  <2> QED  BY <1>14, <2>1, <2>2, <2>4, <2>5 DEF HasVal
<1>18. Len(b) < MaxDepth
  <2>1. frames \in Seq(FrameType) /\ Len(frames) \in Nat /\ Len(frames) =< MaxDepth
    BY <1>1 DEF Good, Shape
  <2>2. Len(frames) # 0 /\ Len(b) = (IF Len(frames) = 0 THEN 0 ELSE Len(frames) - 1)
    BY <1>0, <2>1, StackFacts DEF b
  <2> QED  BY <2>1, <2>2, BoundAssumption
<1>19. \E y, z : Good(OnMachine(g, f.machine), {}, PushS(b, e), y, z, {})
  <2>1. PICK w : w = OnMachine(g, f.machine)  OBVIOUS
  <2>2. {} \in SUBSET P /\ {} \cap ToSet(e.outer) = {} /\ e.kind # "call"  BY <1>14
  <2>3. Good(w, P, b, t, U, {c}) /\ Intact(e.machine, w.loc, P, b, t, Len(b), {})
        /\ HasVal(e.machine, w.loc, e.res)
    BY <1>16, <1>17, <2>1
  <2>4. \E y, z : Good(w, {}, PushS(b, e), y, z, {})
    BY <1>14, <1>15, <1>18, <2>2, <2>3, OpenBranch
  <2> QED  BY <2>1, <2>4
<1>20. frames' = PushS(b, e)  BY <1>4 DEF b
<1> QED  BY <1>4, <1>19, <1>20, NoneWait DEF GenInv

(* nnc_gen_mov_mem_to_mem leaves the locations alone. *)
LEMMA MemLoc ==
  ASSUME NEW g \in GenType, NEW c \in Cgts \cup {FREE}, c # FREE => g.loc[c] \notin Regs,
         NEW v \in Values
  PROVE  MovMemToMem(g, c, v).loc = g.loc
BY MemFields

(* nnc_gen_mov_operand_to_operand leaves the locations alone. *)
LEMMA OperandLoc ==
  ASSUME NEW g \in GenType, NEW c \in Cgts, NEW o
  PROVE  MovOperand(g, c, o).loc = g.loc
<1> DEFINE v == Computed(c, Contents(g, {o}), {o})
<1>1. v \in Values  BY ValueFacts DEF Computed
<1>2. MovOperand(g, c, o) = IF OnStack(g, c) /\ OnStack(g, o) THEN MovMemToMem(g, c, v)
                            ELSE Write(g, c, v)
  BY DEF MovOperand
<1> HIDE DEF v
<1>3. CASE OnStack(g, c) /\ OnStack(g, o)
  <2>1. g.loc[c] \notin Regs /\ c \in Cgts \cup {FREE}  BY <1>3, Numbers DEF OnStack
  <2>2. MovMemToMem(g, c, v).loc = g.loc
    <3>1. v \in Values /\ (c # FREE => g.loc[c] \notin Regs)  BY <1>1, <2>1
    <3> QED  BY <2>1, <3>1, MemLoc
  <2> QED  BY <1>2, <1>3, <2>2
<1>4. CASE ~(OnStack(g, c) /\ OnStack(g, o))
  <2>1. Write(g, c, v).loc = g.loc  BY DEF Write, GenType
  <2> QED  BY <1>2, <1>4, <2>1
<1> QED  BY <1>3, <1>4

(* The end of a ternary *)
LEMMA ElseEndInv ==
  ASSUME Situations = {}, GenInv, ElseEnd
  PROVE  GenInv'
<1>0. /\ operands \in Seq(Cgts) /\ Distinct(operands) /\ Len(operands) = 1
      /\ frames # <<>> /\ Last(frames).kind = "else"
  BY Start DEF ElseEnd, InFrame
<1>1. PICK h, S : Good(gen, ToSet(operands), frames, h, S, {})  BY Start
<1>2. ToSet(operands) = {Arg2} /\ Arg2 \in Cgts  BY <1>0, OneOp
<1> DEFINE a == Arg2
           f == TopS(frames)
           c == f.res
           o == MovOperand(gen, c, a)
           g == Retire(o, {a})
           b == PopS(frames)
<1>3. f \in FrameType /\ FrameOK(f) /\ f.kind = "else" /\ {a} \cap Mine(f) = {}
  BY <1>0, <1>1, <1>2, Innermost, FramesTop
<1>4. /\ ~(OnStack(gen, c) /\ OnStack(gen, a) /\ Uncovers("r15"))
      /\ \E m \in {Machine(g), f.machine} : gen' = OnMachine(g, m)
      /\ operands' = Append(f.outer, c) /\ frames' = b
  BY <1>0, FramesTop, Covered DEF ElseEnd
<1>5. Borrowable(gen, frames, "r15") => Borrowable(gen, b, "r15")
  <2>1. frames \in Seq(FrameType)  BY <1>1 DEF Good, Shape
  <2>2. PICK fs \in Seq(FrameType) :
          fs = b /\ Len(fs) = (IF Len(frames) = 0 THEN 0 ELSE Len(frames) - 1)
          /\ \A i \in 1 .. Len(frames) - 1 : fs[i] = frames[i]
    BY <2>1, StackFacts
  <2>3. Len(frames) \in Nat /\ Len(frames) # 0  BY <1>0, <2>1, StackFacts
  <2>4. \A i \in DOMAIN fs : i \in DOMAIN frames /\ fs[i] = frames[i]  BY <2>1, <2>2, <2>3
  <2>5. PushedBy(fs) \in SUBSET PushedBy(frames)  BY <2>4 DEF PushedBy
  <2> HIDE DEF b
  <2> QED  BY <2>2, <2>5 DEF Borrowable
<1> HIDE DEF f, a
<1>6. c \in Cgts /\ f.outer \in Seq(Cgts) /\ Distinct(f.outer) /\ f.machine \in MachineType
      /\ c \notin ToSet(f.outer) /\ c # FREE /\ Mine(f) = ToSet(f.outer) \cup {c}
  <2>1. c \in Cgts /\ f.outer \in Seq(Cgts) /\ Distinct(f.outer) /\ f.machine \in MachineType
        /\ c \notin ToSet(f.outer)
    BY <1>3, FrameParts DEF FrameOK
  <2> QED  BY <2>1, Numbers DEF Mine
<1> DEFINE P == Mine(f) \cup {a}
<1>7. c \in P /\ a \in P /\ a # c /\ a \notin Mine(f) /\ P \ {a} = Mine(f) /\ a \in Cgts
  BY <1>2, <1>3, <1>6 DEF a
<1>8. PICK t, U : /\ Good(gen, P, b, t, U, {c})
                  /\ Intact(f.machine, gen.loc, P, b, t, Len(b), {a, c})
  <2>1. \E t, U : /\ Good(gen, Mine(f) \cup {a}, b, t, U, {} \cup ({f.res} \ {FREE}))
                  /\ Intact(f.machine, gen.loc, Mine(f) \cup {a}, b, t, Len(b),
                            {a} \cup ({f.res} \ {FREE}))
    <3>1. Good(gen, {a}, frames, h, S, {})  BY <1>1, <1>2 DEF a
    <3>2. TopS(frames).kind # "call"  BY <1>3 DEF f
    <3> QED  BY <1>0, <3>1, <3>2, CloseBranch DEF f
  <2>2. {} \cup ({f.res} \ {FREE}) = {c} /\ {a} \cup ({f.res} \ {FREE}) = {a, c}  BY <1>6
  <2> HIDE DEF b, c
  <2> QED  BY <2>1, <2>2
<1>9. HasVal(f.machine, gen.loc, c)
  <2>1. f = frames[Len(frames)] /\ Len(frames) \in 1 .. Len(frames)  BY <1>0, <1>1, Innermost DEF f
  <2>2. Snapshots(gen.loc, frames, h)  BY <1>1 DEF Good
  <2>3. f.kind # "call" /\ f.kind = "else"  BY <1>3
  <2> HIDE DEF f
  <2> QED  BY <2>1, <2>2, <2>3 DEF Snapshots
<1> HIDE DEF P, c, b
<1>10. gen \in GenType /\ Good(o, P, b, t, U, {})
  <2>1. a \in P \ {c} /\ {c} \ {c} = {}  BY <1>7
  <2>2. OnStack(gen, c) /\ OnStack(gen, a) => Borrowable(gen, b, "r15")  BY <1>4, <1>5, Covered
  <2>3. Good(o, P, b, t, U, {c} \ {c})  BY <1>7, <1>8, <2>1, <2>2, OperandGood
  <2> QED  BY <1>8, <2>1, <2>3 DEF Good
<1>11. o.loc = gen.loc  BY <1>6, <1>10, OperandLoc
<1> HIDE DEF o
<1>12. Good(g, Mine(f), b, t, U, {}) /\ \A l \in 0 .. Len(b) - 1 : a \notin Own(P, b, l)
  <2>1. {a} \in SUBSET P  BY <1>7
  <2>2. {a} \in SUBSET Cgts /\ \A l \in 0 .. Len(b) - 1 : {a} \cap Own(P, b, l) = {}
    BY <1>10, <2>1, Disjoint
  <2>3. Good(g, P \ {a}, b, t, U, {} \ {a})  BY <1>10, <2>2, RetireGood
  <2>4. {} \ {a} = {}  OBVIOUS
  <2> QED  BY <1>7, <2>2, <2>3, <2>4
<1>13. \A d \in Cgts \ {a} : g.loc[d] = gen.loc[d]
  <2>1. o \in GenType /\ {a} \in SUBSET Cgts  BY <1>7, <1>10 DEF Good
  <2>2. \A d \in Cgts : g.loc[d] = IF d \in {a} THEN "none" ELSE o.loc[d]  BY <2>1, RetireFields
  <2> QED  BY <1>11, <2>2
<1> HIDE DEF g
<1>14. Len(b) \in Nat /\ Shape(Mine(f), b, t, U) /\ g \in GenType  BY <1>12 DEF Good, Shape
<1>15. ASSUME NEW l \in 0 .. Len(b)
       PROVE  /\ \A d \in Wait(Mine(f), b, l) : g.loc[d] = gen.loc[d]
              /\ Wait(Mine(f), b, l) \ {c} \subseteq Wait(P, b, l) \ {a, c}
  <2>1. Wait(Mine(f), b, l) \in SUBSET Cgts  BY <1>14, OwnCgts
  <2>2. a \notin Wait(Mine(f), b, l) /\ Wait(Mine(f), b, l) \in SUBSET Wait(P, b, l)
    <3>1. CASE l = Len(b)  BY <1>7, <3>1 DEF Wait, P
    <3>2. CASE l # Len(b)
      <4>1. l \in 0 .. Len(b) - 1  BY <1>14, <3>2
      <4> QED  BY <1>12, <3>2, <4>1 DEF Wait, Own, Mine
    <3> QED  BY <3>1, <3>2
  <2> QED  BY <1>13, <2>1, <2>2
<1>16. Intact(f.machine, g.loc, Mine(f), b, t, Len(b), {c})
  <2>1. PICK m : m = f.machine  OBVIOUS
  <2>2. Agree(P, Mine(f), b, b, t, t, Len(b), {a, c}, {c})  BY <1>14, <1>15 DEF Agree
  <2>3. Intact(m, gen.loc, P, b, t, Len(b), {a, c})  BY <1>8, <2>1
  <2>4. Intact(m, gen.loc, Mine(f), b, t, Len(b), {c})  BY <2>2, <2>3, View
  <2>5. Intact(m, g.loc, Mine(f), b, t, Len(b), {c})  BY <1>14, <1>15, <2>4, SameIntact
  <2> QED  BY <2>1, <2>5
<1>17. Good(OnMachine(g, f.machine), Mine(f), b, t, U, {})
  <2>1. PICK m \in MachineType : m = f.machine  BY <1>6
  <2>2. PICK w : w = OnMachine(g, m)  OBVIOUS
  <2>3. Good(w, Mine(f), b, t, U, {c}) /\ w.loc = g.loc /\ w.reg = m.reg /\ w.slots = m.slots
    <3>1. {c} \in SUBSET Mine(f) /\ Intact(m, g.loc, Mine(f), b, t, Len(b), {c})
      BY <1>6, <1>16, <2>1
    <3> QED  BY <1>12, <2>2, <3>1, SwapGood
  <2>4. HasVal(w, w.loc, c)
    <3>1. w.loc[c] = gen.loc[c]  BY <1>6, <1>7, <1>13, <2>3
    <3> QED  BY <1>9, <2>1, <2>3, <3>1 DEF HasVal
  <2>5. Evolves(w, w, Mine(f), b, {})
    <3>1. w \in GenType  BY <2>3 DEF Good
    <3>2. \A r \in Regs : KeepsRange(w, w, r, {} \ Mine(f))  BY DEF KeepsRange
    <3> QED  BY <3>1, <3>2 DEF Evolves, Survives
  <2>6. /\ Mine(f) \in SUBSET Mine(f) /\ {} \in SUBSET Cgts /\ {} \in SUBSET Mine(f)
        /\ \A l \in 0 .. Len(b) - 1 : {} \cap Own(Mine(f), b, l) = {}
        /\ \A d \in Mine(f) \ {} : (d \notin {c} /\ d \notin {}) \/ HasVal(w, w.loc, d)
    BY <2>4
  <2>7. Good(w, Mine(f), b, t, U, {})  BY <2>3, <2>5, <2>6, Evolve
  <2> QED  BY <2>1, <2>2, <2>7
<1>18. \A m \in {Machine(g), f.machine} : Good(OnMachine(g, m), Mine(f), b, t, U, {})
  BY <1>12, <1>14, <1>17, OwnMachine
<1>19. /\ Append(f.outer, c) \in Seq(Cgts) /\ Distinct(Append(f.outer, c))
       /\ ToSet(Append(f.outer, c)) = Mine(f)
  BY <1>6, Added
<1>20. Good(gen', ToSet(operands'), frames', t, U, {})  BY <1>4, <1>18, <1>19
<1> QED  BY <1>4, <1>19, <1>20 DEF GenInv

-----------------------------------------------------------------------------
(* Calls.                                                                   *)

(* One more element. *)
LEMMA AppendSet ==
  ASSUME NEW T, NEW s \in Seq(T), NEW x \in T
  PROVE  /\ PushS(s, x) \in Seq(T)
         /\ \A y : y \in ToSet(PushS(s, x)) <=> y \in ToSet(s) \/ y = x
<1>1. PICK q \in Seq(T) : q = PushS(s, x)  BY PushFacts
<1>2. Len(q) = Len(s) + 1 /\ Len(s) \in Nat /\ (\A i \in 1 .. Len(s) : q[i] = s[i]) /\ q[Len(s) + 1] = x
  BY <1>1, PushIs
<1>3. DOMAIN q = 1 .. Len(s) + 1 /\ DOMAIN s = 1 .. Len(s)  BY <1>2
<1>4. \A i \in DOMAIN q : i \in DOMAIN s \/ i = Len(s) + 1  BY <1>2, <1>3
<1>5. ASSUME NEW y, y \in ToSet(q) PROVE y \in ToSet(s) \/ y = x
  <2>1. PICK i \in DOMAIN q : q[i] = y  BY <1>5 DEF ToSet
  <2> QED  BY <1>2, <1>3, <1>4, <2>1 DEF ToSet
<1>6. ASSUME NEW y \in ToSet(s) PROVE y \in ToSet(q)
  <2>1. PICK i \in DOMAIN s : s[i] = y  BY DEF ToSet
  <2>2. i \in DOMAIN q /\ q[i] = y  BY <1>2, <1>3, <2>1
  <2> QED  BY <2>2 DEF ToSet
<1>7. x \in ToSet(q)
  <2>1. Len(s) + 1 \in DOMAIN q  BY <1>2, <1>3
  <2> QED  BY <1>2, <2>1 DEF ToSet
<1> QED  BY <1>1, <1>5, <1>6, <1>7

(* The loop of nnc_gen_op_decl_call over the first n registers. *)
Pushes(g, res, r) == Busy(g, r) /\ (res = FREE \/ r # g.loc[res])
Loop(g, res, n, f) ==
  f = [i \in 0 .. n |->
         IF i = 0 THEN <<>>
         ELSE IF Busy(g, GlobRegs[i]) /\ (res = FREE \/ GlobRegs[i] # g.loc[res])
              THEN Append(f[i - 1], GlobRegs[i]) ELSE f[i - 1]]

(* The loop ends. *)
LEMMA LoopExists ==
  ASSUME NEW g, NEW res, NEW N \in Nat
  PROVE  \A n \in 0 .. N : \E f : Loop(g, res, n, f)
<1> DEFINE G == {k \in 0 .. N : \E f : Loop(g, res, k, f)}
           B(i) == Busy(g, GlobRegs[i]) /\ (res = FREE \/ GlobRegs[i] # g.loc[res])
<1>1. ASSUME NEW m \in 0 .. N, \A j \in 0 .. m - 1 : j \in G PROVE m \in G
  <2>1. CASE m = 0
    <3> DEFINE e == [i \in 0 .. 0 |-> <<>>]
    <3>1. \A i \in 0 .. 0 : i = 0  OBVIOUS
    <3>2. Loop(g, res, 0, e)  BY <3>1 DEF Loop
    <3> QED  BY <2>1, <3>2
  <2>2. CASE m # 0
    <3>1. m \in Nat /\ m - 1 \in Nat /\ m - 1 \in 0 .. m - 1  BY <2>2
    <3>2. PICK f : Loop(g, res, m - 1, f)  BY <1>1, <3>1
    <3> DEFINE e == [i \in 0 .. m |-> IF i = 0 THEN <<>> ELSE IF B(i)
                                      THEN Append(f[i - 1], GlobRegs[i]) ELSE f[i - 1]]
    <3>3. \A i \in 0 .. m - 1 : e[i] = f[i]
      <4>1. f = [i \in 0 .. m - 1 |-> IF i = 0 THEN <<>> ELSE IF B(i)
                                      THEN Append(f[i - 1], GlobRegs[i]) ELSE f[i - 1]]
        BY <3>2 DEF Loop
      <4> HIDE DEF B
      <4>2. \A i \in 0 .. m - 1 : f[i] = IF i = 0 THEN <<>> ELSE IF B(i)
                                         THEN Append(f[i - 1], GlobRegs[i]) ELSE f[i - 1]
        BY <4>1
      <4>3. \A i \in 0 .. m - 1 : i \in 0 .. m  BY <3>1
      <4>4. \A i \in 0 .. m : e[i] = IF i = 0 THEN <<>> ELSE IF B(i)
                                     THEN Append(f[i - 1], GlobRegs[i]) ELSE f[i - 1]
        OBVIOUS
      <4> HIDE DEF e
      <4> QED  BY <4>2, <4>3, <4>4
    <3>4. \A i \in 0 .. m : i # 0 => e[i - 1] = f[i - 1]
      <4>1. \A i \in 0 .. m : i # 0 => i - 1 \in 0 .. m - 1  BY <3>1
      <4> HIDE DEF e
      <4> QED  BY <3>3, <4>1
    <3>5. e = [i \in 0 .. m |-> IF i = 0 THEN <<>> ELSE IF B(i)
                                THEN Append(e[i - 1], GlobRegs[i]) ELSE e[i - 1]]
      <4> HIDE DEF B
      <4>1. PICK d : d = e  OBVIOUS
      <4>2. \A i \in 0 .. m : i # 0 => d[i - 1] = f[i - 1]  BY <3>4, <4>1
      <4>3. d = [i \in 0 .. m |-> IF i = 0 THEN <<>> ELSE IF B(i)
                                  THEN Append(d[i - 1], GlobRegs[i]) ELSE d[i - 1]]
        BY <4>1, <4>2
      <4> QED  BY <4>1, <4>3
    <3>6. Loop(g, res, m, e)
      <4> HIDE DEF e
      <4> QED  BY <3>5 DEF Loop
    <3> QED  BY <3>6
  <2> QED  BY <2>1, <2>2
<1>2. \A k \in 0 .. N : k \in G
  <2> HIDE DEF G
  <2> QED  BY <1>1, Induction
<1> QED  BY <1>2

(* nnc_gen_op_decl_call pushes the registers that are busy, except the one  *)
(* of the result.                                                           *)
LEMMA SavedIs ==
  ASSUME NEW g, NEW res
  PROVE  /\ Saved(g, res) \in Seq(Regs)
         /\ \A r \in Regs : r \in ToSet(Saved(g, res)) <=> Pushes(g, res, r)
<1> DEFINE N == Len(GlobRegs)
           f == CHOOSE d : Loop(g, res, N, d)
<1>0. N \in Nat /\ (\A i \in 1 .. N : GlobRegs[i] \in Regs)
      /\ \A r \in Regs : \E i \in 1 .. N : GlobRegs[i] = r
  <2>1. N \in Nat /\ DOMAIN GlobRegs = 1 .. N  BY RegAssumption
  <2> QED  BY <2>1 DEF Regs, ToSet
<1>1. Loop(g, res, N, f)
  <2>1. N \in 0 .. N  BY <1>0
  <2>2. \E d : Loop(g, res, N, d)
    <3> HIDE DEF N
    <3> QED  BY <1>0, <2>1, LoopExists
  <2> QED  BY <2>2
<1>2. Saved(g, res) = f[N]  BY DEF Saved, Loop
<1> HIDE DEF f
<1>3. \A i \in 0 .. N : f[i] = IF i = 0 THEN <<>> ELSE IF Pushes(g, res, GlobRegs[i])
                               THEN PushS(f[i - 1], GlobRegs[i]) ELSE f[i - 1]
  BY <1>1 DEF Loop, Pushes, PushS
<1> HIDE DEF N
<1> DEFINE G == {i \in 0 .. N : /\ f[i] \in Seq(Regs)
                                /\ \A r : r \in ToSet(f[i]) <=>
                                     \E j \in 1 .. i : GlobRegs[j] = r /\ Pushes(g, res, r)}
<1>4. ASSUME NEW m \in 0 .. N, \A j \in 0 .. m - 1 : j \in G PROVE m \in G
  <2>1. CASE m = 0
    <3>1. f[m] = <<>>  BY <1>3, <2>1
    <3>2. \A r : r \notin ToSet(<<>>)  BY DEF ToSet
    <3>3. ~\E j \in 1 .. m : TRUE  BY <2>1
    <3>4. <<>> \in Seq(Regs)  OBVIOUS
    <3> QED  BY <3>1, <3>2, <3>3, <3>4
  <2>2. CASE m # 0
    <3>1. m - 1 \in 0 .. m - 1 /\ m \in 1 .. N /\ m \in Nat  BY <1>0, <2>2
    <3>2. PICK s \in Seq(Regs) : s = f[m - 1]  BY <1>4, <3>1
    <3>3. \A r : r \in ToSet(s) <=> \E j \in 1 .. m - 1 : GlobRegs[j] = r /\ Pushes(g, res, r)
      BY <1>4, <3>1, <3>2
    <3>4. PICK x \in Regs : x = GlobRegs[m]  BY <1>0, <3>1
    <3>5. \A j : j \in 1 .. m <=> j \in 1 .. m - 1 \/ j = m  BY <3>1
    <3>6. CASE Pushes(g, res, x)
      <4>1. f[m] = PushS(s, x)  BY <1>3, <2>2, <3>2, <3>4, <3>6
      <4>2. PushS(s, x) \in Seq(Regs) /\ \A y : y \in ToSet(PushS(s, x)) <=> y \in ToSet(s) \/ y = x
        BY AppendSet
      <4> QED  BY <3>3, <3>4, <3>5, <3>6, <4>1, <4>2
    <3>7. CASE ~Pushes(g, res, x)
      <4>1. f[m] = s  BY <1>3, <2>2, <3>2, <3>4, <3>7
      <4> QED  BY <3>3, <3>4, <3>5, <3>7, <4>1
    <3> QED  BY <3>6, <3>7
  <2> QED  BY <2>1, <2>2
<1>5. \A i \in 0 .. N : i \in G
  <2> HIDE DEF G
  <2> QED  BY <1>0, <1>4, Induction
<1>6. N \in 0 .. N  BY <1>0
<1>7. f[N] \in Seq(Regs) /\ \A r : r \in ToSet(f[N]) <=>
                              \E j \in 1 .. N : GlobRegs[j] = r /\ Pushes(g, res, r)
  BY <1>5, <1>6
<1> QED  BY <1>0, <1>2, <1>7

(* w is g after the DECL_CALL of the frame f. *)
Declares(g, w, f) ==
  /\ w \in GenType /\ w.loc = g.loc /\ w.reg = g.reg /\ w.slots = g.slots
  /\ \A r \in Regs : w.lrs[r] = IF r \in ToSet(f.pushed) THEN PushS(g.lrs[r], FREE) ELSE g.lrs[r]
  /\ Len(w.stk) = Len(g.stk) + Len(f.pushed)
  /\ \A i \in 1 .. Len(g.stk) : w.stk[i] = g.stk[i]
  /\ \A q \in DOMAIN f.pushed : w.stk[Len(g.stk) + q] = g.reg[f.pushed[q]]

(* What is at stake in an open register is pushed by the next call. *)
LEMMA AtStake ==
  ASSUME NEW g, NEW O, NEW fs, NEW h, NEW S, NEW X, Good(g, O, fs, h, S, X),
         NEW f \in FrameType, FrameOK(f), Mine(f) = O, NEW ft, NEW t, NEW U,
         Extends(fs, f, h, S, ft, t, U), NEW l \in 0 .. Len(fs), NEW r \in Regs, NEW v,
         Valued(g.loc, {}, ft, {}, l, r, v), Open(fs, l, Len(fs))
  PROVE  Pushes(g, f.res, r)
<1>0. /\ g \in GenType /\ Shape(O, fs, h, S) /\ Ranged(g, O, fs, S) /\ fs \in Seq(FrameType)
      /\ Len(fs) \in Nat
  BY DEF Good, Shape
<1>1. g.lrs[r] \in Seq(Ranges)  BY <1>0, GenFields
<1>2. Waiting(fs, f, ft, O, {})  BY <1>0, ExtendOwn
<1>3. PICK o \in Ranges : Item(g.loc, O, fs, l, r, o) /\ o # FREE /\ (f.res # FREE => o # f.res)
  <2>1. CASE \E c \in Wait({}, ft, l) \ {} : g.loc[c] = r /\ v = Val(c)
    <3>1. PICK c \in Wait({}, ft, l) : g.loc[c] = r  BY <2>1
    <3>2. c \in Own(O, fs, l) /\ (f.res # FREE => c # f.res)
      <4>1. CASE l = Len(fs)  BY <1>2, <3>1, <4>1 DEF Waiting, Mine, FrameOK
      <4>2. CASE l # Len(fs)
        <5>1. l \in 0 .. Len(fs) - 1 /\ l < Len(fs) /\ Len(fs) \in 0 .. Len(fs)  BY <1>0, <4>2
        <5>2. c \in Own(O, fs, l)
          <6>1. c \in Wait(O, fs, l)  BY <1>2, <3>1, <5>1 DEF Waiting
          <6> QED  BY <1>0, <6>1, OwnCgts
        <5>3. Own(O, fs, l) \cap Own(O, fs, Len(fs)) = {} /\ Own(O, fs, Len(fs)) = O
          BY <1>0, <1>2, <5>1 DEF Shape, Waiting
        <5> QED  BY <5>2, <5>3 DEF Mine
      <4> QED  BY <4>1, <4>2
    <3>3. c \in Cgts  BY <1>0, <3>2, OwnCgts
    <3>4. c \in Ranges /\ c # FREE  BY <3>3, Numbers DEF Ranges
    <3> QED  BY <3>1, <3>2, <3>4 DEF Item
  <2>2. CASE ~\E c \in Wait({}, ft, l) \ {} : g.loc[c] = r /\ v = Val(c)
    <3>1. l >= 1 => ft[l] = fs[l]  BY <1>0 DEF Extends
    <3>2. l >= 1 /\ \E i \in 1 .. fs[l].args : i =< Len(IntPParam) /\ r = IntPParam[i]
      BY <2>2, <3>1 DEF Valued
    <3>3. PICK i \in 1 .. fs[l].args : i =< Len(IntPParam) /\ r = IntPParam[i]  BY <3>2
    <3>4. i \in DOMAIN IntPParam
      <4>1. fs[l] \in FrameType  BY <1>0, <3>2
      <4>2. fs[l].args \in Nat /\ IntPParam \in Seq(Regs)  BY <4>1, FrameParts, RegAssumption DEF Regs
      <4> QED  BY <3>3, <4>2
    <3>5. r \in AbiUsed(fs[l])  BY <3>3, <3>4 DEF AbiUsed
    <3>6. RESERVED \in Ranges /\ RESERVED # FREE /\ RESERVED # f.res
      <4>1. f.res \in Cgts \cup {FREE}  BY FrameParts
      <4> QED  BY <4>1, Numbers DEF Ranges
    <3> QED  BY <3>2, <3>5, <3>6 DEF Item
  <2> QED  BY <2>1, <2>2
<1>4. TopS(g.lrs[r]) = o  BY <1>0, <1>1, <1>3, Visible
<1>5. Busy(g, r)  BY <1>3, <1>4, PeekTop
<1>6. ASSUME f.res # FREE PROVE r # g.loc[f.res]
  <2>1. f.res \in O  BY <1>6 DEF Mine
  <2>2. g.loc[f.res] \in Regs => TopS(g.lrs[g.loc[f.res]]) = f.res  BY <2>1, HasContent
  <2> QED  BY <1>3, <1>4, <1>6, <2>2
<1> QED  BY <1>5, <1>6 DEF Pushes

(* A call is opened. *)
LEMMA OpenCall ==
  ASSUME NEW g, NEW O, NEW fs, NEW h, NEW S, NEW X, Good(g, O, fs, h, S, X), Len(fs) < MaxDepth,
         NEW f \in FrameType, FrameOK(f), f.kind = "call", f.args = 0, Mine(f) = O,
         X \cap ToSet(f.outer) = {}, NEW w, Declares(g, w, f),
         \A r \in Regs : r \in ToSet(f.pushed) <=> Pushes(g, f.res, r)
  PROVE  \E t, U : Good(w, {}, PushS(fs, f), t, U, {})
<1>0. /\ g \in GenType /\ Shape(O, fs, h, S) /\ Ranged(g, O, fs, S) /\ X \in SUBSET O
      /\ Intact(g, g.loc, O, fs, h, Len(fs), X) /\ Snapshots(g.loc, fs, h)
      /\ Len(fs) \in Nat
  BY DEF Good, Shape
<1>1. PICK ft : ft = PushS(fs, f)  OBVIOUS
<1>2. PICK t, U : Extends(fs, f, h, S, ft, t, U) /\ Shape({}, ft, t, U)  BY <1>0, <1>1, OpenShape
<1> DEFINE n == Len(fs)
           e == Len(g.stk)
<1>3. f.pushed \in Seq(Regs) /\ Len(f.pushed) \in Nat /\ Size(f) = Len(f.pushed) + 0
      /\ AbiUsed(f) = {} /\ Len(IntPParam) \in Nat
  <2>1. f.pushed \in Seq(Regs) /\ Len(IntPParam) \in Nat  BY FrameParts
  <2>2. StackArgs(f) = 0  BY <2>1 DEF StackArgs
  <2> QED  BY <2>1, <2>2 DEF Size, AbiUsed
<1>4. /\ ft \in Seq(FrameType) /\ Len(ft) = n + 1 /\ ft[n + 1] = f /\ \A j \in 1 .. n : ft[j] = fs[j]
      /\ \A l \in 0 .. n : t[l] = h[l]
  BY <1>2 DEF Extends
<1>5. e \in Nat /\ t[n] = e /\ t[n + 1] = e + Len(f.pushed)
  <2>1. n \in 0 .. n /\ n \in n .. n  BY <1>0
  <2>2. h[n] \in Nat /\ e = h[n]  BY <1>0, <2>1, Growing DEF Intact
  <2>3. t[n] = h[n] /\ t[n + 1] = h[n] + Size(f)  BY <1>2, <2>1 DEF Extends
  <2> HIDE DEF e, n
  <2> QED  BY <1>3, <2>2, <2>3
<1>6. ToSet(f.outer) \in SUBSET O  BY DEF Mine
<1>7. Layered(g, w, f)
  <2> SUFFICES ASSUME NEW r \in Regs
               PROVE  /\ Len(g.lrs[r]) \in Nat
                      /\ Len(w.lrs[r]) = Len(g.lrs[r]) + Levels(f, r)
                      /\ \A i \in 1 .. Len(g.lrs[r]) : w.lrs[r][i] = g.lrs[r][i]
    BY DEF Layered, Declares
  <2>1. PICK s \in Seq(Ranges) : s = g.lrs[r]  BY <1>0, GenFields
  <2>2. Levels(f, r) = (IF r \in ToSet(f.pushed) THEN 1 ELSE 0)  BY <1>3 DEF Levels
  <2>3. Len(s) \in Nat  OBVIOUS
  <2>4. CASE r \in ToSet(f.pushed)
    <3>1. w.lrs[r] = PushS(s, FREE)  BY <2>1, <2>4 DEF Declares
    <3>2. FREE \in Ranges  BY DEF Ranges
    <3>3. Len(PushS(s, FREE)) = Len(s) + 1 /\ \A i \in 1 .. Len(s) : PushS(s, FREE)[i] = s[i]
      BY <3>2, PushIs
    <3> QED  BY <2>1, <2>2, <2>3, <2>4, <3>1, <3>3
  <2>5. CASE r \notin ToSet(f.pushed)
    <3>1. w.lrs[r] = s  BY <2>1, <2>5 DEF Declares
    <3> QED  BY <2>1, <2>2, <2>3, <2>5, <3>1
  <2> QED  BY <2>4, <2>5
<1>8. Ranged(w, {}, ft, U)  BY <1>0, <1>2, <1>7, OpenRanged
<1>9. w.loc = g.loc /\ w.reg = g.reg /\ w.slots = g.slots /\ w \in GenType  BY DEF Declares
<1>10. Snapshots(w.loc, ft, t)
  <2>1. ASSUME f.res # FREE PROVE g.loc[f.res] \notin ToSet(f.pushed)
    <3>1. ToSet(f.pushed) \in SUBSET Regs  BY <1>3 DEF ToSet
    <3> QED  BY <2>1, <3>1 DEF Pushes
  <2>2. {} \in SUBSET O /\ {} \cap ToSet(f.outer) = {}  OBVIOUS
  <2>3. Snapshots(g.loc, ft, t)  BY <1>0, <1>2, <1>6, <2>1, <2>2, OpenSnapshots
  <2> QED  BY <1>9, <2>3
<1>11. Intact(g, g.loc, {}, ft, t, n, {})
  <2>1. Agree(O, {}, fs, ft, h, t, Len(fs), X, {})  BY <1>0, <1>2, <1>6, OpenAgree
  <2> QED  BY <1>0, <2>1, View
<1>12. ASSUME NEW l \in 0 .. n + 1, NEW r \in Regs, NEW v \in Values,
              Valued(g.loc, {}, ft, {}, l, r, v)
       PROVE  ValueAt(w, ft, t, l, n + 1, r, v)
  <2>1. l \in 0 .. n
    <3>1. CASE l = n + 1
      <4>1. Wait({}, ft, l) = {} /\ ft[l].args = 0  BY <1>4, <3>1 DEF Wait
      <4> QED  BY <1>12, <4>1 DEF Valued
    <3> QED  BY <1>0, <3>1
  <2>2. ValueAt(g, ft, t, l, n, r, v)  BY <1>11, <1>12, <2>1 DEF Intact
  <2>3. ~Open(ft, l, n + 1)
    <3>1. n + 1 \in l + 1 .. n + 1  BY <1>0, <2>1
    <3> QED  BY <1>4, <3>1 DEF Open
  <2>4. ASSUME NEW j \in l + 1 .. n, Open(ft, l, j - 1), ft[j].kind = "call"
        PROVE  /\ r \in ToSet(ft[j].pushed)
               /\ \A q \in DOMAIN ft[j].pushed : ft[j].pushed[q] = r => w.stk[t[j - 1] + q] = v
    <3>1. /\ r \in ToSet(ft[j].pushed)
          /\ \A q \in DOMAIN ft[j].pushed : ft[j].pushed[q] = r => g.stk[t[j - 1] + q] = v
      BY <2>2, <2>4 DEF ValueAt
    <3>2. j \in 1 .. n /\ n \in 0 .. Len(ft)  BY <1>0, <1>4, <2>1
    <3>3. \A q \in DOMAIN ft[j].pushed : t[j - 1] + q \in 1 .. t[n]  BY <1>2, <3>2, SavedPlace
    <3>4. \A q \in DOMAIN ft[j].pushed : w.stk[t[j - 1] + q] = g.stk[t[j - 1] + q]
      BY <1>5, <3>3 DEF Declares
    <3> QED  BY <3>1, <3>4
  <2>5. ASSUME Open(ft, l, n)
        PROVE  /\ r \in ToSet(f.pushed)
               /\ \A q \in DOMAIN f.pushed : f.pushed[q] = r => w.stk[t[n] + q] = v
    <3>1. Open(fs, l, n)
      <4>1. \A j \in l + 1 .. n : j \in 1 .. n  BY <1>0, <2>1
      <4> QED  BY <1>4, <2>5, <4>1 DEF Open
    <3>2. Pushes(g, f.res, r)  BY <1>2, <1>12, <2>1, <3>1, AtStake
    <3>3. g.reg[r] = v  BY <2>2, <2>5 DEF ValueAt
    <3> QED  BY <1>5, <3>2, <3>3 DEF Declares
  <2>6. \A j \in l + 1 .. n + 1 : j \in l + 1 .. n \/ (j = n + 1 /\ j - 1 = n)  BY <1>0, <2>1
  <2> QED  BY <1>4, <2>3, <2>4, <2>5, <2>6 DEF ValueAt
<1>13. \A l \in 0 .. n + 1 : \A c \in Wait({}, ft, l) \ {} : g.loc[c] = "stack" => c \in w.slots
  <2>1. \A l \in 0 .. n + 1 : l \in 0 .. n \/ l = n + 1  BY <1>0
  <2>2. Wait({}, ft, n + 1) = {}  BY <1>4 DEF Wait
  <2> QED  BY <1>9, <1>11, <2>1, <2>2 DEF Intact
<1>14. ASSUME NEW l \in 1 .. n + 1, NEW i \in 1 .. ft[l].args, i > Len(IntPParam)
       PROVE  w.stk[t[l] - ft[l].args + i] = ArgVal(l, i)
  <2>1. l \in 1 .. n
    <3>1. CASE l = n + 1  BY <1>4, <3>1
    <3> QED  BY <1>0, <3>1
  <2>2. g.stk[t[l] - ft[l].args + i] = ArgVal(l, i)  BY <1>11, <1>14, <2>1 DEF Intact
  <2>3. n \in 0 .. Len(ft)  BY <1>0, <1>4
  <2>4. t[l] - ft[l].args + i \in 1 .. t[n]  BY <1>2, <1>14, <2>1, <2>3, ArgPlace
  <2> QED  BY <1>5, <2>2, <2>4 DEF Declares
<1>15. Intact(w, w.loc, {}, ft, t, Len(ft), {})
  <2>1. Len(w.stk) = t[n + 1]  BY <1>5 DEF Declares
  <2> QED  BY <1>4, <1>9, <1>12, <1>13, <1>14, <2>1 DEF Intact
<1>16. Good(w, {}, ft, t, U, {})  BY <1>2, <1>8, <1>9, <1>10, <1>15 DEF Good
<1> QED  BY <1>1, <1>16

(* A call without arguments is a frame. *)
LEMMA CallFrame ==
  ASSUME NEW outer \in Seq(Cgts), Distinct(outer), NEW res \in Cgts \cup {FREE},
         res \notin ToSet(outer), NEW pushed \in Seq(Regs)
  PROVE  LET f == MkFrame("call", outer, res, pushed, <<>>)
         IN  /\ f \in FrameType /\ FrameOK(f) /\ f.kind = "call" /\ f.res = res /\ f.outer = outer
             /\ f.pushed = pushed /\ f.args = 0
             /\ Mine(f) = ToSet(outer) \cup ({res} \ {FREE})
<1> DEFINE f == MkFrame("call", outer, res, pushed, <<>>)
<1>1. 0 \in 0 .. MaxArgs  BY BoundAssumption
<1>2. f \in FrameType  BY <1>1 DEF MkFrame, FrameType
<1>3. /\ f.kind = "call" /\ f.res = res /\ f.outer = outer /\ f.pushed = pushed /\ f.args = 0
  BY DEF MkFrame
<1>4. FrameOK(f)
  <2> HIDE DEF f
  <2> QED  BY <1>3 DEF FrameOK
<1>5. Mine(f) = ToSet(outer) \cup ({res} \ {FREE})
  <2> HIDE DEF f
  <2> QED  BY <1>3 DEF Mine
<1> QED  BY <1>2, <1>3, <1>4, <1>5

(* The pushes of nnc_gen_op_decl_call. *)
LEMMA DeclareIs ==
  ASSUME NEW g \in GenType, NEW f, NEW pushed \in Seq(Regs), f.pushed = pushed
  PROVE  Declares(g, [g EXCEPT
                        !.lrs = [r \in Regs |-> IF r \in ToSet(pushed) THEN Append(@[r], FREE) ELSE @[r]],
                        !.stk = @ \o [i \in DOMAIN pushed |-> g.reg[pushed[i]]]], f)
<1>0. /\ g.lrs \in [Regs -> Seq(Ranges)] /\ g.loc \in [Cgts -> Places]
      /\ g.reg \in [Regs -> Values] /\ g.slots \in SUBSET Cgts /\ g.stk \in Seq(Values)
  BY GenFields
<1> DEFINE L == [r \in Regs |-> IF r \in ToSet(pushed) THEN Append(g.lrs[r], FREE) ELSE g.lrs[r]]
           m == Len(pushed)
           n == Len(g.stk)
           p == [i \in DOMAIN pushed |-> g.reg[pushed[i]]]
           k == g.stk \o p
           w == [g EXCEPT !.lrs = L, !.stk = k]
<1>1. m \in Nat /\ n \in Nat /\ DOMAIN pushed = 1 .. m /\ \A i \in 1 .. m : pushed[i] \in Regs
  BY <1>0
<1>2. p \in Seq(Values) /\ Len(p) = m /\ \A i \in 1 .. m : p[i] = g.reg[pushed[i]]
  <2>1. p = [i \in 1 .. m |-> g.reg[pushed[i]]]  BY <1>1
  <2>2. \A i \in 1 .. m : g.reg[pushed[i]] \in Values  BY <1>0, <1>1
  <2> HIDE DEF p, m
  <2> QED  BY <1>1, <2>1, <2>2
<1> HIDE DEF p
<1>3. /\ k \in Seq(Values) /\ Len(k) = n + m
      /\ \A i \in 1 .. n : k[i] = g.stk[i]
      /\ \A q \in 1 .. m : k[n + q] = p[q]
  <2>1. k \in Seq(Values) /\ Len(k) = Len(g.stk) + Len(p)  BY <1>0, <1>2, ConcatProperties
  <2>2. \A i \in 1 .. Len(g.stk) + Len(p) :
           k[i] = IF i <= Len(g.stk) THEN g.stk[i] ELSE p[i - Len(g.stk)]
    BY <1>0, <1>2, ConcatProperties
  <2>3. \A i \in 1 .. n : i \in 1 .. n + m /\ i =< n  BY <1>1
  <2>4. \A q \in 1 .. m : n + q \in 1 .. n + m /\ ~(n + q =< n) /\ (n + q) - n = q  BY <1>1
  <2>5. /\ k \in Seq(Values) /\ Len(k) = n + m
        /\ \A i \in 1 .. n + m : k[i] = IF i =< n THEN g.stk[i] ELSE p[i - n]
    BY <1>2, <2>1, <2>2
  <2> HIDE DEF k, m, n
  <2>6. \A i \in 1 .. n : k[i] = g.stk[i]  BY <2>3, <2>5
  <2>7. \A q \in 1 .. m : k[n + q] = p[q]
    <3> TAKE q \in 1 .. m
    <3>1. PICK i : i = n + q  OBVIOUS
    <3>2. i \in 1 .. n + m /\ ~(i =< n) /\ i - n = q  BY <2>4, <3>1
    <3>3. k[i] = p[i - n]  BY <2>5, <3>2
    <3> QED  BY <3>1, <3>2, <3>3
  <2> QED  BY <2>5, <2>6, <2>7
<1>4. L \in [Regs -> Seq(Ranges)]
      /\ \A r \in Regs : L[r] = IF r \in ToSet(pushed) THEN PushS(g.lrs[r], FREE) ELSE g.lrs[r]
  <2>1. FREE \in Ranges  BY DEF Ranges
  <2>2. \A r \in Regs : PushS(g.lrs[r], FREE) \in Seq(Ranges) /\ g.lrs[r] \in Seq(Ranges)
    BY <1>0, <2>1, PushFacts
  <2> QED  BY <2>2 DEF PushS
<1> HIDE DEF L, k
<1>5. /\ w \in GenType /\ w.loc = g.loc /\ w.reg = g.reg /\ w.slots = g.slots
      /\ w.lrs = L /\ w.stk = k
  BY <1>0, <1>3, <1>4 DEF GenType
<1> HIDE DEF w
<1>6. Declares(g, w, f)  BY <1>1, <1>2, <1>3, <1>4, <1>5 DEF Declares
<1> QED  BY <1>6 DEF w, L, k, p

(* OP_DECL_CALL *)
LEMMA DeclCallInv ==
  ASSUME GenInv, NEW function \in BOOLEAN, DeclCall(function)
  PROVE  GenInv'
<1>0. /\ operands \in Seq(Cgts) /\ Distinct(operands) /\ Len(frames) < MaxDepth
      /\ function => Dead(gen) # {}
  BY Start DEF DeclCall
<1>1. PICK h, S : Good(gen, ToSet(operands), frames, h, S, {})  BY Start
<1> DEFINE res == IF function THEN Fresh(gen) ELSE FREE
           g == IF function THEN StoreCgt(gen, res) ELSE gen
           pushed == Saved(g, res)
           f == MkFrame("call", operands, res, pushed, <<>>)
           w == [g EXCEPT
                   !.lrs = [r \in Regs |-> IF r \in ToSet(pushed) THEN Append(@[r], FREE) ELSE @[r]],
                   !.stk = @ \o [i \in DOMAIN pushed |-> g.reg[pushed[i]]]]
           R == {res} \ {FREE}
           O == ToSet(operands) \cup R
<1>2. gen' = w /\ operands' = <<>> /\ frames' = PushS(frames, f)
  BY DEF DeclCall, PushS, MkFrame
<1>3. res \in Cgts \cup {FREE} /\ res \notin ToSet(operands) /\ Good(g, O, frames, h, S, R)
  <2>1. CASE function
    <3>1. res = Fresh(gen) /\ g = StoreCgt(gen, res)  BY <2>1
    <3> HIDE DEF res, g
    <3>2. res \in Cgts /\ gen.loc[res] = "none"  BY <1>0, <2>1, <3>1, FreshDead
    <3>3. Good(StoreCgt(gen, res), ToSet(operands) \cup {res}, frames, h, S, {} \cup {res})
          /\ res \notin ToSet(operands)
      BY <1>1, <3>2, StoreGood
    <3>4. R = {res} /\ {} \cup {res} = {res}  BY <3>2, Numbers
    <3> HIDE DEF R
    <3> QED  BY <3>1, <3>2, <3>3, <3>4
  <2>2. CASE ~function
    <3>1. res = FREE /\ g = gen  BY <2>2
    <3> HIDE DEF res, g
    <3>2. R = {} /\ O = ToSet(operands)  BY <3>1
    <3>3. FREE \notin ToSet(operands)  BY Start, Numbers
    <3> HIDE DEF R, O
    <3> QED  BY <1>1, <3>1, <3>2, <3>3
  <2> QED  BY <2>1, <2>2
<1> HIDE DEF g, res
<1>4. pushed \in Seq(Regs) /\ \A r \in Regs : r \in ToSet(pushed) <=> Pushes(g, res, r)
  BY SavedIs
<1> HIDE DEF pushed
<1>5. /\ f \in FrameType /\ FrameOK(f) /\ f.kind = "call" /\ f.res = res /\ f.outer = operands
      /\ f.pushed = pushed /\ f.args = 0 /\ Mine(f) = O
  BY <1>0, <1>3, <1>4, CallFrame
<1> HIDE DEF f
<1>6. Declares(g, w, f)
  <2>1. g \in GenType  BY <1>3 DEF Good
  <2> QED  BY <1>4, <1>5, <2>1, DeclareIs
<1>7. \E t, U : Good(w, {}, PushS(frames, f), t, U, {})
  <2>1. R \cap ToSet(f.outer) = {}  BY <1>3, <1>5
  <2>2. \A r \in Regs : r \in ToSet(f.pushed) <=> Pushes(g, f.res, r)  BY <1>4, <1>5
  <2> HIDE DEF w, O, R
  <2> QED  BY <1>0, <1>3, <1>5, <1>6, <2>1, <2>2, OpenCall
<1> HIDE DEF w
<1> QED  BY <1>2, <1>7, NoneWait DEF GenInv

(* ft are the frames after OP_ARG has placed argument i of the innermost    *)
(* call.                                                                    *)
Argued(fs, ft, i) ==
  /\ fs \in Seq(FrameType) /\ ft \in Seq(FrameType) /\ Len(ft) = Len(fs) /\ Len(fs) >= 1
  /\ \A j \in 1 .. Len(fs) - 1 : ft[j] = fs[j]
  /\ LET f == fs[Len(fs)]
         e == ft[Len(fs)]
     IN  /\ f.kind = "call" /\ e.kind = "call" /\ e.outer = f.outer /\ e.res = f.res
         /\ e.pushed = f.pushed /\ i = f.args + 1 /\ e.args = i

(* What the argument adds to the frame. *)
LEMMA ArgAdds ==
  ASSUME NEW fs, NEW ft, NEW i, Argued(fs, ft, i)
  PROVE  LET f == fs[Len(fs)]
             e == ft[Len(fs)]
             L == Len(IntPParam)
         IN  /\ f \in FrameType /\ e \in FrameType /\ Mine(e) = Mine(f) /\ i \in Nat /\ L \in Nat
             /\ \A l \in 0 .. Len(fs) : Own({}, ft, l) = Own({}, fs, l) /\ Wait({}, ft, l) = Wait({}, fs, l)
             /\ \A j \in 1 .. Len(fs) : ft[j].kind = fs[j].kind /\ ft[j].pushed = fs[j].pushed
             /\ FrameOK(f) => FrameOK(e)
             /\ Size(e) = Size(f) + (IF i > L THEN 1 ELSE 0) /\ Size(f) \in Nat
             /\ i =< L => /\ IntPParam[i] \in Regs /\ IntPParam[i] \notin AbiUsed(f)
                          /\ AbiUsed(e) = AbiUsed(f) \cup {IntPParam[i]}
             /\ i > L => AbiUsed(e) = AbiUsed(f)
<1> DEFINE n == Len(fs)
           f == fs[n]
           e == ft[n]
           L == Len(IntPParam)
<1>0. /\ fs \in Seq(FrameType) /\ ft \in Seq(FrameType) /\ Len(ft) = n /\ n \in 1 .. n /\ n \in Nat
      /\ \A j \in 1 .. n - 1 : ft[j] = fs[j]
  BY DEF Argued
<1>1. /\ f.kind = "call" /\ e.kind = "call" /\ e.outer = f.outer /\ e.res = f.res
      /\ e.pushed = f.pushed /\ i = f.args + 1 /\ e.args = i
  BY DEF Argued
<1>2. f \in FrameType /\ e \in FrameType  BY <1>0
<1> HIDE DEF f, e
<1>3. f.args \in Nat /\ L \in Nat /\ Size(f) \in Nat  BY <1>2, FrameParts
<1>4. i \in Nat /\ i >= 1  BY <1>1, <1>3
<1>5. Mine(e) = Mine(f)  BY <1>1 DEF Mine
<1>6. FrameOK(f) => FrameOK(e)  BY <1>1 DEF FrameOK
<1>7. ASSUME NEW l \in 0 .. n
      PROVE  Own({}, ft, l) = Own({}, fs, l) /\ Wait({}, ft, l) = Wait({}, fs, l)
  <2>1. CASE l = n  BY <1>0, <2>1 DEF Own, Wait
  <2>2. CASE l = n - 1
    <3>1. l + 1 = n /\ l # n  BY <1>0, <2>2
    <3>2. Own({}, ft, l) = Mine(ft[n]) /\ Own({}, fs, l) = Mine(fs[n])
          /\ Wait({}, ft, l) = ToSet(ft[n].outer) /\ Wait({}, fs, l) = ToSet(fs[n].outer)
      BY <1>0, <3>1 DEF Own, Wait
    <3> QED  BY <1>1, <1>5, <3>2 DEF e, f
  <2>3. CASE l # n /\ l # n - 1
    <3>1. l + 1 \in 1 .. n - 1 /\ l # n  BY <1>0, <2>3
    <3> QED  BY <1>0, <3>1 DEF Own, Wait
  <2> QED  BY <2>1, <2>2, <2>3
<1>8. ASSUME NEW j \in 1 .. n PROVE ft[j].kind = fs[j].kind /\ ft[j].pushed = fs[j].pushed
  <2>1. CASE j = n  BY <1>1, <2>1 DEF e, f
  <2>2. CASE j # n
    <3>1. j \in 1 .. n - 1  BY <1>0, <2>2
    <3> QED  BY <1>0, <3>1
  <2> QED  BY <2>1, <2>2
<1>9. Size(e) = Size(f) + (IF i > L THEN 1 ELSE 0)
  <2>1. StackArgs(e) = StackArgs(f) + (IF i > L THEN 1 ELSE 0)
    <3> HIDE DEF L
    <3> QED  BY <1>1, <1>3, <1>4 DEF StackArgs, L
  <2>2. StackArgs(f) \in Nat /\ Len(f.pushed) \in Nat  BY <1>2, FrameParts
  <2> HIDE DEF L
  <2> QED  BY <1>1, <2>1, <2>2 DEF Size
<1>10. IntPParam \in Seq(Regs) /\ DOMAIN IntPParam = 1 .. L  BY RegAssumption DEF Regs
<1>11. \A k \in 1 .. L : (k \in 1 .. e.args <=> k \in 1 .. f.args \/ k = i)
  BY <1>1, <1>3, <1>4
<1>12. ASSUME i =< L
       PROVE  /\ IntPParam[i] \in Regs /\ IntPParam[i] \notin AbiUsed(f)
              /\ AbiUsed(e) = AbiUsed(f) \cup {IntPParam[i]}
  <2>1. i \in 1 .. L /\ i \notin 1 .. f.args  BY <1>1, <1>3, <1>4, <1>12
  <2>2. IntPParam[i] \in Regs  BY <1>10, <2>1
  <2>3. IntPParam[i] \notin AbiUsed(f)
    <3>1. SUFFICES ASSUME NEW k \in DOMAIN IntPParam \cap (1 .. f.args), IntPParam[k] = IntPParam[i]
                   PROVE  FALSE
      BY DEF AbiUsed
    <3>2. k = i  BY <1>10, <2>1, <3>1, RegAssumption
    <3> QED  BY <2>1, <3>2
  <2>4. e.args \in Nat /\ i \in DOMAIN IntPParam \cap (1 .. e.args)  BY <1>1, <1>4, <1>10, <2>1
  <2>5. AbiUsed(e) = AbiUsed(f) \cup {IntPParam[i]}  BY <1>10, <1>11, <2>4 DEF AbiUsed
  <2> QED  BY <2>2, <2>3, <2>5
<1>13. ASSUME i > L PROVE AbiUsed(e) = AbiUsed(f)
  <2>1. i \notin 1 .. L  BY <1>3, <1>4, <1>13
  <2> QED  BY <1>10, <1>11, <2>1 DEF AbiUsed
<1> QED  BY <1>2, <1>3, <1>4, <1>5, <1>6, <1>7, <1>8, <1>9, <1>12, <1>13 DEF f, e

(* The heights and the counts with the argument. *)
Stepped(fs, h, S, t, U, i) ==
  /\ \A l \in 0 .. Len(fs) - 1 : t[l] = h[l] /\ U[l] = S[l]
  /\ t[Len(fs)] = h[Len(fs)] + (IF i > Len(IntPParam) THEN 1 ELSE 0)
  /\ \A r \in Regs : U[Len(fs)][r] =
       S[Len(fs)][r] + (IF i =< Len(IntPParam) /\ r = IntPParam[i] THEN 1 ELSE 0)

(* An argument is placed: the shape, and the machines at the jumps. *)
LEMMA ArgShape ==
  ASSUME NEW fs, NEW ft, NEW i, Argued(fs, ft, i), NEW h, NEW S, Shape({}, fs, h, S),
         NEW loc, Snapshots(loc, fs, h)
  PROVE  \E t, U : Stepped(fs, h, S, t, U, i) /\ Shape({}, ft, t, U) /\ Snapshots(loc, ft, t)
<1> DEFINE n == Len(fs)
           f == TopS(fs)
           e == ft[n]
           q == PopS(fs)
           L == Len(IntPParam)
<1>0. /\ fs \in Seq(FrameType) /\ ft \in Seq(FrameType) /\ Len(ft) = n /\ n \in 1 .. n /\ n \in Nat
      /\ \A j \in 1 .. n - 1 : ft[j] = fs[j]
  BY DEF Argued
<1>1. n =< MaxDepth /\ FrameOK(fs[n])  BY <1>0 DEF Shape
<1>2. fs # <<>> /\ f = fs[n] /\ q \in Seq(FrameType) /\ Len(q) = n - 1
      /\ \A j \in 1 .. n - 1 : q[j] = fs[j]
  <2>1. fs # <<>>  BY <1>0
  <2>2. TopS(fs) = fs[Len(fs)] /\ PopS(fs) \in Seq(FrameType)
        /\ Len(PopS(fs)) = (IF Len(fs) = 0 THEN 0 ELSE Len(fs) - 1)
        /\ \A j \in 1 .. Len(fs) - 1 : PopS(fs)[j] = fs[j]
    BY <1>0, <2>1, StackFacts
  <2> QED  BY <1>0, <2>1, <2>2
<1>3. /\ f \in FrameType /\ e \in FrameType /\ Mine(e) = Mine(f) /\ i \in Nat /\ L \in Nat
      /\ FrameOK(e) /\ Size(f) \in Nat
      /\ Size(e) = Size(f) + (IF i > L THEN 1 ELSE 0)
      /\ \A r : Levels(e, r) = Levels(f, r) + (IF i =< L /\ r = IntPParam[i] THEN 1 ELSE 0)
  <2>1. /\ f \in FrameType /\ e \in FrameType /\ Mine(e) = Mine(f) /\ i \in Nat /\ L \in Nat
        /\ FrameOK(e) /\ Size(f) \in Nat
        /\ Size(e) = Size(f) + (IF i > L THEN 1 ELSE 0)
        /\ i =< L => IntPParam[i] \notin AbiUsed(f) /\ AbiUsed(e) = AbiUsed(f) \cup {IntPParam[i]}
        /\ i > L => AbiUsed(e) = AbiUsed(f)
    <3> DEFINE d == fs[n]
    <3>1. /\ d \in FrameType /\ e \in FrameType /\ Mine(e) = Mine(d) /\ i \in Nat /\ L \in Nat
          /\ (FrameOK(d) => FrameOK(e)) /\ Size(d) \in Nat
          /\ Size(e) = Size(d) + (IF i > L THEN 1 ELSE 0)
          /\ i =< L => IntPParam[i] \notin AbiUsed(d) /\ AbiUsed(e) = AbiUsed(d) \cup {IntPParam[i]}
          /\ i > L => AbiUsed(e) = AbiUsed(d)
      BY ArgAdds
    <3>2. f = d /\ FrameOK(d)  BY <1>1, <1>2
    <3> HIDE DEF f, d, e, L
    <3> QED  BY <3>1, <3>2
  <2>2. e.pushed = f.pushed  BY <1>2 DEF Argued
  <2>3. i =< L \/ i > L  BY <2>1
  <2>4. \A r : Levels(e, r) = Levels(f, r) + (IF i =< L /\ r = IntPParam[i] THEN 1 ELSE 0)
    <3> HIDE DEF e, f, L
    <3> QED  BY <2>1, <2>2, <2>3 DEF Levels
  <2> QED  BY <2>1, <2>4
<1>4. e.kind = "call" /\ f.kind = "call" /\ e.res = f.res /\ e.pushed = f.pushed /\ e.outer = f.outer
  BY <1>2 DEF Argued
<1>5. PICK h1, S1 : Extends(q, f, h1, S1, fs, h, S) /\ Shape(Mine(f) \cup {}, q, h1, S1)
  BY <1>2, CloseShape
<1> DEFINE P == Mine(f) \cup {}
<1>6. Shape(P, q, h1, S1) /\ Mine(e) = P /\ Len(q) < MaxDepth
  <2>1. MaxDepth \in Nat  BY BoundAssumption
  <2> QED  BY <1>0, <1>1, <1>2, <1>3, <1>5, <2>1
<1>7. PushS(q, e) = ft
  <2>1. PICK p : p = PushS(q, e)  OBVIOUS
  <2>2. p \in Seq(FrameType) /\ Len(p) = Len(q) + 1 /\ (\A j \in 1 .. Len(q) : p[j] = q[j])
        /\ p[Len(q) + 1] = e
    <3>1. q \in Seq(FrameType) /\ e \in FrameType  BY <1>2, <1>3
    <3> HIDE DEF q, e
    <3>2. PushS(q, e) \in Seq(FrameType)  BY <3>1, PushFacts
    <3> QED  BY <2>1, <3>1, <3>2, PushIs
  <2>3. Len(p) = n /\ p[n] = ft[n] /\ \A j \in 1 .. n - 1 : p[j] = ft[j]  BY <1>0, <1>2, <2>2
  <2>4. \A j \in 1 .. n : j = n \/ j \in 1 .. n - 1  BY <1>0
  <2>5. \A j \in 1 .. n : p[j] = ft[j]  BY <2>3, <2>4
  <2>6. p = ft  BY <1>0, <2>2, <2>3, <2>5, SeqEqual
  <2> QED  BY <2>1, <2>6
<1> HIDE DEF P, e, f, q
<1>8. PICK t, U : Extends(q, e, h1, S1, ft, t, U) /\ Shape({}, ft, t, U)
  BY <1>3, <1>6, <1>7, OpenShape
<1>9. Snapshots(loc, q, h1)  BY <1>5, <1>6, CloseSnapshots
<1>10. Snapshots(loc, ft, t)
  <2>1. f.res # FREE => loc[f.res] \notin ToSet(f.pushed)
    BY <1>0, <1>2, <1>4 DEF Snapshots
  <2>2. {} \in SUBSET P /\ {} \cap ToSet(e.outer) = {} /\ ToSet(e.outer) \in SUBSET P
    BY <1>6 DEF Mine
  <2> QED  BY <1>4, <1>6, <1>8, <1>9, <2>1, <2>2, OpenSnapshots
<1>11. Stepped(fs, h, S, t, U, i)
  <2>1. /\ \A l \in 0 .. n - 1 : h[l] = h1[l] /\ S[l] = S1[l] /\ t[l] = h1[l] /\ U[l] = S1[l]
        /\ h[n] = h1[n - 1] + Size(f) /\ t[n] = h1[n - 1] + Size(e)
        /\ \A r \in Regs : /\ S[n][r] = S1[n - 1][r] + Levels(f, r)
                           /\ U[n][r] = S1[n - 1][r] + Levels(e, r)
    <3>1. Len(q) + 1 = n  BY <1>0, <1>2
    <3> QED  BY <1>2, <1>5, <1>8, <3>1 DEF Extends
  <2>2. h1[n - 1] \in Nat /\ \A r \in Regs : S1[n - 1][r] \in Nat
    <3>1. n - 1 \in 0 .. Len(q) /\ n - 1 \in (n - 1) .. Len(q)  BY <1>0, <1>2
    <3> QED  BY <1>6, <3>1, Growing
  <2>3. \A r : Levels(f, r) \in {0, 1, 2}  BY <1>3, FrameParts
  <2>4. t[n] = h[n] + (IF i > L THEN 1 ELSE 0)
    <3> HIDE DEF L
    <3> QED  BY <1>3, <2>1, <2>2
  <2>5. \A r \in Regs : U[n][r] = S[n][r] + (IF i =< L /\ r = IntPParam[i] THEN 1 ELSE 0)
    <3> HIDE DEF L
    <3> TAKE r \in Regs
    <3>1. PICK a \in Nat : a = S1[n - 1][r]  BY <2>2
    <3>2. PICK b \in {0, 1, 2} : b = Levels(f, r)  BY <2>3
    <3>3. S[n][r] = a + b  BY <2>1, <3>1, <3>2
    <3>4. U[n][r] = a + (b + (IF i =< L /\ r = IntPParam[i] THEN 1 ELSE 0))
      BY <1>3, <2>1, <3>1, <3>2
    <3> QED  BY <3>3, <3>4
  <2> QED  BY <2>1, <2>4, <2>5 DEF Stepped
<1> QED  BY <1>8, <1>10, <1>11

(* nnc_reserve_reg *)
LEMMA PlainFields ==
  ASSUME NEW g \in GenType, NEW r \in Regs
  PROVE  LET w == ReserveReg(g, r)
         IN  /\ w \in GenType
             /\ w.loc = g.loc /\ w.reg = g.reg /\ w.slots = g.slots /\ w.stk = g.stk
             /\ w.lrs = [g.lrs EXCEPT ![r] = IF Busy(g, r) THEN PushS(g.lrs[r], RESERVED)
                                             ELSE PutS(g.lrs[r], RESERVED)]
<1>0. /\ g.lrs \in [Regs -> Seq(Ranges)] /\ g.loc \in [Cgts -> Places]
      /\ g.reg \in [Regs -> Values] /\ g.slots \in SUBSET Cgts /\ g.stk \in Seq(Values)
  BY GenFields
<1> DEFINE w == ReserveReg(g, r)
           b == IF Busy(g, r) THEN PushReg(g, r) ELSE g
           d == GenReserveReg(g, r)
<1>1. PICK x : b = [g EXCEPT !.lrs = x]
  <2>1. CASE Busy(g, r)  BY <2>1 DEF PushReg
  <2>2. CASE ~Busy(g, r)
    <3>1. g = [g EXCEPT !.lrs = g.lrs]  BY DEF GenType
    <3> QED  BY <2>2, <3>1
  <2> QED  BY <2>1, <2>2
<1>2. PICK y : w = [b EXCEPT !.lrs = y]  BY DEF ReserveReg, UpdateReg
<1> HIDE DEF w, b
<1>3. w = [g EXCEPT !.lrs = y]  BY <1>1, <1>2 DEF GenType
<1>4. PICK z : d = [w EXCEPT !.stk = z]  BY DEF GenReserveReg, w
<1>5. /\ d \in GenType
      /\ d.lrs = [g.lrs EXCEPT ![r] = IF Busy(g, r) THEN PushS(g.lrs[r], RESERVED)
                                      ELSE PutS(g.lrs[r], RESERVED)]
  BY ReserveFields
<1> HIDE DEF d
<1>6. d.lrs = y  BY <1>3, <1>4 DEF GenType
<1>7. d.lrs \in [Regs -> Seq(Ranges)]  BY <1>5, GenFields
<1>8. /\ w \in GenType /\ w.lrs = y
      /\ w.loc = g.loc /\ w.reg = g.reg /\ w.slots = g.slots /\ w.stk = g.stk
  BY <1>0, <1>3, <1>6, <1>7 DEF GenType
<1> QED  BY <1>5, <1>6, <1>8 DEF w

(* w is g after OP_ARG has placed argument i of the call at level n. *)
Passes(g, w, n, i) ==
  /\ w \in GenType /\ w.loc = g.loc /\ w.slots = g.slots
  /\ i =< Len(IntPParam) =>
       LET p == IntPParam[i]
       IN  /\ w.stk = g.stk /\ w.reg = [g.reg EXCEPT ![p] = ArgVal(n, i)]
           /\ w.lrs = [g.lrs EXCEPT ![p] = IF Busy(g, p) THEN PushS(g.lrs[p], RESERVED)
                                           ELSE PutS(g.lrs[p], RESERVED)]
  /\ i > Len(IntPParam) =>
       w.reg = g.reg /\ w.lrs = g.lrs /\ w.stk = PushS(g.stk, ArgVal(n, i))

(* An argument is placed: the live ranges.  Its register must not hide      *)
(* those of an open call.                                                   *)
LEMMA ArgRanged ==
  ASSUME NEW fs, NEW ft, NEW i, Argued(fs, ft, i), NEW h, NEW S, Shape({}, fs, h, S),
         NEW t, NEW U, Stepped(fs, h, S, t, U, i), NEW g \in GenType, NEW w,
         Passes(g, w, Len(fs), i), Ranged(g, {}, fs, S),
         i =< Len(IntPParam) => Borrowable(g, fs, IntPParam[i])
  PROVE  Ranged(w, {}, ft, U)
<1> DEFINE n == Len(fs)
           L == Len(IntPParam)
           p == IntPParam[i]
<1>0. /\ n \in Nat /\ n >= 1 /\ Len(ft) = n /\ i \in Nat /\ L \in Nat
      /\ \A j \in 1 .. n - 1 : ft[j] = fs[j]
  BY ArgAdds DEF Argued
<1>1. w.loc = g.loc  BY DEF Passes
<1>2. \A l \in 0 .. n : Own({}, ft, l) = Own({}, fs, l)  BY ArgAdds
<1>3. \A r \in Regs, l \in 0 .. n : S[l][r] \in Nat /\ S[n][r] \in Nat /\ S[l][r] =< S[n][r]
  <2>1. \A l \in 0 .. n : n \in l .. n  BY <1>0
  <2> QED  BY <2>1, Growing
<1>4. \A l \in 0 .. n : l # n => l \in 0 .. n - 1  BY <1>0
<1>5. n \in 0 .. n /\ n \in 1 .. n /\ fs[n] \in FrameType  BY <1>0 DEF Argued
<1>6. /\ i =< L => AbiUsed(ft[n]) = AbiUsed(fs[n]) \cup {p} /\ p \notin AbiUsed(fs[n]) /\ p \in Regs
      /\ i > L => AbiUsed(ft[n]) = AbiUsed(fs[n])
  BY ArgAdds
<1>7. ASSUME NEW l \in 0 .. n, NEW r \in Regs, NEW o, Item(w.loc, {}, ft, l, r, o)
      PROVE  Item(g.loc, {}, fs, l, r, o) \/ (i =< L /\ l = n /\ r = p /\ o = RESERVED)
  <2>1. CASE o \in Own({}, ft, l) /\ w.loc[o] = r  BY <1>1, <1>2, <2>1 DEF Item
  <2>2. CASE o = RESERVED /\ l >= 1 /\ r \in AbiUsed(ft[l])
    <3>1. CASE l = n
      <4>1. i =< L \/ i > L  BY <1>0
      <4> QED  BY <1>6, <2>2, <3>1, <4>1 DEF Item
    <3>2. CASE l # n
      <4>1. l \in 1 .. n - 1  BY <1>0, <2>2, <3>2
      <4> QED  BY <1>0, <2>2, <4>1 DEF Item
    <3> QED  BY <3>1, <3>2
  <2> QED  BY <1>7, <2>1, <2>2 DEF Item
<1>8. \A r \in Regs : g.lrs[r] \in Seq(Ranges) /\ Len(g.lrs[r]) \in Nat
  <2>1. \A r \in Regs : g.lrs[r] \in Seq(Ranges)  BY GenFields
  <2> QED  BY <2>1
<1>9. ASSUME NEW r \in Regs, i > L \/ r # p
      PROVE  /\ w.lrs[r] = g.lrs[r] /\ U[n][r] = S[n][r]
             /\ \A l \in 0 .. n : U[l][r] = S[l][r]
  <2>1. w.lrs[r] = g.lrs[r]
    <3>1. i > L \/ (i =< L /\ r # p)  BY <1>0, <1>9
    <3> QED  BY <3>1, GenFields DEF Passes
  <2>2. U[n][r] = S[n][r]
    <3>1. ~(i =< L /\ r = p)  BY <1>0, <1>9
    <3>2. U[n][r] = S[n][r] + 0  BY <3>1 DEF Stepped
    <3> QED  BY <1>3, <1>5, <3>2
  <2> QED  BY <1>4, <2>1, <2>2 DEF Stepped
<1>10. ASSUME i =< L
       PROVE  /\ U[n][p] = S[n][p] + 1 /\ \A l \in 0 .. n - 1 : U[l][p] = S[l][p]
              /\ p \in Regs
  BY <1>6, <1>10 DEF Stepped
<1>11. ASSUME i =< L, Busy(g, p)
       PROVE  /\ Len(w.lrs[p]) = Len(g.lrs[p]) + 1 /\ w.lrs[p][Len(g.lrs[p]) + 1] = RESERVED
              /\ \A k \in 1 .. Len(g.lrs[p]) : w.lrs[p][k] = g.lrs[p][k]
  <2>1. PICK s \in Seq(Ranges) : s = g.lrs[p]  BY <1>8, <1>10, <1>11
  <2>2. w.lrs[p] = PushS(s, RESERVED)  BY <1>10, <1>11, <2>1, GenFields DEF Passes
  <2>3. RESERVED \in Ranges  BY DEF Ranges
  <2> QED  BY <2>1, <2>2, <2>3, PushIs
<1>12. ASSUME i =< L, ~Busy(g, p)
       PROVE  /\ \A l \in 0 .. n : S[l][p] = 0
              /\ Len(g.lrs[p]) \in {0, 1} /\ TopS(g.lrs[p]) = FREE
              /\ Len(w.lrs[p]) = 1 /\ w.lrs[p][1] = RESERVED
  <2>1. PICK s \in Seq(Ranges) : s = g.lrs[p]  BY <1>8, <1>10, <1>12
  <2>2. TopS(s) = FREE  BY <1>12, <2>1, PeekTop
  <2>3. p \notin PushedBy(fs)  BY <1>12 DEF Borrowable
  <2>4. (\A l \in 0 .. n : S[l][p] = 0) /\ Len(s) \in {0, 1}
    BY <1>10, <1>12, <2>1, <2>2, <2>3, BaseOnly, Numbers
  <2>5. w.lrs[p] = PutS(s, RESERVED)  BY <1>10, <1>12, <2>1, GenFields DEF Passes
  <2>6. RESERVED \in Ranges  BY DEF Ranges
  <2>7. Len(PutS(s, RESERVED)) = (IF Len(s) = 0 THEN 1 ELSE Len(s))
        /\ PutS(s, RESERVED)[Len(PutS(s, RESERVED))] = RESERVED
    BY <2>6, PutIs
  <2>8. Len(PutS(s, RESERVED)) = 1  BY <2>4, <2>7
  <2> QED  BY <2>1, <2>2, <2>4, <2>5, <2>7, <2>8
<1>13. ASSUME NEW r \in Regs PROVE Len(w.lrs[r]) - U[n][r] \in {0, 1}
  <2>0. Len(g.lrs[r]) - S[n][r] \in {0, 1} /\ S[n][r] \in Nat /\ Len(g.lrs[r]) \in Nat
    BY <1>3, <1>5, <1>8 DEF Ranged
  <2>1. CASE i > L \/ r # p  BY <1>9, <2>0, <2>1
  <2>2. CASE i =< L /\ r = p /\ Busy(g, p)
    <3>1. Len(w.lrs[r]) = Len(g.lrs[r]) + 1 /\ U[n][r] = S[n][r] + 1  BY <1>10, <1>11, <2>2
    <3>2. PICK x \in Nat, y \in Nat : x = Len(g.lrs[r]) /\ y = S[n][r]  BY <2>0
    <3>3. x - y \in {0, 1}  BY <2>0, <3>2
    <3>4. (x + 1) - (y + 1) = x - y  OBVIOUS
    <3> QED  BY <3>1, <3>2, <3>3, <3>4
  <2>3. CASE i =< L /\ r = p /\ ~Busy(g, p)
    <3>1. Len(w.lrs[r]) = 1 /\ U[n][r] = S[n][r] + 1 /\ S[n][r] = 0  BY <1>5, <1>10, <1>12, <2>3
    <3> QED  BY <3>1
  <2> QED  BY <1>0, <2>1, <2>2, <2>3
<1>14. ASSUME NEW l \in 0 .. n, NEW r \in Regs, NEW o \in Ranges, Item(w.loc, {}, ft, l, r, o)
       PROVE  Owner(w, ft, U, l, r, o)
  <2> DEFINE a == Len(g.lrs[r])
             b == S[n][r]
             c == S[l][r]
  <2>0. a \in Nat /\ b \in Nat /\ c \in Nat  BY <1>3, <1>8
  <2>1. CASE i =< L /\ l = n /\ r = p /\ o = RESERVED
    <3>1. PICK m \in Nat : m = Len(w.lrs[p]) /\ m >= 1 /\ w.lrs[p][m] = RESERVED
      <4>1. CASE Busy(g, p)
        <5>1. /\ Len(w.lrs[p]) = Len(g.lrs[p]) + 1 /\ w.lrs[p][Len(g.lrs[p]) + 1] = RESERVED
              /\ Len(g.lrs[p]) \in Nat
          BY <1>11, <2>0, <2>1, <4>1
        <5>2. PICK y \in Nat : y = Len(g.lrs[p])  BY <5>1
        <5>3. y + 1 \in Nat /\ y + 1 >= 1  OBVIOUS
        <5> QED  BY <5>1, <5>2, <5>3
      <4>2. CASE ~Busy(g, p)
        <5>1. Len(w.lrs[p]) = 1 /\ w.lrs[p][1] = RESERVED  BY <1>12, <2>1, <4>2
        <5>2. 1 \in Nat /\ 1 >= 1  OBVIOUS
        <5> QED  BY <5>1, <5>2
      <4> QED  BY <4>1, <4>2
    <3>2. U[n][p] \in Nat  BY <1>10, <2>0, <2>1
    <3>3. TopAt(w, ft, U, n, p) = m  BY <1>0, <3>1, <3>2 DEF TopAt
    <3> QED  BY <2>1, <3>1, <3>3 DEF Owner
  <2>2. CASE ~(i =< L /\ l = n /\ r = p /\ o = RESERVED)
    <3>1. Item(g.loc, {}, fs, l, r, o)  BY <1>7, <1>14, <2>2
    <3>2. Owner(g, fs, S, l, r, o)  BY <3>1 DEF Ranged
    <3>3. a - (b - c) \in 1 .. a /\ g.lrs[r][a - (b - c)] = o  BY <3>2 DEF Owner, TopAt
    <3>4. CASE i > L \/ r # p
      <4>1. w.lrs[r] = g.lrs[r] /\ U[n][r] = b /\ U[l][r] = c  BY <1>9, <3>4
      <4> QED  BY <1>0, <3>3, <4>1 DEF Owner, TopAt
    <3>5. CASE i =< L /\ r = p
      <4>1. l # n
        <5>1. ~(o \in Own({}, fs, n)) /\ ~(r \in AbiUsed(fs[n]))  BY <1>6, <3>5 DEF Own
        <5> QED  BY <3>1, <5>1 DEF Item
      <4>2. U[n][r] = b + 1 /\ U[l][r] = c  BY <1>4, <1>10, <3>5, <4>1
      <4>3. CASE Busy(g, p)
        <5>1. Len(w.lrs[r]) = a + 1 /\ \A k \in 1 .. a : w.lrs[r][k] = g.lrs[r][k]
          BY <1>11, <3>5, <4>3
        <5>2. (a + 1) - ((b + 1) - c) = a - (b - c) /\ (\A k \in 1 .. a : k \in 1 .. a + 1)
          <6> HIDE DEF a, b, c
          <6> QED  BY <2>0
        <5>3. TopAt(w, ft, U, l, r) = a - (b - c)  BY <1>0, <4>2, <5>1, <5>2 DEF TopAt
        <5> HIDE DEF a, b, c
        <5> QED  BY <3>3, <5>1, <5>2, <5>3 DEF Owner
      <4>4. CASE ~Busy(g, p)
        <5>1. b = 0 /\ c = 0 /\ TopS(g.lrs[r]) = FREE  BY <1>5, <1>12, <3>5, <4>4
        <5>2. a >= 1 /\ g.lrs[r][a] = o  BY <2>0, <3>3, <5>1
        <5>3. o = FREE  BY <1>8, <5>1, <5>2, TopIs
        <5>4. Own({}, fs, l) \in SUBSET Cgts  BY OwnCgts
        <5> QED  BY <3>1, <5>3, <5>4, Numbers DEF Item
      <4> QED  BY <4>3, <4>4
    <3> QED  BY <1>0, <3>4, <3>5
  <2> QED  BY <2>1, <2>2
<1>15. \A l \in 0 .. n : \A c \in Own({}, ft, l) : w.loc[c] # "none"  BY <1>1, <1>2 DEF Ranged
<1> QED  BY <1>0, <1>13, <1>14, <1>15 DEF Ranged

(* An argument is placed: the values. *)
LEMMA ArgIntact ==
  ASSUME NEW fs, NEW ft, NEW i, Argued(fs, ft, i), NEW h, NEW S, Shape({}, fs, h, S),
         NEW t, NEW U, Stepped(fs, h, S, t, U, i), NEW g \in GenType, NEW w,
         Passes(g, w, Len(fs), i), Intact(g, g.loc, {}, fs, h, Len(fs), {}),
         ArgVal(Len(fs), i) \in Values
  PROVE  Intact(w, w.loc, {}, ft, t, Len(ft), {})
<1> DEFINE n == Len(fs)
           L == Len(IntPParam)
           p == IntPParam[i]
           e == Len(g.stk)
<1>0. /\ n \in Nat /\ n >= 1 /\ Len(ft) = n /\ i \in Nat /\ L \in Nat
      /\ \A j \in 1 .. n - 1 : ft[j] = fs[j]
  BY ArgAdds DEF Argued
<1>1. /\ fs[n].kind = "call" /\ ft[n].kind = "call" /\ i = fs[n].args + 1 /\ ft[n].args = i
      /\ fs[n].args \in Nat
  <2>1. fs[n] \in FrameType  BY ArgAdds
  <2> QED  BY <2>1, FrameParts DEF Argued
<1>2. \A j \in 1 .. n : ft[j].kind = fs[j].kind /\ ft[j].pushed = fs[j].pushed  BY ArgAdds
<1>3. w.loc = g.loc /\ w.slots = g.slots  BY DEF Passes
<1>4. \A l \in 0 .. n : Wait({}, ft, l) = Wait({}, fs, l)  BY ArgAdds
<1>5. i =< L \/ i > L  BY <1>0
<1>6. i =< L => p \in Regs /\ p \notin AbiUsed(fs[n])  BY ArgAdds
<1>7. e \in Nat /\ h[n] = e /\ \A k \in 1 .. e : w.stk[k] = g.stk[k]
  <2>1. g.stk \in Seq(Values)  BY GenFields
  <2>2. h[n] = e /\ e \in Nat  BY <2>1 DEF Intact
  <2>3. CASE i =< L  BY <2>2, <2>3 DEF Passes
  <2>4. CASE i > L
    <3>1. w.stk = PushS(g.stk, ArgVal(n, i))  BY <2>4 DEF Passes
    <3> QED  BY <2>1, <2>2, <3>1, PushIs
  <2> QED  BY <1>5, <2>3, <2>4
<1>8. Len(w.stk) = t[n] /\ (i > L => w.stk[e + 1] = ArgVal(n, i) /\ t[n] = e + 1) /\ (i =< L => t[n] = e)
  <2>1. t[n] = e + (IF i > L THEN 1 ELSE 0)  BY <1>7 DEF Stepped
  <2>2. g.stk \in Seq(Values)  BY GenFields
  <2>3. CASE i =< L
    <3>1. ~(i > L) /\ w.stk = g.stk  BY <1>0, <2>3 DEF Passes
    <3> QED  BY <1>7, <2>1, <2>3, <3>1
  <2>4. CASE i > L
    <3>1. w.stk = PushS(g.stk, ArgVal(n, i)) /\ ~(i =< L)  BY <1>0, <2>4 DEF Passes
    <3>2. Len(w.stk) = e + 1 /\ w.stk[e + 1] = ArgVal(n, i)  BY <2>2, <3>1, PushIs
    <3> QED  BY <2>1, <2>4, <3>1, <3>2
  <2> QED  BY <1>5, <2>3, <2>4
<1>9. \A l \in 0 .. n - 1 : t[l] = h[l]  BY DEF Stepped
<1>10. n \in 0 .. n /\ n \in 1 .. n  BY <1>0
<1>11. ASSUME NEW l \in 0 .. n, NEW r \in Regs, NEW v, Valued(w.loc, {}, ft, {}, l, r, v)
       PROVE  Valued(g.loc, {}, fs, {}, l, r, v) \/ (i =< L /\ l = n /\ r = p /\ v = ArgVal(n, i))
  <2>1. CASE \E c \in Wait({}, ft, l) \ {} : w.loc[c] = r /\ v = Val(c)
    BY <1>3, <1>4, <2>1 DEF Valued
  <2>2. CASE l >= 1 /\ \E k \in 1 .. ft[l].args : k =< L /\ r = IntPParam[k] /\ v = ArgVal(l, k)
    <3>1. PICK k \in 1 .. ft[l].args : k =< L /\ r = IntPParam[k] /\ v = ArgVal(l, k)  BY <2>2
    <3>2. CASE l = n
      <4>1. k = i \/ k \in 1 .. fs[n].args  BY <1>1, <3>1, <3>2
      <4> QED  BY <2>2, <3>1, <3>2, <4>1 DEF Valued
    <3>3. CASE l # n
      <4>1. l \in 1 .. n - 1  BY <1>0, <2>2, <3>3
      <4>2. ft[l] = fs[l]  BY <1>0, <4>1
      <4> QED  BY <2>2, <3>1, <4>2 DEF Valued
    <3> QED  BY <3>2, <3>3
  <2> QED  BY <1>11, <2>1, <2>2 DEF Valued
<1>12. ASSUME NEW r \in Regs, i > L \/ r # p PROVE w.reg[r] = g.reg[r]
  BY <1>5, <1>12, GenFields DEF Passes
<1>13. ASSUME i =< L PROVE w.reg[p] = ArgVal(n, i)
  BY <1>6, <1>13, GenFields DEF Passes
<1>14. ASSUME NEW l \in 0 .. n, NEW r \in Regs, NEW v \in Values,
              Valued(w.loc, {}, ft, {}, l, r, v)
       PROVE  ValueAt(w, ft, t, l, n, r, v)
  <2>1. CASE l = n
    <3>1. ~\E j \in l + 1 .. n : TRUE  BY <1>0, <2>1
    <3>2. w.reg[r] = v
      <4>1. CASE i =< L /\ r = p /\ v = ArgVal(n, i)  BY <1>13, <4>1
      <4>2. CASE Valued(g.loc, {}, fs, {}, l, r, v)
        <5>1. ValueAt(g, fs, h, n, n, r, v)  BY <1>10, <2>1, <4>2 DEF Intact
        <5>2. Open(fs, n, n)  BY <2>1, <3>1 DEF Open
        <5>3. g.reg[r] = v  BY <5>1, <5>2 DEF ValueAt
        <5>4. Wait({}, fs, n) = {}  BY DEF Wait
        <5>5. PICK k \in 1 .. fs[n].args : k =< L /\ r = IntPParam[k]
          BY <2>1, <4>2, <5>4 DEF Valued
        <5>6. k \in DOMAIN IntPParam \cap (1 .. fs[n].args)
          <6>1. DOMAIN IntPParam = 1 .. L  BY RegAssumption
          <6> QED  BY <1>0, <1>1, <5>5, <6>1
        <5>7. r \in AbiUsed(fs[n])  BY <5>5, <5>6 DEF AbiUsed
        <5>8. i > L \/ r # p  BY <1>5, <1>6, <5>7
        <5> QED  BY <1>12, <5>3, <5>8
      <4> QED  BY <1>11, <1>14, <4>1, <4>2
    <3> QED  BY <3>1, <3>2 DEF ValueAt
  <2>2. CASE l # n
    <3>1. Valued(g.loc, {}, fs, {}, l, r, v)  BY <1>11, <1>14, <2>2
    <3>2. ValueAt(g, fs, h, l, n, r, v)  BY <3>1 DEF Intact
    <3>3. l \in 0 .. n - 1 /\ n \in l + 1 .. n  BY <1>0, <2>2
    <3>4. ~Open(ft, l, n)  BY <1>1, <3>3 DEF Open
    <3>5. ASSUME NEW j \in l + 1 .. n, Open(ft, l, j - 1), ft[j].kind = "call"
          PROVE  /\ r \in ToSet(ft[j].pushed)
                 /\ \A q \in DOMAIN ft[j].pushed : ft[j].pushed[q] = r => w.stk[t[j - 1] + q] = v
      <4>1. j \in 1 .. n /\ j - 1 \in 0 .. n - 1 /\ \A m \in l + 1 .. j - 1 : m \in 1 .. n
        BY <1>0, <3>3
      <4>2. Open(fs, l, j - 1)  BY <1>2, <3>5, <4>1 DEF Open
      <4>3. fs[j].kind = "call" /\ ft[j].pushed = fs[j].pushed /\ t[j - 1] = h[j - 1]
        BY <1>2, <1>9, <3>5, <4>1
      <4>4. /\ r \in ToSet(fs[j].pushed)
            /\ \A q \in DOMAIN fs[j].pushed : fs[j].pushed[q] = r => g.stk[h[j - 1] + q] = v
        BY <3>2, <4>2, <4>3 DEF ValueAt
      <4>5. \A q \in DOMAIN fs[j].pushed : h[j - 1] + q \in 1 .. h[n]
        BY <1>10, <4>1, SavedPlace
      <4> QED  BY <1>7, <4>3, <4>4, <4>5
    <3> QED  BY <3>4, <3>5 DEF ValueAt
  <2> QED  BY <2>1, <2>2
<1>15. \A l \in 0 .. n : \A c \in Wait({}, ft, l) \ {} : w.loc[c] = "stack" => c \in w.slots
  BY <1>3, <1>4 DEF Intact
<1>16. ASSUME NEW l \in 1 .. n, NEW k \in 1 .. ft[l].args, k > L
       PROVE  w.stk[t[l] - ft[l].args + k] = ArgVal(l, k)
  <2>1. CASE l # n
    <3>1. l \in 1 .. n - 1 /\ l \in 0 .. n - 1  BY <1>0, <2>1
    <3>2. ft[l] = fs[l] /\ t[l] = h[l]  BY <1>0, <1>9, <3>1
    <3>3. g.stk[h[l] - fs[l].args + k] = ArgVal(l, k)  BY <1>16, <3>2 DEF Intact
    <3>4. h[l] - fs[l].args + k \in 1 .. h[n]  BY <1>10, <1>16, <3>2, ArgPlace
    <3> QED  BY <1>7, <3>2, <3>3, <3>4
  <2>2. CASE l = n
    <3>0. PICK a \in Nat : a = fs[n].args  BY <1>1
    <3>1. i = a + 1 /\ ft[n].args = i /\ k \in 1 .. a + 1 /\ k \in Nat  BY <1>1, <1>16, <2>2, <3>0
    <3>2. i > L /\ t[n] = e + 1
      <4>1. i > L  BY <1>0, <1>16, <3>1
      <4> QED  BY <1>8, <4>1
    <3>3. CASE k = i
      <4>1. t[n] - i + k = e + 1
        <5> HIDE DEF e
        <5> QED  BY <1>0, <1>7, <3>2, <3>3
      <4> QED  BY <1>8, <2>2, <3>1, <3>2, <3>3, <4>1
    <3>4. CASE k # i
      <4>1. k \in 1 .. a  BY <3>1, <3>4
      <4>2. g.stk[h[n] - fs[n].args + k] = ArgVal(n, k)  BY <1>10, <1>16, <3>0, <4>1 DEF Intact
      <4>3. h[n] - fs[n].args + k \in 1 .. h[n]  BY <1>10, <1>16, <3>0, <4>1, ArgPlace
      <4>4. t[n] - i + k = h[n] - a + k
        <5> HIDE DEF e
        <5> QED  BY <1>7, <3>1, <3>2
      <4> QED  BY <1>7, <2>2, <3>0, <3>1, <4>2, <4>3, <4>4
    <3> QED  BY <3>3, <3>4
  <2> QED  BY <2>1, <2>2
<1> QED  BY <1>0, <1>8, <1>14, <1>15, <1>16 DEF Intact

(* The handler of OP_ARG places the argument. *)
LEMMA ArgPasses ==
  ASSUME NEW g \in GenType, NEW n, NEW i \in Nat \ {0}, ArgVal(n, i) \in Values
  PROVE  Passes(g, IF i <= Len(IntPParam) THEN MovToReg(StoreParam(g, i), IntPParam[i], ArgVal(n, i))
                   ELSE [StoreParam(g, i) EXCEPT !.stk = Append(@, ArgVal(n, i))], n, i)
<1> DEFINE L == Len(IntPParam)
           p == IntPParam[i]
           v == ArgVal(n, i)
<1>1. L \in Nat /\ IntPParam \in Seq(Regs)  BY RegAssumption DEF Regs
<1>2. CASE i =< L
  <2>1. p \in Regs /\ ~(i > L)  BY <1>1, <1>2
  <2>2. StoreParam(g, i) = ReserveReg(g, p)  BY <1>2 DEF StoreParam
  <2> DEFINE d == ReserveReg(g, p)
  <2>3. /\ d \in GenType
        /\ d.loc = g.loc /\ d.reg = g.reg /\ d.slots = g.slots /\ d.stk = g.stk
        /\ d.lrs = [g.lrs EXCEPT ![p] = IF Busy(g, p) THEN PushS(g.lrs[p], RESERVED)
                                        ELSE PutS(g.lrs[p], RESERVED)]
    BY <2>1, PlainFields
  <2> HIDE DEF d, p, v
  <2>4. LET w == MovToReg(d, p, v)
        IN  /\ w \in GenType
            /\ w.lrs = d.lrs /\ w.loc = d.loc /\ w.stk = d.stk /\ w.slots = d.slots
            /\ w.reg = [d.reg EXCEPT ![p] = v]
    BY <2>1, <2>3, MovFields DEF v
  <2>5. Passes(g, MovToReg(d, p, v), n, i)
    <3> DEFINE w == MovToReg(d, p, v)
    <3> HIDE DEF w
    <3> QED  BY <2>1, <2>3, <2>4 DEF Passes, p, v, w
  <2> QED  BY <1>2, <2>2, <2>5 DEF d, p, v
<1>3. CASE i > L
  <2>1. ~(i =< L)  BY <1>1, <1>3
  <2>2. StoreParam(g, i) = g  BY <2>1 DEF StoreParam
  <2>3. PushS(g.stk, v) \in Seq(Values)
    <3>1. g.stk \in Seq(Values)  BY GenFields
    <3> QED  BY <3>1, PushFacts
  <2> DEFINE w == [g EXCEPT !.stk = PushS(g.stk, v)]
  <2>4. /\ w \in GenType /\ w.loc = g.loc /\ w.reg = g.reg /\ w.slots = g.slots /\ w.lrs = g.lrs
        /\ w.stk = PushS(g.stk, v)
    BY <2>3 DEF GenType
  <2> HIDE DEF w
  <2>5. Passes(g, w, n, i)  BY <2>1, <2>4 DEF Passes
  <2> QED  BY <2>1, <2>2, <2>5 DEF w, PushS
<1> QED  BY <1>1, <1>2, <1>3

(* An argument is placed. *)
LEMMA ArgGood ==
  ASSUME NEW g, NEW fs, NEW h, NEW S, Good(g, {}, fs, h, S, {}), NEW ft, NEW i, Argued(fs, ft, i),
         NEW w, Passes(g, w, Len(fs), i), ArgVal(Len(fs), i) \in Values,
         i =< Len(IntPParam) => Borrowable(g, fs, IntPParam[i])
  PROVE  \E t, U : Good(w, {}, ft, t, U, {})
<1>1. /\ g \in GenType /\ Shape({}, fs, h, S) /\ Ranged(g, {}, fs, S)
      /\ Intact(g, g.loc, {}, fs, h, Len(fs), {}) /\ Snapshots(g.loc, fs, h)
  BY DEF Good
<1>2. w \in GenType /\ w.loc = g.loc  BY DEF Passes
<1>3. PICK t, U : Stepped(fs, h, S, t, U, i) /\ Shape({}, ft, t, U) /\ Snapshots(w.loc, ft, t)
  BY <1>1, <1>2, ArgShape
<1>4. Ranged(w, {}, ft, U)  BY <1>1, <1>3, ArgRanged
<1>5. Intact(w, w.loc, {}, ft, t, Len(ft), {})  BY <1>1, <1>3, ArgIntact
<1> QED  BY <1>2, <1>3, <1>4, <1>5 DEF Good

(* OP_ARG *)
LEMMA ArgInv ==
  ASSUME Situations = {}, GenInv, Arg
  PROVE  GenInv'
<1>0. /\ operands \in Seq(Cgts) /\ Distinct(operands) /\ Len(operands) = 1
      /\ frames # <<>> /\ Last(frames).kind = "call" /\ Last(frames).args < MaxArgs
  BY Start DEF Arg, InFrame
<1>1. PICK h, S : Good(gen, ToSet(operands), frames, h, S, {})  BY Start
<1>2. ToSet(operands) = {Arg2} /\ Arg2 \in Cgts  BY <1>0, OneOp
<1>3. Good(gen, {Arg2}, frames, h, S, {}) /\ gen \in GenType /\ frames \in Seq(FrameType)
      /\ Len(frames) =< MaxDepth
  BY <1>1, <1>2 DEF Good, Shape
<1> DEFINE n == Len(frames)
           f == TopS(frames)
           i == f.args + 1
           p == IntPParam[i]
           L == Len(IntPParam)
           v == IF Content(gen, Arg2) = Val(Arg2) THEN ArgVal(n, i) ELSE JUNK
           G(x) == IF i <= L THEN MovToReg(StoreParam(gen, i), p, x)
                   ELSE [StoreParam(gen, i) EXCEPT !.stk = Append(@, x)]
           ft == [frames EXCEPT ![n].args = i]
<1>4. /\ Allows("argument", i <= L /\ Uncovers(p))
      /\ \/ Stop("assert") \/ Stop("lost")
         \/ /\ gen' = Retire(G(v), {Arg2}) /\ operands' = <<>> /\ frames' = ft
  <2>1. Last(frames) = f  BY <1>0, FramesTop
  <2> QED  BY <2>1 DEF Arg
<1>5. /\ f \in FrameType /\ FrameOK(f) /\ f = frames[n] /\ n \in 1 .. n /\ n \in Nat
      /\ f.kind = "call" /\ f.args < MaxArgs
  BY <1>0, <1>3, Innermost, FramesTop
<1>6. f.args \in Nat /\ i \in 1 .. MaxArgs /\ i \in Nat \ {0} /\ L \in Nat /\ n \in 1 .. MaxDepth
  <2>1. f.args \in Nat /\ L \in Nat  BY <1>5, FrameParts
  <2> QED  BY <1>3, <1>5, <2>1, BoundAssumption
<1>7. v = ArgVal(n, i) /\ ArgVal(n, i) \in Values
  <2>1. Content(gen, Arg2) = Val(Arg2)  BY <1>3, HasContent
  <2> QED  BY <1>6, <2>1, ValueFacts
<1>8. Argued(frames, ft, i)
  <2> DEFINE e == [frames[n] EXCEPT !.args = i]
  <2>1. /\ e.kind = f.kind /\ e.outer = f.outer /\ e.res = f.res /\ e.pushed = f.pushed
        /\ e.args = i /\ e \in FrameType
    <3>1. i \in 0 .. MaxArgs  BY <1>6, BoundAssumption
    <3>2. e = [f EXCEPT !.args = i]  BY <1>5
    <3> HIDE DEF i, f, e
    <3> QED  BY <1>5, <3>1, <3>2 DEF FrameType
  <2>2. ft = [frames EXCEPT ![n] = e]  OBVIOUS
  <2> HIDE DEF e, i, f
  <2>3. ft[n] = e /\ (\A j \in 1 .. n - 1 : ft[j] = frames[j]) /\ Len(ft) = n /\ ft \in Seq(FrameType)
    <3> HIDE DEF ft
    <3>1. DOMAIN frames = 1 .. n  BY <1>3
    <3>2. ft = [j \in 1 .. n |-> IF j = n THEN e ELSE frames[j]]  BY <2>2, <3>1
    <3>3. \A j \in 1 .. n : (IF j = n THEN e ELSE frames[j]) \in FrameType
      <4>1. \A j \in 1 .. n : frames[j] \in FrameType  BY <1>3
      <4> QED  BY <2>1, <4>1
    <3>4. \A j \in 1 .. n - 1 : j # n /\ j \in 1 .. n  BY <1>5
    <3> HIDE DEF n
    <3>5. ft \in Seq(FrameType) /\ Len(ft) = n  BY <1>5, <3>2, <3>3
    <3> QED  BY <1>5, <3>2, <3>4, <3>5
  <2> HIDE DEF ft
  <2>4. n >= 1  BY <1>5
  <2>5. i = f.args + 1  BY DEF i
  <2> QED  BY <1>3, <1>5, <2>1, <2>3, <2>4, <2>5 DEF Argued
<1> DEFINE w == G(ArgVal(n, i))
<1>9. Passes(gen, w, n, i)
  <2> HIDE DEF i, n
  <2> QED  BY <1>3, <1>6, <1>7, ArgPasses
<1>10. i =< L => Borrowable(gen, frames, p)
  <2>1. ~(i =< L /\ Uncovers(p))
    <3> HIDE DEF i, p, L
    <3> QED  BY <1>4, Covered
  <2> HIDE DEF i, p, L
  <2> QED  BY <2>1, Covered
<1> HIDE DEF w, ft, i, v, f
<1>11. Good(gen, {}, frames, h, S, {})
  <2>1. {} \in SUBSET {Arg2} /\ {} \cap {} = {}  OBVIOUS
  <2>2. Good(gen, {}, frames, h, S, {} \cap {})  BY <1>3, <2>1, Fewer
  <2> QED  BY <2>1, <2>2
<1>12. PICK t, U : Good(w, {}, ft, t, U, {})
  BY <1>7, <1>8, <1>9, <1>10, <1>11, ArgGood
<1>13. Good(Retire(w, {Arg2}), {}, ft, t, U, {})
  <2>1. {Arg2} \in SUBSET {Arg2}  OBVIOUS
  <2>2. {Arg2} \in SUBSET Cgts /\ \A l \in 0 .. n - 1 : {Arg2} \cap Own({Arg2}, frames, l) = {}
    BY <1>3, <2>1, Disjoint
  <2>3. \A l \in 0 .. n - 1 : Own({Arg2}, frames, l) = Own({}, frames, l)
    <3>1. \A l \in 0 .. n - 1 : l # n  BY <1>5
    <3> QED  BY <3>1 DEF Own
  <2>4. Len(ft) = n  BY <1>8 DEF Argued
  <2>5. \A l \in 0 .. n - 1 : Own({}, ft, l) = Own({}, frames, l)
    <3>1. \A l \in 0 .. n - 1 : l \in 0 .. n  BY <1>5
    <3> QED  BY <1>8, <3>1, ArgAdds
  <2>6. \A l \in 0 .. Len(ft) - 1 : {Arg2} \cap Own({}, ft, l) = {}  BY <2>2, <2>3, <2>4, <2>5
  <2>7. Good(Retire(w, {Arg2}), {} \ {Arg2}, ft, t, U, {} \ {Arg2})  BY <1>12, <2>2, <2>6, RetireGood
  <2>8. {} \ {Arg2} = {}  OBVIOUS
  <2> QED  BY <2>7, <2>8
<1>14. ASSUME gen' = Retire(G(v), {Arg2}), operands' = <<>>, frames' = ft PROVE GenInv'
  <2>1. G(v) = w  BY <1>7 DEF w
  <2> HIDE DEF G
  <2>2. gen' = Retire(w, {Arg2})  BY <1>14, <2>1
  <2> QED  BY <1>13, <1>14, <2>2, NoneWait DEF GenInv
<1> QED  BY <1>4, <1>14, StopInv

(* The live ranges of a call are popped. *)
LEMMA FiniFields ==
  ASSUME NEW g \in GenType, NEW f \in FrameType, \A r \in Regs : Levels(f, r) =< Len(g.lrs[r])
  PROVE  LET w == PclassStateFini(g, f)
         IN  /\ w \in GenType /\ w.reg = g.reg /\ w.slots = g.slots /\ w.stk = g.stk
             /\ Layered(w, g, f)
<1>0. /\ g.lrs \in [Regs -> Seq(Ranges)] /\ g.loc \in [Cgts -> Places]
      /\ g.reg \in [Regs -> Values] /\ g.slots \in SUBSET Cgts /\ g.stk \in Seq(Values)
  BY GenFields
<1> DEFINE u == Unreserved(g, f)
           w == PclassStateFini(g, f)
           A == [r \in Regs |-> IF r \in AbiUsed(f) THEN PopReg(g, r).lrs[r] ELSE g.lrs[r]]
           B == [r \in Regs |-> IF r \in ToSet(f.pushed) THEN PopReg(u, r).lrs[r] ELSE u.lrs[r]]
<1>1. u = [g EXCEPT !.lrs = A]  BY DEF Unreserved, AbiUsed
<1>2. A \in [Regs -> Seq(Ranges)]
      /\ \A r \in Regs : A[r] = IF r \in AbiUsed(f) THEN PopS(g.lrs[r]) ELSE g.lrs[r]
  <2>1. \A r \in Regs : PopReg(g, r).lrs[r] = PopS(g.lrs[r])
    <3> TAKE r \in Regs
    <3>1. PopReg(g, r).lrs = [g.lrs EXCEPT ![r] = PopS(g.lrs[r])]  BY PopFields
    <3> QED  BY <1>0, <3>1
  <2>2. \A r \in Regs : PopS(g.lrs[r]) \in Seq(Ranges)  BY <1>0, StackFacts
  <2> QED  BY <1>0, <2>1, <2>2
<1> HIDE DEF A
<1>3. /\ u \in GenType /\ u.lrs = A /\ u.loc = g.loc /\ u.reg = g.reg /\ u.slots = g.slots
      /\ u.stk = g.stk
  <2> HIDE DEF u
  <2> QED  BY <1>0, <1>1, <1>2 DEF GenType
<1>4. w = [u EXCEPT !.lrs = B]  BY DEF PclassStateFini
<1> HIDE DEF u
<1>5. B \in [Regs -> Seq(Ranges)]
      /\ \A r \in Regs : B[r] = IF r \in ToSet(f.pushed) THEN PopS(A[r]) ELSE A[r]
  <2>1. \A r \in Regs : PopReg(u, r).lrs[r] = PopS(A[r])
    <3> TAKE r \in Regs
    <3>1. PopReg(u, r).lrs = [u.lrs EXCEPT ![r] = PopS(u.lrs[r])]  BY <1>3, PopFields
    <3> QED  BY <1>2, <1>3, <3>1
  <2>2. \A r \in Regs : PopS(A[r]) \in Seq(Ranges)  BY <1>2, StackFacts
  <2> QED  BY <1>2, <1>3, <2>1, <2>2
<1> HIDE DEF B
<1>6. /\ w \in GenType /\ w.lrs = B /\ w.loc = g.loc /\ w.reg = g.reg /\ w.slots = g.slots
      /\ w.stk = g.stk
  <2>1. /\ u.loc \in [Cgts -> Places] /\ u.reg \in [Regs -> Values] /\ u.slots \in SUBSET Cgts
        /\ u.stk \in Seq(Values)
    BY <1>0, <1>3
  <2>2. /\ w \in GenType /\ w.lrs = B /\ w.loc = u.loc /\ w.reg = u.reg /\ w.slots = u.slots
        /\ w.stk = u.stk
    <3> HIDE DEF w
    <3> QED  BY <1>3, <1>4, <1>5, <2>1 DEF GenType
  <2> QED  BY <1>3, <2>2
<1> HIDE DEF w
<1>7. ASSUME NEW r \in Regs
      PROVE  /\ Len(B[r]) \in Nat /\ Len(g.lrs[r]) = Len(B[r]) + Levels(f, r)
             /\ \A i \in 1 .. Len(B[r]) : g.lrs[r][i] = B[r][i]
  <2>1. PICK s \in Seq(Ranges) : s = g.lrs[r]  BY <1>0
  <2>2. PICK a \in Seq(Ranges) : a = A[r]  BY <1>2
  <2>3. PICK b \in Seq(Ranges) : b = B[r]  BY <1>5
  <2>4. a = (IF r \in AbiUsed(f) THEN PopS(s) ELSE s)  BY <1>2, <2>1, <2>2
  <2>5. b = (IF r \in ToSet(f.pushed) THEN PopS(a) ELSE a)  BY <1>5, <2>2, <2>3
  <2>6. /\ Len(PopS(s)) = (IF Len(s) = 0 THEN 0 ELSE Len(s) - 1)
        /\ \A i \in 1 .. Len(s) - 1 : PopS(s)[i] = s[i]
    BY StackFacts
  <2>7. /\ Len(PopS(a)) = (IF Len(a) = 0 THEN 0 ELSE Len(a) - 1)
        /\ \A i \in 1 .. Len(a) - 1 : PopS(a)[i] = a[i]
    BY StackFacts
  <2> DEFINE x == IF r \in AbiUsed(f) THEN 1 ELSE 0
             y == IF r \in ToSet(f.pushed) THEN 1 ELSE 0
  <2>8. Levels(f, r) = y + x /\ y + x =< Len(s) /\ x \in {0, 1} /\ y \in {0, 1} /\ Len(s) \in Nat
    <3>1. Levels(f, r) =< Len(s)  BY <2>1
    <3> QED  BY <3>1 DEF Levels
  <2>9. Len(a) = Len(s) - x /\ \A i \in 1 .. Len(s) - x : a[i] = s[i]
    <3>1. CASE r \in AbiUsed(f)
      <4>1. x = 1 /\ a = PopS(s)  BY <2>4, <3>1
      <4> HIDE DEF x, y
      <4>2. Len(s) # 0 /\ Len(s) - x = Len(s) - 1  BY <2>8, <4>1
      <4>3. Len(PopS(s)) = Len(s) - 1 /\ \A i \in 1 .. Len(s) - 1 : PopS(s)[i] = s[i]
        BY <2>6, <4>2
      <4> QED  BY <4>1, <4>2, <4>3
    <3>2. CASE r \notin AbiUsed(f)
      <4>1. x = 0 /\ a = s  BY <2>4, <3>2
      <4> HIDE DEF x, y
      <4> QED  BY <2>8, <4>1
    <3> QED  BY <3>1, <3>2
  <2>10. Len(b) = Len(a) - y /\ \A i \in 1 .. Len(a) - y : b[i] = a[i]
    <3>1. CASE r \in ToSet(f.pushed)
      <4>1. y = 1 /\ b = PopS(a)  BY <2>5, <3>1
      <4> HIDE DEF x, y
      <4> QED  BY <2>7, <2>8, <2>9, <4>1
    <3>2. CASE r \notin ToSet(f.pushed)
      <4>1. y = 0 /\ b = a /\ Len(a) \in Nat  BY <2>5, <3>2
      <4> HIDE DEF x, y
      <4> QED  BY <4>1
    <3> QED  BY <3>1, <3>2
  <2> HIDE DEF x, y
  <2>11. Len(b) \in Nat /\ Len(s) = Len(b) + (y + x)  BY <2>8, <2>9, <2>10
  <2>12. \A i \in 1 .. Len(b) : i \in 1 .. Len(a) - y /\ i \in 1 .. Len(s) - x
    BY <2>8, <2>9, <2>10, <2>11
  <2>13. \A i \in 1 .. Len(b) : s[i] = b[i]  BY <2>9, <2>10, <2>12
  <2> QED  BY <2>1, <2>3, <2>8, <2>11, <2>13
<1>8. Layered(w, g, f)  BY <1>6, <1>7 DEF Layered
<1> QED  BY <1>6, <1>8 DEF w

(* The pushed registers are popped. *)
LEMMA PopSavedFields ==
  ASSUME NEW g \in GenType, NEW pushed \in Seq(Regs), NEW b \in Nat, Len(g.stk) = b + Len(pushed)
  PROVE  LET w == PopSaved(g, pushed)
         IN  /\ w \in GenType /\ w.lrs = g.lrs /\ w.loc = g.loc /\ w.slots = g.slots
             /\ Len(w.stk) = b /\ \A k \in 1 .. b : w.stk[k] = g.stk[k]
             /\ \A r \in ToSet(pushed) : \E q \in DOMAIN pushed : pushed[q] = r /\ w.reg[r] = g.stk[b + q]
             /\ \A r \in Regs : r \notin ToSet(pushed) => w.reg[r] = g.reg[r]
<1>0. /\ g.lrs \in [Regs -> Seq(Ranges)] /\ g.loc \in [Cgts -> Places]
      /\ g.reg \in [Regs -> Values] /\ g.slots \in SUBSET Cgts /\ g.stk \in Seq(Values)
  BY GenFields
<1> DEFINE m == Len(pushed)
           Q(r) == CHOOSE q \in DOMAIN pushed : pushed[q] = r
           R == [r \in Regs |-> IF r \in ToSet(pushed) THEN g.stk[b + Q(r)] ELSE g.reg[r]]
           s == SubSeq(g.stk, 1, b)
           w == PopSaved(g, pushed)
<1>1. m \in Nat /\ Len(g.stk) - m = b /\ DOMAIN pushed = 1 .. m
  <2>1. m \in Nat /\ DOMAIN pushed = 1 .. m  OBVIOUS
  <2> HIDE DEF m
  <2>2. Len(g.stk) = b + m  BY DEF m
  <2> QED  BY <2>1, <2>2
<1>2. w = [g EXCEPT !.reg = R, !.stk = s]
  <2> DEFINE D(x) == [g EXCEPT !.reg = [r \in Regs |-> IF r \in ToSet(pushed)
                                          THEN g.stk[x + CHOOSE i \in DOMAIN pushed : pushed[i] = r]
                                          ELSE g.reg[r]],
                               !.stk = SubSeq(g.stk, 1, x)]
  <2>1. w = D(Len(g.stk) - Len(pushed))  BY DEF PopSaved
  <2>2. D(b) = [g EXCEPT !.reg = R, !.stk = s]  OBVIOUS
  <2> HIDE DEF D, w
  <2>3. w = D(b)  BY <1>1, <2>1
  <2> QED  BY <2>2, <2>3
<1>3. \A r \in ToSet(pushed) : Q(r) \in DOMAIN pushed /\ pushed[Q(r)] = r  BY DEF ToSet
<1> HIDE DEF Q
<1>4. \A q \in DOMAIN pushed : g.stk[b + q] \in Values
  <2>1. \A q \in 1 .. m : b + q \in 1 .. b + m  BY <1>1
  <2> QED  BY <1>0, <1>1, <2>1
<1>5. R \in [Regs -> Values]
      /\ \A r \in Regs : R[r] = IF r \in ToSet(pushed) THEN g.stk[b + Q(r)] ELSE g.reg[r]
  <2>1. \A r \in ToSet(pushed) : g.stk[b + Q(r)] \in Values  BY <1>3, <1>4
  <2> QED  BY <1>0, <2>1
<1>6. s \in Seq(Values) /\ Len(s) = b /\ \A k \in 1 .. b : s[k] = g.stk[k]
  <2>1. s = [k \in 1 .. b |-> g.stk[k]]  BY <1>0, <1>1
  <2>2. \A k \in 1 .. b : g.stk[k] \in Values
    <3>1. \A k \in 1 .. b : k \in 1 .. b + m  BY <1>1
    <3> QED  BY <1>0, <3>1
  <2> HIDE DEF s
  <2> QED  BY <2>1, <2>2
<1> HIDE DEF R, s, w
<1>7. /\ w \in GenType /\ w.lrs = g.lrs /\ w.loc = g.loc /\ w.slots = g.slots
      /\ w.reg = R /\ w.stk = s
  BY <1>0, <1>2, <1>5, <1>6 DEF GenType
<1>8. ToSet(pushed) \in SUBSET Regs  BY DEF ToSet
<1>9. \A r \in ToSet(pushed) : \E q \in DOMAIN pushed : pushed[q] = r /\ w.reg[r] = g.stk[b + q]
  BY <1>3, <1>5, <1>7, <1>8
<1>10. \A r \in Regs : r \notin ToSet(pushed) => w.reg[r] = g.reg[r]  BY <1>5, <1>7
<1> QED  BY <1>6, <1>7, <1>9, <1>10 DEF w

(* e is g after the call of the frame f, whose pushes start above b. *)
Returned(g, e, f, b) ==
  /\ e \in GenType /\ Layered(e, g, f)
  /\ Len(e.stk) = b /\ \A k \in 1 .. b : e.stk[k] = g.stk[k]
  /\ \A c \in g.slots : c \in e.slots
  /\ \A r \in ToSet(f.pushed) : \E q \in DOMAIN f.pushed : f.pushed[q] = r /\ e.reg[r] = g.stk[b + q]
  /\ f.res # FREE =>
       /\ g.loc[f.res] \in Regs /\ g.loc[f.res] \notin ToSet(f.pushed) =>
            e.reg[g.loc[f.res]] = Val(f.res)
       /\ g.loc[f.res] \notin Regs => f.res \in e.slots

(* The machine when the called procedure has returned and its result is in  *)
(* its place.                                                               *)
AfterCall(g, f) ==
  LET called == [CallerPrepare(g, f) EXCEPT !.reg = [r \in Regs |-> JUNK]]
  IN  IF f.res = FREE THEN called ELSE Write(called, f.res, Val(f.res))

(* It has not touched the stack, the slots and the live ranges. *)
LEMMA AfterCallFields ==
  ASSUME NEW g \in GenType, NEW f \in FrameType
  PROVE  LET w == AfterCall(g, f)
         IN  /\ w \in GenType /\ w.lrs = g.lrs /\ w.loc = g.loc
             /\ \A c \in g.slots : c \in w.slots
             /\ Len(w.stk) >= Len(g.stk) /\ \A k \in 1 .. Len(g.stk) : w.stk[k] = g.stk[k]
             /\ f.res # FREE => /\ g.loc[f.res] \in Regs => w.reg[g.loc[f.res]] = Val(f.res)
                                /\ g.loc[f.res] \notin Regs => f.res \in w.slots
<1>0. /\ g.lrs \in [Regs -> Seq(Ranges)] /\ g.loc \in [Cgts -> Places]
      /\ g.reg \in [Regs -> Values] /\ g.slots \in SUBSET Cgts /\ g.stk \in Seq(Values)
  BY GenFields
<1> DEFINE p == CallerPrepare(g, f)
           J == [r \in Regs |-> JUNK]
           d == [p EXCEPT !.reg = J]
           w == AfterCall(g, f)
<1>1. PICK x \in Seq(Values) : /\ p = [g EXCEPT !.stk = x]
                               /\ Len(x) >= Len(g.stk) /\ \A k \in 1 .. Len(g.stk) : x[k] = g.stk[k]
  <2>1. p = g \/ p = [g EXCEPT !.stk = PushS(g.stk, g.reg["r15"])]  BY DEF CallerPrepare, PushS
  <2> HIDE DEF p
  <2>2. CASE p = g
    <3>1. g = [g EXCEPT !.stk = g.stk] /\ Len(g.stk) >= Len(g.stk)  BY <1>0 DEF GenType
    <3> QED  BY <1>0, <2>2, <3>1
  <2>3. CASE p = [g EXCEPT !.stk = PushS(g.stk, g.reg["r15"])]
    <3>1. PICK v \in Values : v = g.reg["r15"]  BY <1>0, Numbers
    <3>2. PushS(g.stk, v) \in Seq(Values)  BY <1>0, PushFacts
    <3>3. Len(PushS(g.stk, v)) = Len(g.stk) + 1 /\ Len(g.stk) \in Nat
          /\ \A k \in 1 .. Len(g.stk) : PushS(g.stk, v)[k] = g.stk[k]
      BY <1>0, PushIs
    <3>4. PICK x \in Seq(Values) : x = PushS(g.stk, v)  BY <3>2
    <3>5. Len(x) >= Len(g.stk) /\ \A k \in 1 .. Len(g.stk) : x[k] = g.stk[k]  BY <3>3, <3>4
    <3>6. p = [g EXCEPT !.stk = x]  BY <2>3, <3>1, <3>4
    <3> QED  BY <3>5, <3>6
  <2> QED  BY <2>1, <2>2, <2>3
<1>2. J \in [Regs -> Values]  BY ValueFacts
<1> HIDE DEF J, p
<1>3. /\ d \in GenType /\ d.lrs = g.lrs /\ d.loc = g.loc /\ d.slots = g.slots /\ d.stk = x
  BY <1>0, <1>1, <1>2 DEF GenType
<1>4. w = IF f.res = FREE THEN d ELSE Write(d, f.res, Val(f.res))  BY DEF AfterCall, p, J
<1> HIDE DEF d, w
<1>5. CASE f.res = FREE  BY <1>1, <1>3, <1>4, <1>5 DEF w
<1>6. CASE f.res # FREE
  <2>1. PICK c \in Cgts : c = f.res  BY <1>6, FrameParts
  <2>2. Val(c) \in Values /\ d \in GenType  BY <1>3, ValueFacts
  <2>3. w = Write(d, c, Val(c))  BY <1>4, <1>6, <2>1
  <2>4. /\ w \in GenType
        /\ w.lrs = d.lrs /\ w.loc = d.loc /\ w.stk = d.stk
        /\ d.loc[c] \in Regs => w.reg = [d.reg EXCEPT ![d.loc[c]] = Val(c)] /\ w.slots = d.slots
        /\ d.loc[c] \notin Regs => w.reg = d.reg /\ w.slots = d.slots \cup {c}
    <3> DEFINE z == Write(d, c, Val(c))
    <3>1. /\ z \in GenType
          /\ z.lrs = d.lrs /\ z.loc = d.loc /\ z.stk = d.stk
          /\ d.loc[c] \in Regs => z.reg = [d.reg EXCEPT ![d.loc[c]] = Val(c)] /\ z.slots = d.slots
          /\ d.loc[c] \notin Regs =>
               z.reg = d.reg /\ z.slots = IF Val(c) = Val(c) THEN d.slots \cup {c} ELSE d.slots \ {c}
      BY <2>2, WriteFields
    <3> HIDE DEF z
    <3> QED  BY <2>3, <3>1 DEF z
  <2>5. d.reg \in [Regs -> Values]  BY <1>3, GenFields
  <2>6. d.loc[c] \in Regs => w.reg[d.loc[c]] = Val(c)  BY <2>4, <2>5
  <2>7. d.loc[c] \notin Regs => w.slots = d.slots \cup {c}  BY <2>4
  <2>8. \A b \in g.slots : b \in w.slots  BY <1>3, <2>4, <2>7
  <2> QED  BY <1>1, <1>3, <2>1, <2>4, <2>6, <2>7, <2>8 DEF w
<1> QED  BY <1>5, <1>6

(* nnc_gen_op_fcall, nnc_gen_op_pcall *)
LEMMA Returns ==
  ASSUME NEW g \in GenType, NEW f \in FrameType, NEW b \in Nat, Len(g.stk) = b + Size(f),
         \A r \in Regs : Levels(f, r) =< Len(g.lrs[r])
  PROVE  LET freed == [AfterCall(g, f) EXCEPT !.stk = SubSeq(@, 1, Len(g.stk) - StackArgs(f))]
         IN  Returned(g, PclassStateFini(PopSaved(freed, f.pushed), f), f, b)
<1> DEFINE a == AfterCall(g, f)
           m == Len(f.pushed)
           s == SubSeq(a.stk, 1, Len(g.stk) - StackArgs(f))
           d == [a EXCEPT !.stk = s]
           w == PopSaved(d, f.pushed)
           e == PclassStateFini(w, f)
<1>1. /\ a \in GenType /\ a.lrs = g.lrs /\ a.loc = g.loc
      /\ \A c \in g.slots : c \in a.slots
      /\ Len(a.stk) >= Len(g.stk) /\ \A k \in 1 .. Len(g.stk) : a.stk[k] = g.stk[k]
      /\ f.res # FREE => /\ g.loc[f.res] \in Regs => a.reg[g.loc[f.res]] = Val(f.res)
                         /\ g.loc[f.res] \notin Regs => f.res \in a.slots
  BY AfterCallFields
<1> HIDE DEF a
<1>2. m \in Nat /\ Len(g.stk) \in Nat /\ StackArgs(f) \in Nat /\ f.pushed \in Seq(Regs)
      /\ Len(g.stk) - StackArgs(f) = b + m /\ b + m \in Nat /\ b + m =< Len(g.stk)
      /\ Len(a.stk) \in Nat
  <2>1. f.pushed \in Seq(Regs) /\ StackArgs(f) \in Nat  BY FrameParts
  <2>2. m \in Nat  BY <2>1
  <2>3. g.stk \in Seq(Values) /\ a.stk \in Seq(Values)  BY <1>1, GenFields
  <2>4. Len(g.stk) \in Nat /\ Len(a.stk) \in Nat  BY <2>3
  <2>5. Len(g.stk) = b + (m + StackArgs(f))  BY DEF Size
  <2> HIDE DEF m
  <2> QED  BY <2>1, <2>2, <2>4, <2>5
<1>3. s \in Seq(Values) /\ Len(s) = b + m /\ \A k \in 1 .. b + m : s[k] = g.stk[k]
  <2>1. a.stk \in Seq(Values)  BY <1>1, GenFields
  <2>2. s = SubSeq(a.stk, 1, b + m)  BY <1>2
  <2> HIDE DEF m, s
  <2>3. \A k \in 1 .. b + m : k \in 1 .. Len(g.stk) /\ k \in 1 .. Len(a.stk)  BY <1>1, <1>2
  <2>4. s = [k \in 1 .. b + m |-> a.stk[k]]  BY <1>1, <1>2, <2>1, <2>2
  <2>5. \A k \in 1 .. b + m : a.stk[k] \in Values  BY <2>1, <2>3
  <2>6. s \in Seq(Values) /\ Len(s) = b + m  BY <1>2, <2>4, <2>5
  <2> QED  BY <1>1, <2>3, <2>4, <2>6
<1> HIDE DEF s
<1>4. /\ d \in GenType /\ d.lrs = g.lrs /\ d.loc = g.loc /\ d.slots = a.slots /\ d.reg = a.reg
      /\ d.stk = s
  <2>1. /\ a.lrs \in [Regs -> Seq(Ranges)] /\ a.loc \in [Cgts -> Places]
        /\ a.reg \in [Regs -> Values] /\ a.slots \in SUBSET Cgts
    BY <1>1, GenFields
  <2> QED  BY <1>1, <1>3, <2>1 DEF GenType
<1> HIDE DEF d
<1>5. /\ w \in GenType /\ w.lrs = d.lrs /\ w.loc = d.loc /\ w.slots = d.slots
      /\ Len(w.stk) = b /\ \A k \in 1 .. b : w.stk[k] = d.stk[k]
      /\ \A r \in ToSet(f.pushed) : \E q \in DOMAIN f.pushed :
            f.pushed[q] = r /\ w.reg[r] = d.stk[b + q]
      /\ \A r \in Regs : r \notin ToSet(f.pushed) => w.reg[r] = d.reg[r]
  <2>1. Len(d.stk) = b + Len(f.pushed)  BY <1>3, <1>4
  <2> QED  BY <1>2, <1>4, <2>1, PopSavedFields
<1> HIDE DEF w
<1>6. /\ e \in GenType /\ e.reg = w.reg /\ e.slots = w.slots /\ e.stk = w.stk /\ Layered(e, w, f)
  <2>1. \A r \in Regs : Levels(f, r) =< Len(w.lrs[r])  BY <1>4, <1>5
  <2> QED  BY <1>5, <2>1, FiniFields
<1> HIDE DEF e
<1>7. Layered(e, g, f)  BY <1>4, <1>5, <1>6 DEF Layered
<1>8. \A k \in 1 .. b : e.stk[k] = g.stk[k]
  <2>1. \A k \in 1 .. b : k \in 1 .. b + m  BY <1>2
  <2> QED  BY <1>3, <1>4, <1>5, <1>6, <2>1
<1>9. \A r \in ToSet(f.pushed) : \E q \in DOMAIN f.pushed :
        f.pushed[q] = r /\ e.reg[r] = g.stk[b + q]
  <2>1. \A q \in DOMAIN f.pushed : b + q \in 1 .. b + m
    <3>1. DOMAIN f.pushed = 1 .. m  BY <1>2
    <3> QED  BY <1>2, <3>1
  <2>2. \A q \in DOMAIN f.pushed : d.stk[b + q] = g.stk[b + q]  BY <1>3, <1>4, <2>1
  <2> QED  BY <1>5, <1>6, <2>2
<1>10. /\ Len(e.stk) = b /\ \A c \in g.slots : c \in e.slots  BY <1>1, <1>4, <1>5, <1>6
<1>11. f.res # FREE =>
         /\ g.loc[f.res] \in Regs /\ g.loc[f.res] \notin ToSet(f.pushed) =>
              e.reg[g.loc[f.res]] = Val(f.res)
         /\ g.loc[f.res] \notin Regs => f.res \in e.slots
  BY <1>1, <1>4, <1>5, <1>6
<1>12. Returned(g, e, f, b)  BY <1>6, <1>7, <1>8, <1>9, <1>10, <1>11 DEF Returned
<1> QED  BY <1>12 DEF e, w, d, s, a

(* A call is closed: the values. *)
LEMMA CloseIntact ==
  ASSUME NEW g, NEW e, NEW ft, NEW t, NEW U, Good(g, {}, ft, t, U, {}), NEW fs, NEW f, NEW h, NEW S,
         Extends(fs, f, h, S, ft, t, U), Shape(Mine(f), fs, h, S), f.kind = "call", f.args \in Nat,
         Returned(g, e, f, h[Len(fs)])
  PROVE  Intact(e, e.loc, Mine(f), fs, h, Len(fs), {})
<1> DEFINE n == Len(fs)
           P == Mine(f)
<1>0. /\ g \in GenType /\ Shape({}, ft, t, U) /\ Intact(g, g.loc, {}, ft, t, Len(ft), {})
      /\ Snapshots(g.loc, ft, t) /\ fs \in Seq(FrameType) /\ n \in Nat
  BY DEF Good, Shape
<1>1. /\ Len(ft) = n + 1 /\ ft[n + 1] = f /\ \A j \in 1 .. n : ft[j] = fs[j]
      /\ \A l \in 0 .. n : t[l] = h[l]
  BY DEF Extends
<1>2. Waiting(fs, f, ft, P, {})  BY <1>0, ExtendOwn
<1>3. e.loc = g.loc /\ Len(e.stk) = h[n] /\ (\A k \in 1 .. h[n] : e.stk[k] = g.stk[k])
      /\ \A c \in g.slots : c \in e.slots
  BY DEF Returned, Layered
<1>4. f.res # FREE => g.loc[f.res] \notin ToSet(f.pushed)
  <2>1. n + 1 \in 1 .. Len(ft)  BY <1>0, <1>1
  <2> QED  BY <1>0, <1>1, <2>1 DEF Snapshots
<1>5. n \in 0 .. Len(ft) /\ n + 1 \in 0 .. Len(ft) /\ (\A l \in 0 .. n : l \in 0 .. Len(ft))
      /\ \A l \in 1 .. n : l \in 1 .. Len(ft)
  BY <1>0, <1>1
<1>6. ASSUME NEW l \in 0 .. n, NEW c \in Wait(P, fs, l) \ {}
      PROVE  c \in Wait({}, ft, l) \/ (l = n /\ c = f.res /\ f.res # FREE)
  <2>1. CASE l = n  BY <1>2, <1>6, <2>1 DEF Waiting, Mine
  <2>2. CASE l # n
    <3>1. l \in 0 .. n - 1  BY <1>0, <2>2
    <3> QED  BY <1>2, <1>6, <3>1 DEF Waiting
  <2> QED  BY <2>1, <2>2
<1>7. ASSUME NEW l \in 0 .. n, NEW r \in Regs, NEW v, Valued(e.loc, P, fs, {}, l, r, v)
      PROVE  \/ Valued(g.loc, {}, ft, {}, l, r, v)
             \/ l = n /\ f.res # FREE /\ g.loc[f.res] = r /\ v = Val(f.res)
  <2>1. CASE \E c \in Wait(P, fs, l) \ {} : e.loc[c] = r /\ v = Val(c)
    <3>1. PICK c \in Wait(P, fs, l) \ {} : e.loc[c] = r /\ v = Val(c)  BY <2>1
    <3>2. c \in Wait({}, ft, l) \/ (l = n /\ c = f.res /\ f.res # FREE)  BY <1>6, <3>1
    <3> QED  BY <1>3, <3>1, <3>2 DEF Valued
  <2>2. CASE l >= 1 /\ \E i \in 1 .. fs[l].args : i =< Len(IntPParam) /\ r = IntPParam[i] /\ v = ArgVal(l, i)
    <3>1. l \in 1 .. n  BY <1>0, <2>2
    <3>2. ft[l] = fs[l]  BY <1>1, <3>1
    <3> QED  BY <2>2, <3>2 DEF Valued
  <2> QED  BY <1>7, <2>1, <2>2 DEF Valued
<1>8. ASSUME NEW l \in 0 .. n, NEW r \in Regs, NEW v \in Values, Valued(e.loc, P, fs, {}, l, r, v)
      PROVE  ValueAt(e, fs, h, l, n, r, v)
  <2>1. CASE l = n /\ f.res # FREE /\ g.loc[f.res] = r /\ v = Val(f.res)
    <3>1. e.reg[r] = v  BY <1>4, <2>1 DEF Returned
    <3>2. ~\E j \in l + 1 .. n : TRUE  BY <1>0, <2>1
    <3> QED  BY <3>1, <3>2 DEF ValueAt
  <2>2. CASE Valued(g.loc, {}, ft, {}, l, r, v)
    <3>1. ValueAt(g, ft, t, l, n + 1, r, v)  BY <1>0, <1>1, <1>5, <2>2 DEF Intact
    <3>2. \A j \in l + 1 .. n : j \in 1 .. n  BY <1>0
    <3>3. ASSUME Open(fs, l, n) PROVE e.reg[r] = v
      <4>1. Open(ft, l, n)  BY <1>1, <3>2, <3>3 DEF Open
      <4>2. n + 1 \in l + 1 .. n + 1 /\ (n + 1) - 1 = n  BY <1>0
      <4>3. /\ r \in ToSet(f.pushed)
            /\ \A q \in DOMAIN f.pushed : f.pushed[q] = r => g.stk[t[n] + q] = v
        BY <1>1, <3>1, <4>1, <4>2 DEF ValueAt
      <4>4. t[n] = h[n]  BY <1>0, <1>1
      <4> QED  BY <4>3, <4>4 DEF Returned
    <3>4. ASSUME NEW j \in l + 1 .. n, Open(fs, l, j - 1), fs[j].kind = "call"
          PROVE  /\ r \in ToSet(fs[j].pushed)
                 /\ \A q \in DOMAIN fs[j].pushed : fs[j].pushed[q] = r => e.stk[h[j - 1] + q] = v
      <4>1. j \in 1 .. n /\ j \in l + 1 .. n + 1 /\ j - 1 \in 0 .. n
            /\ \A i \in l + 1 .. j - 1 : i \in 1 .. n
        BY <1>0
      <4>2. Open(ft, l, j - 1)  BY <1>1, <3>4, <4>1 DEF Open
      <4>3. ft[j] = fs[j] /\ t[j - 1] = h[j - 1]  BY <1>1, <4>1
      <4>4. /\ r \in ToSet(fs[j].pushed)
            /\ \A q \in DOMAIN fs[j].pushed : fs[j].pushed[q] = r => g.stk[h[j - 1] + q] = v
        BY <3>1, <3>4, <4>1, <4>2, <4>3 DEF ValueAt
      <4>5. n \in 0 .. Len(fs)  BY <1>0
      <4>6. \A q \in DOMAIN fs[j].pushed : h[j - 1] + q \in 1 .. h[n]  BY <4>1, <4>5, SavedPlace
      <4> QED  BY <1>3, <4>4, <4>6
    <3> QED  BY <3>3, <3>4 DEF ValueAt
  <2> QED  BY <1>7, <1>8, <2>1, <2>2
<1>9. ASSUME NEW l \in 0 .. n, NEW c \in Wait(P, fs, l) \ {}, e.loc[c] = "stack" PROVE c \in e.slots
  <2>1. CASE c \in Wait({}, ft, l)
    <3>1. c \in g.slots  BY <1>0, <1>3, <1>5, <1>9, <2>1 DEF Intact
    <3> QED  BY <1>3, <3>1
  <2>2. CASE l = n /\ c = f.res /\ f.res # FREE  BY <1>3, <1>9, <2>2, Numbers DEF Returned
  <2> QED  BY <1>6, <2>1, <2>2
<1>10. ASSUME NEW l \in 1 .. n, NEW i \in 1 .. fs[l].args, i > Len(IntPParam)
       PROVE  e.stk[h[l] - fs[l].args + i] = ArgVal(l, i)
  <2>1. ft[l] = fs[l] /\ t[l] = h[l] /\ n \in 0 .. Len(fs)
    <3>1. l \in 0 .. n /\ n \in 0 .. n  BY <1>0
    <3> QED  BY <1>1, <3>1
  <2>2. g.stk[h[l] - fs[l].args + i] = ArgVal(l, i)  BY <1>0, <1>5, <1>10, <2>1 DEF Intact
  <2>3. h[l] - fs[l].args + i \in 1 .. h[n]  BY <1>10, <2>1, ArgPlace
  <2> QED  BY <1>3, <2>2, <2>3
<1> QED  BY <1>3, <1>8, <1>9, <1>10 DEF Intact

(* A call is closed. *)
LEMMA CloseCall ==
  ASSUME NEW g, NEW ft, NEW t, NEW U, Good(g, {}, ft, t, U, {}), ft # <<>>, TopS(ft).kind = "call"
  PROVE  LET f == TopS(ft)
             freed == [AfterCall(g, f) EXCEPT !.stk = SubSeq(@, 1, Len(g.stk) - StackArgs(f))]
             e == PclassStateFini(PopSaved(freed, f.pushed), f)
         IN  \E h, S : Good(e, Mine(f), PopS(ft), h, S, {})
<1> DEFINE f == TopS(ft)
           fs == PopS(ft)
           n == Len(fs)
           freed == [AfterCall(g, f) EXCEPT !.stk = SubSeq(@, 1, Len(g.stk) - StackArgs(f))]
           e == PclassStateFini(PopSaved(freed, f.pushed), f)
<1>0. /\ g \in GenType /\ Shape({}, ft, t, U) /\ Ranged(g, {}, ft, U)
      /\ Intact(g, g.loc, {}, ft, t, Len(ft), {}) /\ Snapshots(g.loc, ft, t)
  BY DEF Good
<1>1. f \in FrameType  BY Innermost
<1>2. PICK h, S : Extends(fs, f, h, S, ft, t, U) /\ Shape(Mine(f) \cup {}, fs, h, S)
  BY <1>0, CloseShape
<1>3. Mine(f) \cup {} = Mine(f)  OBVIOUS
<1>4. Shape(Mine(f), fs, h, S) /\ fs \in Seq(FrameType) /\ n \in Nat  BY <1>2, <1>3 DEF Shape
<1> HIDE DEF f, fs
<1>5. h[n] \in Nat /\ Len(g.stk) = h[n] + Size(f)
  <2>1. n \in 0 .. n /\ n \in n .. n  BY <1>4
  <2>2. h[n] \in Nat  BY <1>4, <2>1, Growing
  <2>3. Len(g.stk) = t[Len(ft)] /\ Len(ft) = n + 1 /\ t[n + 1] = h[n] + Size(f)
    BY <1>0, <1>2 DEF Intact, Extends
  <2> QED  BY <2>2, <2>3
<1>6. \A r \in Regs : Levels(f, r) =< Len(g.lrs[r])
  <2> TAKE r \in Regs
  <2>1. Len(g.lrs[r]) - U[n + 1][r] \in {0, 1} /\ U[n + 1][r] = S[n][r] + Levels(f, r)
    BY <1>0, <1>2 DEF Ranged, Extends
  <2>2. S[n][r] \in Nat /\ n \in 0 .. n
    <3>1. n \in 0 .. n /\ n \in n .. n  BY <1>4
    <3> QED  BY <1>4, <3>1, Growing
  <2>3. Levels(f, r) \in {0, 1, 2}  BY <1>1, FrameParts
  <2>4. Len(g.lrs[r]) \in Nat
    <3>1. g.lrs[r] \in Seq(Ranges)  BY <1>0, GenFields
    <3> QED  BY <3>1
  <2>5. PICK a \in Nat : a = Levels(f, r)  BY <2>3
  <2>6. PICK b \in Nat : b = Len(g.lrs[r])  BY <2>4
  <2>7. PICK c \in Nat : c = S[n][r]  BY <2>2
  <2>8. b - (c + a) \in {0, 1}  BY <2>1, <2>5, <2>6, <2>7
  <2>9. a =< b  BY <2>8
  <2> QED  BY <2>5, <2>6, <2>9
<1>7. Returned(g, e, f, h[n])  BY <1>0, <1>1, <1>5, <1>6, Returns
<1> HIDE DEF e
<1>8. e \in GenType /\ Layered(e, g, f) /\ e.loc = g.loc  BY <1>7 DEF Returned, Layered
<1>9. Ranged(e, Mine(f), fs, S)
  <2>1. Mine(f) = Mine(f) \cup {}  OBVIOUS
  <2> QED  BY <1>0, <1>1, <1>2, <1>4, <1>8, <2>1, CloseRanged
<1>10. Intact(e, e.loc, Mine(f), fs, h, n, {})
  <2>1. f.args \in Nat /\ f.kind = "call"  BY <1>1, FrameParts DEF f
  <2> QED  BY <1>2, <1>4, <1>7, <2>1, CloseIntact
<1>11. Snapshots(e.loc, fs, h)  BY <1>0, <1>2, <1>4, <1>8, CloseSnapshots
<1>12. Good(e, Mine(f), fs, h, S, {})  BY <1>4, <1>8, <1>9, <1>10, <1>11 DEF Good
<1> QED  BY <1>12 DEF e, f, fs

(* OP_FCALL, OP_PCALL *)
LEMMA CallInv ==
  ASSUME GenInv, Call
  PROVE  GenInv'
<1>0. /\ operands \in Seq(Cgts) /\ Distinct(operands) /\ Len(operands) = 1
      /\ frames # <<>> /\ Last(frames).kind = "call"
  BY Start DEF Call, InFrame
<1>1. PICK h, S : Good(gen, ToSet(operands), frames, h, S, {})  BY Start
<1>2. ToSet(operands) = {Arg2} /\ Arg2 \in Cgts  BY <1>0, OneOp
<1>3. Good(gen, {Arg2}, frames, h, S, {}) /\ gen \in GenType /\ frames \in Seq(FrameType)
  BY <1>1, <1>2 DEF Good, Shape
<1> DEFINE n == Len(frames)
           f == TopS(frames)
           fs == PopS(frames)
           freed == [AfterCall(gen, f) EXCEPT !.stk = SubSeq(@, 1, Len(gen.stk) - StackArgs(f))]
           e == PclassStateFini(PopSaved(freed, f.pushed), f)
           ops == IF f.res = FREE THEN f.outer ELSE Append(f.outer, f.res)
<1>4. gen' = Retire(e, {Arg2}) /\ operands' = ops /\ frames' = fs
  <2>1. Last(frames) = f /\ Front(frames) = fs  BY <1>0, FramesTop
  <2> HIDE DEF f, fs
  <2> QED  BY <2>1 DEF Call, AfterCall
<1>5. /\ f \in FrameType /\ FrameOK(f) /\ {Arg2} \cap Mine(f) = {} /\ n \in 1 .. n /\ n \in Nat
      /\ f.kind = "call" /\ f = frames[n]
  BY <1>0, <1>3, Innermost, FramesTop
<1>6. Good(gen, {}, frames, h, S, {})
  <2>1. {} \in SUBSET {Arg2} /\ {} \cap {} = {}  OBVIOUS
  <2>2. Good(gen, {}, frames, h, S, {} \cap {})  BY <1>3, <2>1, Fewer
  <2> QED  BY <2>1, <2>2
<1>7. PICK t, U : Good(e, Mine(f), fs, t, U, {})  BY <1>0, <1>5, <1>6, CloseCall
<1>8. fs \in Seq(FrameType) /\ Len(fs) = n - 1 /\ \A j \in 1 .. n - 1 : fs[j] = frames[j]
  <2>1. fs \in Seq(FrameType) /\ Len(fs) = (IF Len(frames) = 0 THEN 0 ELSE Len(frames) - 1)
        /\ \A j \in 1 .. Len(frames) - 1 : fs[j] = frames[j]
    BY <1>3, StackFacts
  <2> QED  BY <1>5, <2>1
<1> HIDE DEF e, f, fs
<1>9. Good(Retire(e, {Arg2}), Mine(f), fs, t, U, {})
  <2>1. {Arg2} \in SUBSET {Arg2}  OBVIOUS
  <2>2. {Arg2} \in SUBSET Cgts /\ \A l \in 0 .. n - 1 : {Arg2} \cap Own({Arg2}, frames, l) = {}
    BY <1>3, <2>1, Disjoint
  <2>3. \A l \in 0 .. Len(fs) - 1 : {Arg2} \cap Own(Mine(f), fs, l) = {}
    <3> TAKE l \in 0 .. Len(fs) - 1
    <3>1. l \in 0 .. n - 1 /\ l + 1 \in 1 .. n - 1 /\ l # n /\ l # Len(fs)  BY <1>5, <1>8
    <3>2. Own(Mine(f), fs, l) = Own({Arg2}, frames, l)  BY <1>8, <3>1 DEF Own
    <3> QED  BY <2>2, <3>1, <3>2
  <2>4. Good(Retire(e, {Arg2}), Mine(f) \ {Arg2}, fs, t, U, {} \ {Arg2})
    BY <1>7, <2>2, <2>3, RetireGood
  <2>5. {} \ {Arg2} = {} /\ Mine(f) \ {Arg2} = Mine(f)  BY <1>5
  <2> QED  BY <2>4, <2>5
<1>10. ops \in Seq(Cgts) /\ Distinct(ops) /\ ToSet(ops) = Mine(f)
  <2>1. f.outer \in Seq(Cgts) /\ Distinct(f.outer) /\ f.res \in Cgts \cup {FREE} /\ f.res \notin ToSet(f.outer)
    BY <1>5, FrameParts DEF FrameOK
  <2>2. CASE f.res = FREE
    <3>1. Mine(f) = ToSet(f.outer)  BY <2>2 DEF Mine
    <3> QED  BY <2>1, <2>2, <3>1
  <2>3. CASE f.res # FREE
    <3>1. f.res \in Cgts  BY <2>1, <2>3
    <3>2. /\ Append(f.outer, f.res) \in Seq(Cgts) /\ Distinct(Append(f.outer, f.res))
          /\ ToSet(Append(f.outer, f.res)) = ToSet(f.outer) \cup {f.res}
      BY <2>1, <3>1, Added
    <3>3. Mine(f) = ToSet(f.outer) \cup {f.res}  BY <2>3 DEF Mine
    <3> QED  BY <2>3, <3>2, <3>3
  <2> QED  BY <2>2, <2>3
<1> HIDE DEF ops
<1> QED  BY <1>4, <1>9, <1>10 DEF GenInv

-----------------------------------------------------------------------------
(* The specification.                                                       *)

(* At the start of a procedure no register is in use. *)
LEMMA InitInv ==
  ASSUME Init
  PROVE  GenInv
<1> DEFINE g == [lrs   |-> [r \in Regs |-> <<>>],
                 loc   |-> [c \in Cgts |-> "none"],
                 reg   |-> [r \in Regs |-> JUNK],
                 slots |-> {},
                 stk   |-> <<>>]
           h == [k \in 0 .. 0 |-> 0]
           S == [k \in 0 .. 0 |-> [r \in Regs |-> 0]]
<1>1. gen = g /\ operands = <<>> /\ frames = <<>>  BY DEF Init
<1>2. /\ gen.lrs = [r \in Regs |-> <<>>] /\ gen.stk = <<>> /\ gen.slots = {}
      /\ gen.loc = [c \in Cgts |-> "none"] /\ gen.reg = [r \in Regs |-> JUNK]
  BY <1>1
<1>3. gen \in GenType
  <2>1. "none" \in Places /\ JUNK \in Values  BY ValueFacts DEF Places
  <2>2. <<>> \in Seq(Ranges) /\ <<>> \in Seq(Values)  OBVIOUS
  <2> QED  BY <1>1, <2>1, <2>2 DEF GenType
<1>4. ToSet(operands) = {} /\ operands \in Seq(Cgts) /\ Distinct(operands)  BY <1>1, NoneWait
<1>5. Len(frames) = 0 /\ frames \in Seq(FrameType) /\ (\A k \in 1 .. 0 : FALSE) /\ 0 \in 0 .. 0
      /\ \A l \in 0 .. 0 : l = 0
  BY <1>1
<1>6. h[0] = 0 /\ h \in [0 .. 0 -> Nat] /\ (\A r \in Regs : S[0][r] = 0) /\ S \in [0 .. 0 -> [Regs -> Nat]]
  BY <1>5
<1> HIDE DEF h, S, g
<1>7. Own({}, frames, 0) = {} /\ Wait({}, frames, 0) = {}  BY <1>5 DEF Own, Wait
<1>8. Shape({}, frames, h, S)
  <2>1. Sums(frames, h)
    <3>1. h \in [0 .. Len(frames) -> Nat] /\ h[0] = 0  BY <1>5, <1>6
    <3>2. ASSUME NEW k \in 1 .. Len(frames) PROVE FALSE  BY <1>5
    <3> QED  BY <3>1, <3>2 DEF Sums
  <2>2. Counts(frames, S)
    <3>1. S \in [0 .. Len(frames) -> [Regs -> Nat]] /\ \A r \in Regs : S[0][r] = 0  BY <1>5, <1>6
    <3>2. ASSUME NEW k \in 1 .. Len(frames) PROVE FALSE  BY <1>5
    <3> QED  BY <3>1, <3>2 DEF Counts
  <2>3. \A l, k \in 0 .. Len(frames) : ~(l < k)  BY <1>5
  <2>4. \A k \in 1 .. Len(frames) : FrameOK(frames[k])  BY <1>5
  <2>5. Len(frames) =< MaxDepth  BY <1>5, BoundAssumption
  <2> QED  BY <1>5, <2>1, <2>2, <2>3, <2>4, <2>5 DEF Shape
<1>9. Ranged(gen, {}, frames, S)
  <2>1. \A r \in Regs : Len(gen.lrs[r]) - S[Len(frames)][r] \in {0, 1}  BY <1>2, <1>5, <1>6
  <2>2. \A l \in 0 .. Len(frames), r \in Regs, o \in Ranges : ~Item(gen.loc, {}, frames, l, r, o)
    BY <1>5, <1>7 DEF Item
  <2> QED  BY <1>5, <1>7, <2>1, <2>2 DEF Ranged
<1>10. Intact(gen, gen.loc, {}, frames, h, Len(frames), {})
  <2>1. Len(gen.stk) = h[Len(frames)]  BY <1>2, <1>5, <1>6
  <2>2. \A l \in 0 .. Len(frames), r \in Regs, v \in Values : ~Valued(gen.loc, {}, frames, {}, l, r, v)
    BY <1>5, <1>7 DEF Valued
  <2>3. ASSUME NEW l \in 1 .. Len(frames) PROVE FALSE  BY <1>5
  <2> QED  BY <1>5, <1>7, <2>1, <2>2, <2>3 DEF Intact
<1>11. Snapshots(gen.loc, frames, h)
  <2>1. ASSUME NEW l \in 1 .. Len(frames) PROVE FALSE  BY <1>5
  <2> QED  BY <2>1 DEF Snapshots
<1>12. Good(gen, {}, frames, h, S, {})  BY <1>3, <1>8, <1>9, <1>10, <1>11 DEF Good
<1> QED  BY <1>4, <1>12 DEF GenInv

(* Every handler keeps the invariant. *)
LEMMA NextInv ==
  ASSUME Situations = {}, GenInv, [Next]_vars
  PROVE  GenInv'
<1>1. CASE UNCHANGED vars  BY <1>1 DEF vars, GenInv
<1>2. CASE Expression
  <2>1. ASSUME NEW source \in {"imm", "name", "ref"}, Load(source) PROVE GenInv'  BY <2>1, LoadInv
  <2>2. ASSUME NEW scale \in BOOLEAN, Unary(scale) PROVE GenInv'  BY <2>2, UnaryInv
  <2>3. CASE Sum(Arg1, Arg2)  BY <2>3, SumInv
  <2>4. CASE Sum(Arg2, Arg1)
    <3>1. {Arg2, Arg1} = {Arg1, Arg2}  OBVIOUS
    <3> QED  BY <2>4, <3>1, SumInv
  <2>5. ASSUME NEW mod \in BOOLEAN, OneOpDiv(mod) PROVE GenInv'  BY <2>5, OneOpDivInv
  <2>6. ASSUME NEW n \in {1, 2}, Compare(n) PROVE GenInv'  BY <2>6, CompareInv
  <2> QED  BY <1>2, <2>1, <2>2, <2>3, <2>4, <2>5, <2>6, MoveInv, DerefInv, BinaryInv, ScaleInv,
              OneOpMulInv, ShiftInv, AssignInv
           DEF Expression
<1>3. CASE Control
  <2>1. ASSUME NEW use \in {"return", "let", "test", "unused"}, Finish(use) PROVE GenInv'
    BY <2>1, FinishInv
  <2>2. ASSUME NEW kind \in {"logic", "then"}, Branch(kind) PROVE GenInv'  BY <2>2, BranchInv
  <2>3. ASSUME NEW function \in BOOLEAN, DeclCall(function) PROVE GenInv'  BY <2>3, DeclCallInv
  <2> QED  BY <1>3, <2>1, <2>2, <2>3, LogicEndInv, ThenEndInv, ElseEndInv, ArgInv, CallInv DEF Control
<1> QED  BY <1>1, <1>2, <1>3 DEF Next

(* The height of the stack does not change over branches. *)
LEMMA OpenHeight ==
  ASSUME NEW O, NEW fs, NEW h, NEW S, Shape(O, fs, h, S), NEW l \in 0 .. Len(fs),
         Open(fs, l, Len(fs))
  PROVE  h[Len(fs)] = h[l] /\ h[l] \in Nat
<1>1. /\ fs \in Seq(FrameType) /\ Len(fs) \in Nat /\ Sums(fs, h)
      /\ \A j \in 1 .. Len(fs) : fs[j] \in FrameType /\ FrameOK(fs[j])
  BY DEF Shape
<1>2. h \in [0 .. Len(fs) -> Nat]  BY <1>1 DEF Sums
<1>3. \A j \in l + 1 .. Len(fs) : h[j] = h[j - 1]
  <2> TAKE j \in l + 1 .. Len(fs)
  <2>1. j \in 1 .. Len(fs) /\ j - 1 \in 0 .. Len(fs) /\ fs[j].kind # "call"  BY <1>1 DEF Open
  <2>2. Size(fs[j]) = 0  BY <1>1, <2>1, BranchAdds
  <2>3. h[j] = h[j - 1] + Size(fs[j]) /\ h[j - 1] \in Nat  BY <1>1, <1>2, <2>1 DEF Sums
  <2> QED  BY <2>2, <2>3
<1>4. Len(fs) \in l .. Len(fs)  BY <1>1
<1> QED  BY <1>1, <1>2, <1>3, <1>4, Constant

(* The greatest number of a finite set. *)
LEMMA MaxIs ==
  ASSUME NEW n \in Nat, NEW T \in SUBSET (0 .. n), T # {}
  PROVE  Max(T) \in T /\ \A y \in T : y =< Max(T)
<1>1. PICK m \in T : \A y \in T : y =< m  BY Greatest
<1>2. \A x, y \in T : x >= y <=> y =< x  OBVIOUS
<1>3. \E x \in T : \A y \in T : x >= y  BY <1>1, <1>2
<1>4. Max(T) \in T /\ \A y \in T : Max(T) >= y  BY <1>3 DEF Max
<1> QED  BY <1>2, <1>4

(* The arguments of the innermost call. *)
LEMMA InvArguments ==
  ASSUME GenInv
  PROVE  ArgumentsIntact
<1> SUFFICES ASSUME CallFrames # {}
             PROVE  LET k == Max(CallFrames)
                        f == frames[k]
                    IN  \A i \in 1 .. f.args :
                          IF i <= Len(IntPParam)
                          THEN Peek(gen, IntPParam[i]) = RESERVED /\ gen.reg[IntPParam[i]] = ArgVal(k, i)
                          ELSE gen.stk[Len(gen.stk) - f.args + i] = ArgVal(k, i)
  BY DEF ArgumentsIntact
<1> DEFINE O == ToSet(operands)
           n == Len(frames)
           L == Len(IntPParam)
<1>1. PICK h, S : Good(gen, O, frames, h, S, {})  BY DEF GenInv
<1> HIDE DEF O
<1>2. /\ gen \in GenType /\ Shape(O, frames, h, S) /\ Ranged(gen, O, frames, S)
      /\ Intact(gen, gen.loc, O, frames, h, n, {})
      /\ frames \in Seq(FrameType) /\ n \in Nat /\ n =< MaxDepth /\ DOMAIN frames = 1 .. n
  BY <1>1 DEF Good, Shape
<1>3. PICK k : k = Max(CallFrames)  OBVIOUS
<1>4. k \in CallFrames /\ \A j \in CallFrames : j =< k
  <2>1. CallFrames \in SUBSET (0 .. n)  BY <1>2 DEF CallFrames
  <2> QED  BY <1>2, <1>3, <2>1, MaxIs
<1>5. /\ k \in 1 .. n /\ frames[k].kind = "call" /\ k \in 0 .. n /\ k >= 1
      /\ \A j \in 1 .. n : frames[j].kind = "call" => j =< k
  BY <1>2, <1>4 DEF CallFrames
<1>6. Open(frames, k, n)
  <2>1. \A j \in k + 1 .. n : j \in 1 .. n /\ ~(j =< k)  BY <1>2, <1>5
  <2> QED  BY <1>5, <2>1 DEF Open
<1> DEFINE f == frames[k]
<1>7. f \in FrameType  BY <1>2, <1>5
<1>8. f.args \in Nat /\ f.args =< MaxArgs /\ L \in Nat  BY <1>7, FrameParts
<1>9. ASSUME NEW i \in 1 .. f.args, i =< L
      PROVE  Peek(gen, IntPParam[i]) = RESERVED /\ gen.reg[IntPParam[i]] = ArgVal(k, i)
  <2> DEFINE r == IntPParam[i]
  <2>1. i \in DOMAIN IntPParam \cap (1 .. f.args) /\ r \in Regs
    <3>1. IntPParam \in Seq(Regs) /\ DOMAIN IntPParam = 1 .. L  BY RegAssumption DEF Regs
    <3> QED  BY <1>8, <1>9, <3>1
  <2>2. r \in AbiUsed(f)  BY <2>1 DEF AbiUsed
  <2>3. Item(gen.loc, O, frames, k, r, RESERVED)  BY <1>5, <2>2 DEF Item
  <2>4. RESERVED \in Ranges /\ gen.lrs[r] \in Seq(Ranges)  BY <1>2, <2>1, GenFields DEF Ranges
  <2> HIDE DEF r
  <2>5. TopS(gen.lrs[r]) = RESERVED  BY <1>2, <1>5, <1>6, <2>1, <2>3, <2>4, Visible
  <2>6. ArgVal(k, i) \in Values
    <3>1. k \in 1 .. MaxDepth /\ i \in 1 .. MaxArgs  BY <1>2, <1>5, <1>8, BoundAssumption
    <3> QED  BY <3>1, ValueFacts
  <2>7. Valued(gen.loc, O, frames, {}, k, r, ArgVal(k, i))  BY <1>5, <1>9 DEF Valued, r
  <2>8. ValueAt(gen, frames, h, k, n, r, ArgVal(k, i))  BY <1>2, <1>5, <2>1, <2>6, <2>7 DEF Intact
  <2>9. gen.reg[r] = ArgVal(k, i)  BY <1>6, <2>8 DEF ValueAt
  <2> QED  BY <2>5, <2>9, PeekTop DEF r
<1>10. ASSUME NEW i \in 1 .. f.args, ~(i =< L)
       PROVE  gen.stk[Len(gen.stk) - f.args + i] = ArgVal(k, i)
  <2>1. i > L  BY <1>8, <1>10
  <2>2. gen.stk[h[k] - f.args + i] = ArgVal(k, i)  BY <1>2, <1>5, <2>1 DEF Intact
  <2>3. Len(gen.stk) = h[k]  BY <1>2, <1>5, <1>6, OpenHeight DEF Intact
  <2> QED  BY <2>2, <2>3
<1> QED  BY <1>3, <1>9, <1>10

(* The sum that StackBalanced computes. *)
Held(fs, d) ==
  d = [k \in 0 .. Len(fs) |->
         IF k = 0 THEN 0 ELSE d[k - 1] + Len(fs[k].pushed) + StackArgs(fs[k])]

(* The machine stack. *)
LEMMA InvStack ==
  ASSUME GenInv
  PROVE  StackBalanced
<1> DEFINE O == ToSet(operands)
           n == Len(frames)
           d == CHOOSE x : Held(frames, x)
<1>1. PICK h, S : Good(gen, O, frames, h, S, {})  BY DEF GenInv
<1>2. /\ frames \in Seq(FrameType) /\ n \in Nat /\ Sums(frames, h) /\ Len(gen.stk) = h[n]
  BY <1>1 DEF Good, Shape, Intact
<1>3. h \in [0 .. n -> Nat] /\ h[0] = 0 /\ \A k \in 1 .. n : h[k] = h[k - 1] + Size(frames[k])
  BY <1>2 DEF Sums
<1>4. \A k \in 1 .. n : /\ Len(frames[k].pushed) \in Nat /\ StackArgs(frames[k]) \in Nat
                        /\ h[k - 1] \in Nat
  <2> TAKE k \in 1 .. n
  <2>1. frames[k] \in FrameType /\ k - 1 \in 0 .. n  BY <1>2
  <2>2. frames[k].pushed \in Seq(Regs) /\ StackArgs(frames[k]) \in Nat  BY <2>1, FrameParts
  <2> QED  BY <1>3, <2>1, <2>2
<1>5. \A k \in 1 .. n : h[k] = h[k - 1] + Len(frames[k].pushed) + StackArgs(frames[k])
  BY <1>3, <1>4 DEF Size
<1>6. \A k \in 0 .. n : k # 0 => k \in 1 .. n  BY <1>2
<1>7. Held(frames, h)
  <2>1. \A k \in 0 .. n : h[k] = IF k = 0 THEN 0
                                 ELSE h[k - 1] + Len(frames[k].pushed) + StackArgs(frames[k])
    BY <1>3, <1>5, <1>6
  <2>2. h = [k \in 0 .. n |-> h[k]]  BY <1>3
  <2> QED  BY <2>1, <2>2 DEF Held
<1>8. Held(frames, d)  BY <1>7
<1>9. StackBalanced <=> Len(gen.stk) = d[n]  BY DEF StackBalanced, Held
<1> HIDE DEF d
<1>10. \A k \in 0 .. n : d[k] = IF k = 0 THEN 0
                                ELSE d[k - 1] + Len(frames[k].pushed) + StackArgs(frames[k])
  BY <1>8 DEF Held
<1> DEFINE G == {k \in 0 .. n : d[k] = h[k]}
<1>11. ASSUME NEW m \in 0 .. n, \A j \in 0 .. m - 1 : j \in G PROVE m \in G
  <2>1. CASE m = 0  BY <1>3, <1>10, <2>1
  <2>2. CASE m # 0
    <3>1. m - 1 \in 0 .. m - 1 /\ m \in 1 .. n  BY <1>2, <2>2
    <3>2. d[m - 1] = h[m - 1]  BY <1>11, <3>1
    <3>3. d[m] = d[m - 1] + Len(frames[m].pushed) + StackArgs(frames[m])  BY <1>10, <2>2
    <3>4. d[m] = h[m]  BY <1>5, <3>1, <3>2, <3>3
    <3> QED  BY <3>4
  <2> QED  BY <2>1, <2>2
<1>12. \A k \in 0 .. n : k \in G
  <2> HIDE DEF G
  <2> QED  BY <1>2, <1>11, Induction
<1>13. n \in 0 .. n  BY <1>2
<1>14. d[n] = h[n]  BY <1>12, <1>13
<1> QED  BY <1>2, <1>9, <1>14

(* Even and odd. *)
LEMMA Parity ==
  ASSUME NEW a \in Nat
  PROVE  /\ a % 2 = 0 \/ a % 2 = 1
         /\ a % 2 = 1 => (a + 1) % 2 = 0
<1>1. a % 2 \in 0 .. 1  OBVIOUS
<1>2. a % 2 = 1 => (a + 1) % 2 = 0  OBVIOUS
<1> QED  BY <1>1, <1>2

(* The stack at a call. *)
LEMMA InvAligned ==
  ASSUME gen \in GenType, frames # <<>> => StackArgs(Last(frames)) \in Nat
  PROVE  EvenCallsAligned
<1> DEFINE f == Last(frames)
<1> SUFFICES ASSUME frames # <<>>, GetStackPad(StackArgs(f)) = 0
             PROVE  GetStackPad(Len(CallerPrepare(gen, f).stk)) = 0
  BY DEF EvenCallsAligned, InFrame, StackAtCall
<1>1. /\ gen.stk \in Seq(Values) /\ Len(gen.stk) \in Nat
      /\ [gen EXCEPT !.stk = Append(gen.stk, gen.reg["r15"])].stk = Append(gen.stk, gen.reg["r15"])
  BY DEF GenType
<1>2. Len(Append(gen.stk, gen.reg["r15"])) = Len(gen.stk) + 1  BY <1>1
<1>3. PICK a \in Nat : a = Len(gen.stk)  BY <1>1
<1>4. PICK x : x = a % 2  OBVIOUS
<1>5. (x = 0 \/ x = 1) /\ (x = 1 => (a + 1) % 2 = 0)  BY <1>4, Parity
<1>6. PICK pad : pad = GetStackPad(GetStackPad(Len(gen.stk)) + GetStackPad(StackArgs(f)))  OBVIOUS
<1>7. CallerPrepare(gen, f) = IF pad = 0 THEN gen
                              ELSE [gen EXCEPT !.stk = Append(gen.stk, gen.reg["r15"])]
  BY <1>6 DEF CallerPrepare
<1>8. pad = (x + 0) % 2  BY <1>3, <1>4, <1>6 DEF GetStackPad
<1>9. CASE x = 0
  <2>1. pad = 0  BY <1>8, <1>9
  <2>2. CallerPrepare(gen, f).stk = gen.stk  BY <1>7, <2>1
  <2> QED  BY <1>3, <1>4, <1>9, <2>2 DEF GetStackPad
<1>10. CASE x = 1
  <2>1. pad # 0  BY <1>8, <1>10
  <2>2. CallerPrepare(gen, f).stk = Append(gen.stk, gen.reg["r15"])  BY <1>1, <1>7, <2>1
  <2>3. Len(CallerPrepare(gen, f).stk) = a + 1  BY <1>2, <1>3, <2>2
  <2> QED  BY <1>5, <1>10, <2>3 DEF GetStackPad
<1> QED  BY <1>5, <1>9, <1>10

-----------------------------------------------------------------------------
(* The theorems.  They are about programs with none of AllSituations, the   *)
(* instance that the run of MCNncGen checks.                                *)

(* The invariant of the generator: every owner of a register is at its      *)
(* place among the live ranges, every value at its place in the registers,  *)
(* in the slots or on the stack, now and in the snapshots that the jumps of *)
(* the open branches have taken.                                            *)
THEOREM GenCorrect ==
  Situations = {} => (Spec => []GenInv)
<1> SUFFICES ASSUME Situations = {} PROVE Spec => []GenInv
  OBVIOUS
<1>1. Init => GenInv  BY InitInv
<1>2. GenInv /\ [Next]_vars => GenInv'  BY NextInv
<1> QED  BY <1>1, <1>2, PTL DEF Spec

(* What GenInv says of a temporary that is waiting. *)
LEMMA InvOperands ==
  ASSUME GenInv
  PROVE  OperandsIntact /\ RegistersOwned
<1> DEFINE O == ToSet(operands)
<1>1. PICK h, S : Good(gen, O, frames, h, S, {})  BY DEF GenInv
<1>2. ASSUME NEW i \in DOMAIN operands
      PROVE  /\ Content(gen, operands[i]) = Val(operands[i])
             /\ gen.loc[operands[i]] \in Regs => Peek(gen, gen.loc[operands[i]]) = operands[i]
  <2>1. operands[i] \in O  BY DEF ToSet
  <2>2. PICK c \in O : c = operands[i]  BY <2>1
  <2> HIDE DEF O
  <2>3. /\ Content(gen, c) = Val(c)
        /\ gen.loc[c] \in Regs => TopS(gen.lrs[gen.loc[c]]) = c
    BY <1>1, HasContent
  <2> QED  BY <2>2, <2>3, PeekTop
<1> QED  BY <1>2 DEF OperandsIntact, RegistersOwned

(* Every temporary that a later quad reads holds the value that was         *)
(* computed for it, whatever the handlers of nnc_gen.c have pushed, popped, *)
(* swapped or spilled in between.                                           *)
THEOREM GenOperandsIntact ==
  Situations = {} => (Spec => []OperandsIntact)
<1>1. GenInv => OperandsIntact  BY InvOperands
<1> QED  BY <1>1, GenCorrect, PTL

(* nnc_store_cgt never finds the register of a temporary that is still read *)
(* free.                                                                    *)
THEOREM GenRegistersOwned ==
  Situations = {} => (Spec => []RegistersOwned)
<1>1. GenInv => RegistersOwned  BY InvOperands
<1> QED  BY <1>1, GenCorrect, PTL

(* What nnc_gen_op_arg has placed for the innermost call is there until     *)
(* nnc_gen_op_fcall or nnc_gen_op_pcall.                                    *)
THEOREM GenArgumentsIntact ==
  Situations = {} => (Spec => []ArgumentsIntact)
<1>1. GenInv => ArgumentsIntact  BY InvArguments
<1> QED  BY <1>1, GenCorrect, PTL

(* Between two quads the machine stack holds what the open calls have       *)
(* pushed, so the pops of nnc_gen_caller_restore find what DECL_CALL pushed. *)
THEOREM GenStackBalanced ==
  Situations = {} => (Spec => []StackBalanced)
<1>1. GenInv => StackBalanced  BY InvStack
<1> QED  BY <1>1, GenCorrect, PTL

(* nnc_gen_caller_prepare aligns the stack of a call whose arguments on the *)
(* stack are even in number.                                                *)
THEOREM GenEvenCallsAligned ==
  Situations = {} => (Spec => []EvenCallsAligned)
<1>1. ASSUME GenInv PROVE EvenCallsAligned
  <2>1. PICK h, S : Good(gen, ToSet(operands), frames, h, S, {})  BY <1>1 DEF GenInv
  <2>2. gen \in GenType  BY <2>1 DEF Good
  <2>3. frames # <<>> => Last(frames) \in FrameType  BY <2>1, Innermost, FramesTop
  <2>4. frames # <<>> => StackArgs(Last(frames)) \in Nat  BY <2>3, FrameParts
  <2> QED  BY <2>2, <2>4, InvAligned
<1> QED  BY <1>1, GenCorrect, PTL

(* Where no program is made, the reason is one of four. *)
LEMMA StatusInv ==
  ASSUME status \in {"run", "assert", "rejected", "lost"}, [Next]_vars
  PROVE  status' \in {"run", "assert", "rejected", "lost"}
<1> USE DEF Emit, Stop
<1>1. CASE UNCHANGED vars  BY <1>1 DEF vars
<1>2. CASE Expression
  <2>1. ASSUME NEW source \in {"imm", "name", "ref"}, Load(source)
        PROVE  status' \in {status, "assert", "rejected"}
    BY <2>1 DEF Load
  <2>2. CASE Move \/ Deref \/ Binary \/ Scale
    BY <2>2 DEF Move, Deref, Binary, Scale
  <2>3. ASSUME NEW scale \in BOOLEAN, Unary(scale) PROVE status' \in {status, "rejected"}
    BY <2>3 DEF Unary
  <2>4. ASSUME NEW a, NEW b, Sum(a, b) PROVE status' \in {status, "rejected"}
    BY <2>4 DEF Sum
  <2>5. CASE OneOpMul  BY <2>5 DEF OneOpMul
  <2>6. ASSUME NEW mod \in BOOLEAN, OneOpDiv(mod) PROVE status' \in {status, "assert"}
    BY <2>6 DEF OneOpDiv
  <2>7. CASE Shift  BY <2>7 DEF Shift
  <2>8. ASSUME NEW n \in {1, 2}, Compare(n) PROVE status' \in {status, "rejected"}
    BY <2>8 DEF Compare
  <2>9. CASE Assign  BY <2>9 DEF Assign
  <2> QED  BY <1>2, <2>1, <2>2, <2>3, <2>4, <2>5, <2>6, <2>7, <2>8, <2>9 DEF Expression
<1>3. CASE Control
  <2>1. ASSUME NEW use, Finish(use) PROVE status' \in {status, "rejected"}
    BY <2>1 DEF Finish
  <2>2. ASSUME NEW kind, Branch(kind) PROVE status' \in {status, "rejected"}
    BY <2>2 DEF Branch
  <2>3. CASE LogicEnd  BY <2>3 DEF LogicEnd
  <2>4. CASE ThenEnd \/ ElseEnd  BY <2>4 DEF ThenEnd, ElseEnd
  <2>5. ASSUME NEW function, DeclCall(function) PROVE status' = status
    BY <2>5 DEF DeclCall
  <2>6. CASE Arg  BY <2>6 DEF Arg
  <2>7. CASE Call  BY <2>7 DEF Call
  <2> QED  BY <1>3, <2>1, <2>2, <2>3, <2>4, <2>5, <2>6, <2>7 DEF Control
<1> QED  BY <1>1, <1>2, <1>3 DEF Next

(* The types that follow from GenInv. *)
LEMMA InvTypes ==
  ASSUME GenInv, status \in {"run", "assert", "rejected", "lost"}
  PROVE  TypeOK
<1> DEFINE O == ToSet(operands)
           n == Len(frames)
<1>1. PICK h, S : Good(gen, O, frames, h, S, {})  BY DEF GenInv
<1>2. /\ gen \in GenType /\ frames \in Seq(FrameType) /\ n \in Nat /\ operands \in Seq(Cgts)
      /\ DOMAIN frames = 1 .. n
      /\ \A l \in 0 .. n : \A c \in Own(O, frames, l) : gen.loc[c] # "none"
  BY <1>1 DEF GenInv, Good, Shape, Ranged
<1>3. \A l \in 0 .. n : \A c \in Own(O, frames, l) : c \in Cgts => c \in Live
  BY <1>2 DEF Live, Dead
<1>4. operands \in Seq(Live)
  <2>1. Own(O, frames, n) = O  BY DEF Own
  <2>0. n \in 0 .. n  BY <1>2
  <2>2. \A i \in DOMAIN operands : operands[i] \in O  BY DEF ToSet
  <2>3. \A i \in 1 .. Len(operands) : operands[i] \in Live  BY <1>2, <1>3, <2>0, <2>1, <2>2
  <2> HIDE DEF O
  <2> QED  BY <1>2, <2>3
<1>5. ASSUME NEW i \in DOMAIN frames
      PROVE  frames[i].outer \in Seq(Live) /\ frames[i].args \in 0 .. MaxArgs
  <2> DEFINE s == frames[i].outer
  <2>1. frames[i] \in FrameType /\ i \in 1 .. n /\ i - 1 \in 0 .. n  BY <1>2, <1>5
  <2>2. s \in Seq(Cgts) /\ frames[i].args \in 0 .. MaxArgs  BY <2>1 DEF FrameType
  <2>3. Own(O, frames, i - 1) = Mine(frames[i])
    <3>1. i - 1 # n /\ i - 1 + 1 = i  BY <1>2, <2>1
    <3> QED  BY <3>1 DEF Own
  <2>4. \A j \in DOMAIN s : s[j] \in Mine(frames[i])  BY DEF ToSet, Mine
  <2> HIDE DEF O, s
  <2>5. \A j \in 1 .. Len(s) : s[j] \in Live  BY <1>3, <2>1, <2>2, <2>3, <2>4
  <2>6. s \in Seq(Live)  BY <2>2, <2>5
  <2> QED  BY <2>2, <2>6 DEF s
<1>6. gen.lrs \in [Regs -> Seq(Cgts \cup {FREE, RESERVED})] /\ gen.loc \in [Cgts -> Regs \cup {"none", "stack"}]
  BY <1>2, GenFields DEF Ranges, Places
<1>7. gen.reg \in [Regs -> Values] /\ gen.stk \in Seq(Values) /\ gen.slots \subseteq Cgts
  BY <1>2, GenFields
<1> QED  BY <1>4, <1>5, <1>6, <1>7 DEF TypeOK

(* The state has its types, and each temporary that is waiting, here or     *)
(* behind an open call or branch, has a location.                           *)
THEOREM GenTyped ==
  Situations = {} => (Spec => []TypeOK)
<1> DEFINE Reason == status \in {"run", "assert", "rejected", "lost"}
<1>1. Init => Reason  BY DEF Init
<1>2. Reason /\ [Next]_vars => Reason'  BY StatusInv
<1>3. GenInv /\ Reason => TypeOK  BY InvTypes
<1> QED  BY <1>1, <1>2, <1>3, GenCorrect, PTL DEF Spec
=============================================================================
