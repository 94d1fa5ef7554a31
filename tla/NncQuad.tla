------------------------------- MODULE NncQuad -------------------------------
(***************************************************************************)
(* Three-address code (src/src/nnc_3a.h), and what its quads mean.         *)
(*                                                                         *)
(* Integers are words of WordSize values and unsigned, as nnc_u64 is;      *)
(* every element, pointer and member takes ES bytes.  An address of a quad *)
(* is a record of kind, value, place and type.  "v" is what the source     *)
(* reads as exact.cgt, the first word of a union whatever its kind: the    *)
(* number of a temporary, an integer constant, or the ictx of a name       *)
(* (nnc_type.h:15, and the padding behind it, which is zero as gcc builds  *)
(* it), so that values of different kinds can be compared by mistake.      *)
(* "at" stands for the rest of a name: where its variable is.              *)
(*                                                                         *)
(* The machine below runs quads.  It stands for the code that nnc_gen.c    *)
(* emits, whose registers and stack are the subject of NncGen.             *)
(***************************************************************************)
EXTENDS Integers, Sequences, FiniteSets, FiniteSetsExt, SequencesExt, Functions, Bitwise

CONSTANT WordSize   \* bound: the number of values of a word

ES == 2
JUNK == -1          \* what is read from a place that was never written
Word == 0 .. WordSize - 1

-----------------------------------------------------------------------------
None == [kind |-> "none", v |-> 0, at |-> 0, t |-> "none"]
Cgt(n, t) == [kind |-> "cgt", v |-> n, at |-> 0, t |-> t]

(* nnc_3a_mkname1, of an identifier of the tree *)
Name(x) == [kind |-> "name", v |-> x.ictx, at |-> x.v, t |-> x.t]

(* nnc_3a_mki2, nnc_3a_mki3 *)
Mki2(n, t) == [kind |-> "int", v |-> n, at |-> 0, t |-> t]
Mki3(n) == Mki2(n, "u")

Quad(op, res, arg1, arg2) ==
  [op |-> op, res |-> res, arg1 |-> arg1, arg2 |-> arg2, label |-> 0]

(* nnc_3a_mklabel *)
Label(l) == [Quad("none", None, None, None) EXCEPT !.label = l]

UnOps == {"plus", "minus", "bw_not"}
BinOps == {"add", "sub", "mul", "div", "mod", "shr", "shl", "bw_or", "bw_and", "bw_xor"}
UnJumps == {"cjumpt", "cjumpf"}
BinJumps == {"cjumpe", "cjumpne", "cjumplt", "cjumpgt", "cjumplte", "cjumpgte"}
Jumps == UnJumps \cup BinJumps \cup {"ujump"}

PtrType(t) == t \in {"ptr", "arr"}

-----------------------------------------------------------------------------
(* What the operators do to words.  A narrow integer ("n") has NarrowSize   *)
(* values.  A division by zero faults; the machine is then left with JUNK.  *)
NarrowSize == 4

Wrap(n) == n % WordSize

UnOp(op, a) ==
  CASE op = "plus"   -> a
    [] op = "minus"  -> Wrap(-a)
    [] op = "bw_not" -> WordSize - 1 - a

BinOp(op, a, b) ==
  CASE op = "add"    -> Wrap(a + b)
    [] op = "sub"    -> Wrap(a - b)
    [] op = "mul"    -> Wrap(a * b)
    [] op = "div"    -> IF b = 0 THEN JUNK ELSE a \div b
    [] op = "mod"    -> IF b = 0 THEN JUNK ELSE a % b
    [] op = "shr"    -> a \div 2 ^ b
    [] op = "shl"    -> Wrap(a * 2 ^ b)
    [] op = "bw_or"  -> a | b
    [] op = "bw_and" -> a & b
    [] op = "bw_xor" -> a ^^ b

CastTo(t, a) == IF t = "n" THEN a % NarrowSize ELSE a

Holds(op, a, b) ==
  CASE op = "cjumpe"   -> a = b
    [] op = "cjumpne"  -> a # b
    [] op = "cjumplt"  -> a < b
    [] op = "cjumpgt"  -> a > b
    [] op = "cjumplte" -> a <= b
    [] op = "cjumpgte" -> a >= b
    [] op = "cjumpt"   -> a # 0
    [] op = "cjumpf"   -> a = 0
    [] op = "ujump"    -> TRUE

-----------------------------------------------------------------------------
(* A machine: the next quad, the memory by address, the temporaries, the    *)
(* arguments of the calls being prepared, and what was returned.            *)
Boot(memory) ==
  [pc |-> 1, mem |-> memory, tmp |-> <<>>, args |-> <<>>, ret |-> JUNK, halted |-> FALSE]

Load(m, a) == IF a \in DOMAIN m.mem THEN m.mem[a] ELSE JUNK

Store(m, a, v) ==
  IF a \in DOMAIN m.mem THEN [m EXCEPT !.mem[a] = v] ELSE m

(* An array is the address of its first element. *)
Value(m, a) ==
  CASE a.kind = "int"  -> a.v
    [] a.kind = "name" -> IF a.t = "arr" THEN a.at ELSE Load(m, a.at)
    [] a.kind = "cgt"  -> IF a.v \in DOMAIN m.tmp THEN m.tmp[a.v] ELSE JUNK
    [] a.kind = "none" -> JUNK

Assigned(m, a, v) ==
  CASE a.kind = "cgt"  -> [m EXCEPT !.tmp = (a.v :> v) @@ @]
    [] a.kind = "name" -> Store(m, a.at, v)
    [] OTHER           -> m

(* The one function programs call: it counts its calls in the variable at   *)
(* address Counter, and its result tells its arguments apart.               *)
Counter == 2
CallResult(args) == Wrap(args[1] + 2 * args[2])

Target(q, l) == CHOOSE i \in DOMAIN q : q[i].label = l

(* The machines that one quad may lead to: more than one when it branches   *)
(* on JUNK.                                                                 *)
Exec(q, m) ==
  LET i  == q[m.pc]
      a  == Value(m, i.arg1)
      b  == Value(m, i.arg2)
      n  == [m EXCEPT !.pc = @ + 1]
      Known(v) == IF JUNK \in {a, b} THEN JUNK ELSE v
  IN IF i.op \in Jumps
     THEN LET unsure == \/ i.op \in UnJumps /\ a = JUNK
                        \/ i.op \in BinJumps /\ JUNK \in {a, b}
          IN {IF taken THEN [m EXCEPT !.pc = Target(q, i.res.v)] ELSE n :
               taken \in IF unsure THEN BOOLEAN ELSE {Holds(i.op, a, b)}}
     ELSE {CASE i.op = "copy"       -> Assigned(n, i.res, a)
             [] i.op = "cast"       -> Assigned(n, i.res, IF a = JUNK THEN JUNK
                                                          ELSE CastTo(i.res.t, a))
             [] i.op \in UnOps      -> Assigned(n, i.res, IF a = JUNK THEN JUNK
                                                          ELSE UnOp(i.op, a))
             [] i.op \in BinOps     -> Assigned(n, i.res,
                                         IF Known(0) = JUNK THEN JUNK
                                         ELSE BinOp(i.op, a, b))
             [] i.op = "ref"        -> Assigned(n, i.res, i.arg1.at)
             [] i.op = "deref"      -> Assigned(n, i.res, Load(m, a))
             [] i.op = "deref_copy" -> Store(n, Value(m, i.res), a)
             [] i.op = "arg"        -> [n EXCEPT !.args = Append(@, a)]
             [] i.op \in {"fcall", "pcall"} ->
                  LET k    == Len(m.args) - i.arg2.v
                      args == SubSeq(m.args, k + 1, Len(m.args))
                      c    == Load(m, Counter)
                  IN Assigned(
                       Store([n EXCEPT !.args = SubSeq(@, 1, k)], Counter,
                             IF c = JUNK THEN JUNK ELSE Wrap(c + 1)),
                       i.res, IF JUNK \in ToSet(args) THEN JUNK ELSE CallResult(args))
             [] i.op = "retf"       -> [n EXCEPT !.ret = a, !.halted = TRUE]
             [] i.op = "retp"       -> [n EXCEPT !.halted = TRUE]
             [] OTHER               -> n}     \* labels and hints
=============================================================================
