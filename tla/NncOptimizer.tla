---------------------------- MODULE NncOptimizer ----------------------------
(***************************************************************************)
(* The peephole optimizer (src/src/nnc_3a_optimizer.c) on quads of         *)
(* integers.  A pass reads the quads from left to right; where a pattern   *)
(* starts it writes the quads that replace it and skips the ones it read.  *)
(* Passes are repeated until one of them removes nothing.                  *)
(*                                                                         *)
(* q is "unopt".  The patterns compare the number of a temporary with the  *)
(* first word of the other quad's argument, and parts 2, 3 and 5 do not    *)
(* ask for its kind: the ictx of a name may be taken for a temporary.      *)
(* Behind the last quad the source reads whatever follows its buffer; the  *)
(* model looks at programs that end in a return or a label, where no       *)
(* pattern starts.                                                         *)
(***************************************************************************)
EXTENDS NncQuad

IsConst(a) == a.kind = "int"
IsCgt(a) == a.kind = "cgt"

(* nnc_3a_op_ref_pat: tX = &x; *tX = y *)
RefPat(q, i) ==
  /\ q[i + 1].op = "deref_copy"
  /\ IsCgt(q[i].res) /\ IsCgt(q[i + 1].res)
  /\ q[i].res.v = q[i + 1].res.v

(* nnc_3a_op_copy_pat_part2: tX = const; tZ = unOp tX *)
CopyPatPart2(q, i) ==
  /\ IsCgt(q[i].res) /\ IsConst(q[i].arg1)
  /\ q[i + 1].op \in {"cast"} \cup UnJumps \cup UnOps
  /\ q[i].res.v = q[i + 1].arg1.v

(* nnc_3a_op_copy_pat_part3: tX = const; tY = const; tZ = tX binOp tY *)
CopyPatPart3(q, i) ==
  /\ i + 2 <= Len(q)
  /\ IsCgt(q[i].res) /\ IsCgt(q[i + 1].res)
  /\ IsConst(q[i].arg1) /\ IsConst(q[i + 1].arg1)
  /\ q[i + 2].op \in BinJumps \cup BinOps
  /\ q[i + 2].arg1.v = q[i].res.v
  /\ q[i + 2].arg2.v = q[i + 1].res.v

(* nnc_3a_op_copy_pat_part4: tX = const; tZ = tX binOp const *)
CopyPatPart4(q, i) ==
  /\ IsCgt(q[i].res) /\ IsCgt(q[i + 1].arg1)
  /\ IsConst(q[i].arg1) /\ IsConst(q[i + 1].arg2)
  /\ q[i + 1].op \in {"add", "mul"}
  /\ q[i].res.v = q[i + 1].arg1.v

(* nnc_3a_op_copy_pat_part5: tX = x; tY = 0; tZ = tX binOp tY *)
CopyPatPart5(q, i) ==
  /\ i + 2 <= Len(q)
  /\ ~IsConst(q[i].arg1) /\ IsConst(q[i + 1].arg1)
  /\ q[i + 2].op \in {"add", "mul"}
  /\ q[i + 1].arg1.v = 0
  /\ q[i + 1].res.v = q[i + 2].arg2.v
  /\ q[i].res.v = q[i + 2].arg1.v

(* nnc_3a_op_copy_pat_part8: tX = x; tZ = unOp tX *)
CopyPatPart8(q, i) ==
  /\ IsCgt(q[i].res)
  /\ q[i + 1].op \in {"copy", "cast", "deref", "cjumpe", "cjumpne", "deref_copy"} \cup UnOps
  /\ IsCgt(q[i + 1].arg1)
  /\ q[i + 1].arg1.v = q[i].res.v

-----------------------------------------------------------------------------
(* What replaces a pattern, and how many quads it replaces. *)
Instead(n, quads) == [skip |-> n, quads |-> quads]

(* nnc_3a_opt_unary_branch_fold, nnc_3a_opt_binary_iconst_branch_fold *)
BranchFold(n, jump, taken) ==
  Instead(n, IF taken THEN <<Quad("ujump", jump.res, None, None)>> ELSE <<>>)

(* nnc_3a_opt_unary_const_fold: a type that is neither integral nor real    *)
(* loses both quads.                                                        *)
UnaryConstFold(q, i) ==
  LET un == q[i + 1]
      val == q[i].arg1.v
  IN IF PtrType(un.res.t) THEN Instead(2, <<>>)
     ELSE IF un.op \in UnJumps THEN BranchFold(2, un, Holds(un.op, val, 0))
     ELSE Instead(2, <<Quad("copy", un.res,
            Mki2(IF un.op = "cast" THEN CastTo(un.res.t, val) ELSE UnOp(un.op, val),
                 un.res.t), None)>>)

(* nnc_3a_opt_binary_const_fold *)
BinaryConstFold_Swapped(q, i) ==
  LET bin == q[i + 2]
      lval == q[i + 1].arg1.v
      rval == q[i].arg1.v
  IN IF bin.op \in BinJumps THEN BranchFold(3, bin, Holds(bin.op, lval, rval))
     ELSE Instead(3, <<Quad("copy", bin.res,
                            Mki2(BinOp(bin.op, lval, rval), bin.res.t), None)>>)
BinaryConstFold(q, i) ==
  LET bin == q[i + 2]
      lval == q[i].arg1.v
      rval == q[i + 1].arg1.v
  IN IF bin.op \in BinJumps THEN BranchFold(3, bin, Holds(bin.op, lval, rval))
     ELSE Instead(3, <<Quad("copy", bin.res,
                            Mki2(BinOp(bin.op, lval, rval), bin.res.t), None)>>)

(* nnc_3a_opt_index_const_fold *)
IndexConstFold(q, i) ==
  Instead(2, <<Quad("copy", q[i + 1].res,
                    Mki3(BinOp(q[i + 1].op, q[i].arg1.v, q[i + 1].arg2.v)), None)>>)

(* nnc_3a_opt_algebraic: times and plus zero *)
Algebraic(q, i) ==
  Instead(3, <<Quad("copy", q[i + 2].res,
                    IF q[i + 2].op = "mul" THEN Mki3(0) ELSE q[i].arg1, None)>>)

(* nnc_3a_opt_ref_subst *)
RefSubst(q, i) == Instead(2, <<Quad("copy", q[i].arg1, q[i + 1].arg1, None)>>)

(* nnc_3a_opt_unary_subst *)
UnarySubst(q, i) == Instead(2, <<[q[i + 1] EXCEPT !.arg1 = q[i].arg1]>>)

(* nnc_3a_search_peep_pattern, nnc_3a_op_copy_pat and nnc_3a_optimize_peep *)
OptimizePeep(q, i) ==
  CASE q[i].op = "ref"  /\ RefPat(q, i)       -> RefSubst(q, i)
    [] q[i].op = "copy" /\ CopyPatPart2(q, i) -> UnaryConstFold(q, i)
    [] q[i].op = "copy" /\ ~CopyPatPart2(q, i) /\ CopyPatPart3(q, i) ->
         BinaryConstFold(q, i)
    [] q[i].op = "copy" /\ CopyPatPart4(q, i) -> IndexConstFold(q, i)
    [] q[i].op = "copy" /\ CopyPatPart5(q, i) -> Algebraic(q, i)
    [] q[i].op = "copy" /\ ~CopyPatPart2(q, i) /\ CopyPatPart8(q, i) -> UnarySubst(q, i)
    [] OTHER -> Instead(1, <<q[i]>>)

(* nnc_3a_optimization_pass, from the i-th quad on *)
RECURSIVE PassFrom(_, _)
PassFrom(q, i) ==
  IF i > Len(q) THEN <<>>
  ELSE LET r == OptimizePeep(q, i) IN r.quads \o PassFrom(q, i + r.skip)

OptimizationPass(q) == PassFrom(q, 1)

(* The pattern found at i took an argument that is no temporary for one.    *)
Mistakes(q, i) ==
  /\ q[i].op = "copy"
  /\ \/ CopyPatPart2(q, i) /\ ~IsCgt(q[i + 1].arg1)
     \/ /\ CopyPatPart3(q, i) \/ CopyPatPart5(q, i)
        /\ ~IsCgt(q[i + 2].arg1) \/ ~IsCgt(q[i + 2].arg2)

RECURSIVE MistakesFrom(_, _)
MistakesFrom(q, i) ==
  i <= Len(q) /\ (Mistakes(q, i) \/ MistakesFrom(q, i + OptimizePeep(q, i).skip))
=============================================================================
