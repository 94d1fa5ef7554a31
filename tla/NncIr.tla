-------------------------------- MODULE NncIr --------------------------------
(***************************************************************************)
(* The lowering of statements and expressions to quads (src/src/nnc_3a.c). *)
(*                                                                         *)
(* The state of a translation is the record of the file's globals: quads,  *)
(* cgt_cnt, label_cnt and loop_branches.  Every operator takes that record *)
(* and returns it as the function of the source leaves it; where an        *)
(* expression left its value is not returned but found again by QuadsRes,  *)
(* as in the source.                                                       *)
(*                                                                         *)
(* Trees are records of the resolved program: "t" is the type an           *)
(* expression was given (u: integer, n: narrow integer, ptr, arr, st,      *)
(* void), and a name has its ictx.                                         *)
(* An optional part is a sequence of at most one tree.                     *)
(***************************************************************************)
EXTENDS NncQuad

Blank == [quads |-> <<>>, cgt |-> 0, label |-> 0, out |-> 0, iter |-> 0]

-----------------------------------------------------------------------------
(* nnc_3a_quads_add *)
Add(s, q) == [s EXCEPT !.quads = Append(@, q)]

(* nnc_3a_mkcgt, nnc_3a_mkaddr and the quad that computes it *)
AddNew(s, op, t, arg1, arg2) ==
  Add([s EXCEPT !.cgt = @ + 1], Quad(op, Cgt(s.cgt + 1, t), arg1, arg2))

Labels(s, n) == [s EXCEPT !.label = @ + n]
AddJump(s, op, l, arg1, arg2) == Add(s, Quad(op, Mki3(l), arg1, arg2))

QuadsRes(s) ==
  LET plain == {i \in DOMAIN s.quads : s.quads[i].label = 0}
  IN s.quads[Max(plain)].res

(* The tail of nnc_not_to_3a, nnc_or_to_3a, nnc_and_to_3a and               *)
(* nnc_binary_rel_to_3a: one value when no jump was taken, the other at     *)
(* b_true.                                                                  *)
Settle(s, t, fall, jump, b_true, b_next) ==
  LET s1 == AddNew(s, "copy", t, Mki3(fall), None)
      res == Last(s1.quads).res
      s2 == Add(AddJump(s1, "ujump", b_next, None, None), Label(b_true))
  IN Add(Add(s2, Quad("copy", res, Mki3(jump), None)), Label(b_next))

(* nnc_set_loop_branches and nnc_restore_loop_branches *)
SetLoop(s, out, iter) == [s EXCEPT !.out = out, !.iter = iter]
RestoreLoop_Forgotten(s, saved) == s
RestoreLoop(s, saved) == [s EXCEPT !.out = saved.out, !.iter = saved.iter]

-----------------------------------------------------------------------------
RECURSIVE ToIr(_, _), LvalToIr(_, _), ArgsToIr(_, _)

(* nnc_lval_deref_to_3a *)
LvalDeref(e, s) ==
  LET s1 == ToIr(e.e, s)
      addr == QuadsRes(s1)
  IN AddNew(s1, "copy", addr.t, addr, None)

(* nnc_lval_dot_to_3a: a member is as far from the start as the members     *)
(* before it are long.                                                      *)
LvalDot(e, s) ==
  LET s1 == LvalToIr(e.e, s)
      s2 == IF e.e.t = "ptr"
            THEN AddNew(s1, "deref", "ptr", QuadsRes(s1), None)
            ELSE s1
      addr == QuadsRes(s2)
      s3 == AddNew(s2, "copy", "u", Mki3(ES * (e.member - 1)), None)
  IN Add(s3, Quad("add", Cgt(addr.v, "ptr"), addr, QuadsRes(s3)))

(* nnc_lval_index_to_3a, of a single index *)
LvalIndex(e, s) ==
  LET s1 == ToIr(e.i, s)
      s2 == AddNew(s1, "mul", "u", QuadsRes(s1), Mki3(ES))
      index == QuadsRes(s2)
      s3 == ToIr(e.e, s2)
      address == QuadsRes(s3)
  IN AddNew(s3, "add", address.t, index, address)

LvalToIr(e, s) ==
  CASE e.k = "name"  -> AddNew(s, "ref", "ptr", Name(e), None)
    [] e.k = "deref" -> LvalDeref(e, s)
    [] e.k = "dot"   -> LvalDot(e, s)
    [] e.k = "index" -> LvalIndex(e, s)

-----------------------------------------------------------------------------
(* nnc_not_to_3a *)
NotToIr(e, s) ==
  LET s1 == ToIr(e.e, Labels(s, 2))
  IN Settle(AddJump(s1, "cjumpe", s.label + 1, QuadsRes(s1), Mki3(0)),
            e.t, 0, 1, s.label + 1, s.label + 2)

(* nnc_unary_to_3a, default: the operand's temporary is the result's *)
UnaryToIr(e, s) ==
  LET s1 == ToIr(e.e, s)
      arg == QuadsRes(s1)
  IN Add(s1, Quad(e.op, Cgt(arg.v, e.t), arg, None))

CastToIr(e, s) ==
  LET s1 == ToIr(e.e, s) IN AddNew(s1, "cast", e.t, QuadsRes(s1), None)

(* nnc_deref_to_3a, nnc_dot_to_3a and nnc_index_to_3a *)
LoadToIr(e, s) ==
  LET s1 == LvalToIr(e, s) IN AddNew(s1, "deref", e.t, QuadsRes(s1), None)

(* nnc_ref_to_3a *)
RefToIr(e, s) == LvalToIr(e.e, s)

ArgsToIr(args, s) ==
  IF args = <<>> THEN s
  ELSE LET s1 == ToIr(Head(args), s)
       IN ArgsToIr(Tail(args), Add(s1, Quad("arg", None, QuadsRes(s1), None)))

(* nnc_call_to_3a: the hint, the arguments, the function and the call,      *)
(* whose result the hint then names too; a void call has none.              *)
CallToIr(e, s) ==
  LET idx == Len(s.quads) + 1
      s1 == ToIr(e.fn, ArgsToIr(e.args, Add(s, Quad("hint_call", None, None, None))))
      argc == Mki3(Len(e.args))
      s2 == IF e.t = "void" THEN Add(s1, Quad("pcall", None, QuadsRes(s1), argc))
            ELSE AddNew(s1, "fcall", e.t, QuadsRes(s1), argc)
  IN [s2 EXCEPT !.quads[idx].res = Last(s2.quads).res]

-----------------------------------------------------------------------------
(* nnc_or_to_3a and nnc_and_to_3a *)
OrToIr(e, s) ==
  LET b_true == s.label + 1
      s1 == ToIr(e.l, Labels(s, 2))
      s2 == ToIr(e.r, AddJump(s1, "cjumpt", b_true, QuadsRes(s1), None))
  IN Settle(AddJump(s2, "cjumpt", b_true, QuadsRes(s2), None),
            e.t, 0, 1, b_true, s.label + 2)

AndToIr(e, s) ==
  LET b_true == s.label + 1
      s1 == ToIr(e.l, Labels(s, 2))
      s2 == ToIr(e.r, AddJump(s1, "cjumpe", b_true, QuadsRes(s1), Mki3(0)))
  IN Settle(AddJump(s2, "cjumpe", b_true, QuadsRes(s2), Mki3(0)),
            e.t, 1, 0, b_true, s.label + 2)

(* nnc_binary_rel_to_3a *)
RelToIr(e, s) ==
  LET s1 == ToIr(e.l, Labels(s, 2))
      s2 == ToIr(e.r, s1)
  IN Settle(AddJump(s2, e.op, s.label + 1, QuadsRes(s1), QuadsRes(s2)),
            e.t, 0, 1, s.label + 1, s.label + 2)


(* nnc_add_or_sub_to_3a, and the default of nnc_binary_to_3a: the left      *)
(* operand's temporary is the result's.                                     *)
BinaryToIr(e, s) ==
  LET s1 == ToIr(e.l, s)
      arg1 == QuadsRes(s1)
      s2 == ToIr(e.r, s1)
      arg2 == QuadsRes(s2)
      s3 == IF e.op \in {"add", "sub"} /\ PtrType(arg1.t) /\ ~PtrType(arg2.t)
            THEN Add(s2, Quad("mul", Cgt(arg2.v, "u"), arg2, Mki3(ES)))
            ELSE s2
  IN Add(s3, Quad(e.op, Cgt(arg1.v, e.t), arg1, arg2))
CommaToIr(e, s) ==
  LET s2 == ToIr(e.r, ToIr(e.l, s))
  IN AddNew(s2, "copy", QuadsRes(s2).t, QuadsRes(s2), None)

(* nnc_assign_to_3a: the store, and the value of the assignment *)
AssignToIr(e, s) ==
  LET s1 == LvalToIr(e.l, s)
      s2 == ToIr(e.r, s1)
      copy == QuadsRes(s2)
      s3 == Add(s2, Quad("deref_copy", QuadsRes(s1), copy, None))
  IN AddNew(s3, "copy", e.t, copy, None)


(* nnc_ternary_to_3a: the false arm comes first *)
TernaryToIr(e, s) ==
  LET b_true == s.label + 1
      b_next == s.label + 2
      s1 == ToIr(e.c, Labels(s, 2))
      s2 == AddJump(s1, "cjumpt", b_true, QuadsRes(s1), None)
      res == Cgt(s2.cgt + 1, e.t)
      s3 == ToIr(e.r, [s2 EXCEPT !.cgt = @ + 1])
      s4 == AddJump(Add(s3, Quad("copy", res, QuadsRes(s3), None)),
                    "ujump", b_next, None, None)
      s5 == ToIr(e.l, Add(s4, Label(b_true)))
  IN Add(Add(s5, Quad("copy", res, QuadsRes(s5), None)), Label(b_next))
(* nnc_expr_to_3a; nnc_ident_to_3a, the literals and nnc_sizeof_to_3a copy  *)
(* to a new temporary.                                                      *)
ToIr(e, s) ==
  CASE e.k = "int"     -> AddNew(s, "copy", e.t, Mki2(e.v, e.t), None)
    [] e.k = "name"    -> AddNew(s, "copy", e.t, Name(e), None)
    [] e.k = "sizeof"  -> AddNew(s, "copy", "u", Mki2(ES, "u"), None)
    [] e.k = "not"     -> NotToIr(e, s)
    [] e.k = "un"      -> UnaryToIr(e, s)
    [] e.k = "cast"    -> CastToIr(e, s)
    [] e.k = "ref"     -> RefToIr(e, s)
    [] e.k \in {"deref", "dot", "index"} -> LoadToIr(e, s)
    [] e.k = "call"    -> CallToIr(e, s)
    [] e.k = "or"      -> OrToIr(e, s)
    [] e.k = "and"     -> AndToIr(e, s)
    [] e.k = "rel"     -> RelToIr(e, s)
    [] e.k = "bin"     -> BinaryToIr(e, s)
    [] e.k = "comma"   -> CommaToIr(e, s)
    [] e.k = "assign"  -> AssignToIr(e, s)
    [] e.k = "ternary" -> TernaryToIr(e, s)

-----------------------------------------------------------------------------
RECURSIVE StmtToIr(_, _), StmtsToIr(_, _), BranchesToIr(_, _, _, _, _)

(* nnc_if_branch_to_3a *)
IfBranchToIr(br, b_true, b_next, s) ==
  LET s1 == ToIr(br.cond, s)
      s2 == StmtToIr(br.body, AddJump(s1, "cjumpf", b_next, QuadsRes(s1), None))
  IN IF b_true # b_next THEN AddJump(s2, "ujump", b_true, None, None) ELSE s2

(* The elif loop and the else part of nnc_if_stmt_to_3a; b_next is not yet  *)
(* placed.                                                                  *)
BranchesToIr(brs, els, b_true, b_next, s) ==
  IF brs = <<>>
  THEN IF els = <<>> THEN s
       ELSE StmtToIr(els[1], Add(s, Label(b_next)))
  ELSE LET last == Len(brs) = 1 /\ els = <<>>
           next == IF last THEN b_true ELSE s.label + 1
           s1 == IF last THEN s ELSE Labels(s, 1)
       IN BranchesToIr(Tail(brs), els, b_true, next,
            IfBranchToIr(Head(brs), b_true, next, Add(s1, Label(b_next))))

IfToIr(st, s) ==
  LET b_true == s.label + 1
      single == st.elifs \o st.els = <<>>
      b_next == IF single THEN b_true ELSE s.label + 2
      s1 == IfBranchToIr(st, b_true, b_next, Labels(s, IF single THEN 1 ELSE 2))
  IN Add(BranchesToIr(st.elifs, st.els, b_true, b_next, s1), Label(b_true))

(* nnc_let_stmt_to_3a *)
LetToIr(st, s) ==
  LET s1 == Add(s, Quad("hint_local", Name(st.var), None, None))
      s2 == ToIr(st.init[1], s1)
  IN IF st.init = <<>> THEN s1
     ELSE Add(s2, Quad("copy", Name(st.var), QuadsRes(s2), None))

WhileToIr(st, s) ==
  LET b_iter == s.label + 1
      b_next == s.label + 2
      s1 == ToIr(st.cond, Add(SetLoop(Labels(s, 2), b_next, b_iter), Label(b_iter)))
      s2 == StmtToIr(st.body, AddJump(s1, "cjumpf", b_next, QuadsRes(s1), None))
  IN Add(RestoreLoop(AddJump(s2, "ujump", b_iter, None, None), s), Label(b_next))

DoToIr(st, s) ==
  LET b_iter == s.label + 1
      b_next == s.label + 2
      s1 == StmtToIr(st.body, Add(SetLoop(Labels(s, 2), b_next, b_iter), Label(b_iter)))
      s2 == ToIr(st.cond, s1)
      s3 == AddJump(s2, "cjumpf", b_next, QuadsRes(s2), None)
  IN Add(RestoreLoop(AddJump(s3, "ujump", b_iter, None, None), s), Label(b_next))

ForToIr(st, s) ==
  LET b_iter == s.label + 1
      b_step == s.label + 2
      b_next == s.label + 3
      s1 == Add(StmtToIr(st.init, SetLoop(Labels(s, 3), b_next, b_step)), Label(b_iter))
      s2 == StmtToIr(st.cond, s1)
      s3 == IF st.cond.k = "empty" THEN s2
            ELSE AddJump(s2, "cjumpf", b_next, QuadsRes(s2), None)
      s4 == StmtToIr(st.step, Add(StmtToIr(st.body, s3), Label(b_step)))
  IN Add(RestoreLoop(AddJump(s4, "ujump", b_iter, None, None), s), Label(b_next))

ReturnToIr(st, s) ==
  IF st.e = <<>> THEN Add(s, Quad("retp", None, None, None))
  ELSE LET s1 == ToIr(st.e[1], s) IN Add(s1, Quad("retf", None, QuadsRes(s1), None))

StmtsToIr(sts, s) ==
  IF sts = <<>> THEN s ELSE StmtsToIr(Tail(sts), StmtToIr(Head(sts), s))

StmtToIr(st, s) ==
  CASE st.k = "empty"    -> s
    [] st.k = "if"       -> IfToIr(st, s)
    [] st.k = "let"      -> LetToIr(st, s)
    [] st.k = "expr"     -> ToIr(st.e, s)
    [] st.k = "while"    -> WhileToIr(st, s)
    [] st.k = "do"       -> DoToIr(st, s)
    [] st.k = "for"      -> ForToIr(st, s)
    [] st.k = "break"    -> AddJump(s, "ujump", s.out, None, None)
    [] st.k = "continue" -> AddJump(s, "ujump", s.iter, None, None)
    [] st.k = "return"   -> ReturnToIr(st, s)
    [] st.k = "compound" -> StmtsToIr(st.body, s)

(* nnc_gen_ir_proc, before the optimizer *)
GenIrProc(body) == StmtToIr(body, Blank).quads

-----------------------------------------------------------------------------
(* nnc_3a_make_lr_for_proc: from the first to the last mention. *)
Mentions(q, c) ==
  {i \in DOMAIN q : \E a \in {q[i].res, q[i].arg1, q[i].arg2} : a.kind = "cgt" /\ a.v = c}
MakeLr_ArgumentsOnly(q, c) ==
  LET reads == {i \in DOMAIN q : \E a \in {q[i].arg1, q[i].arg2} : a.kind = "cgt" /\ a.v = c}
  IN IF reads = {} THEN [starts |-> Min(Mentions(q, c)), ends |-> Max(Mentions(q, c))]
     ELSE [starts |-> Min(reads), ends |-> Max(reads)]
MakeLr(q, c) == [starts |-> Min(Mentions(q, c)), ends |-> Max(Mentions(q, c))]
=============================================================================
