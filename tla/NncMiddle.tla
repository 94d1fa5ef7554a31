------------------------------ MODULE NncMiddle ------------------------------
(***************************************************************************)
(* From a resolved function body to quads that run: nnc_gen_ir_proc        *)
(* (src/src/nnc_3a.c:954) with its lowering (NncIr), its optimizer passes  *)
(* (NncOptimizer) and its live ranges, the control flow graph (NncCfg),    *)
(* and a run of the result, checked against the meaning of the tree.       *)
(***************************************************************************)
EXTENDS NncIr, NncOptimizer, NncCfg

CONSTANTS Programs,   \* function bodies
          Memory,     \* the memory they start with: address -> word
          Fuel        \* bound: iterations of a loop of these programs

VARIABLES body,       \* fn_stmt->body
          optimize,   \* glob_argv.optimize
          phase,      \* "lower", "optimize", "run" or "done"
          quads,      \* proc.quads
          mistaken,   \* history: a pass took a name for a temporary
          kept,       \* positions in blocks that nnc_3a_cfg_optimize keeps
          machine     \* of NncQuad

vars == <<body, optimize, phase, quads, mistaken, kept, machine>>

Init ==
  /\ body \in Programs
  /\ optimize \in BOOLEAN
  /\ phase = "lower"
  /\ quads = <<>>
  /\ mistaken = FALSE
  /\ kept = {}
  /\ machine = Boot(Memory)

(* nnc_stmt_to_3a and nnc_ir_commit of nnc_gen_ir_proc *)
GenIr ==
  /\ phase = "lower"
  /\ quads' = GenIrProc(body)
  /\ phase' = IF optimize THEN "optimize" ELSE "run"
  /\ kept' = IF optimize THEN {} ELSE Kept(quads')
  /\ UNCHANGED <<body, optimize, mistaken, machine>>

(* One turn of the loop of nnc_3a_optimize: the last pass removes nothing. *)
Pass ==
  /\ phase = "optimize"
  /\ quads' = OptimizationPass(quads)
  /\ mistaken' = (mistaken \/ MistakesFrom(quads, 1))
  /\ phase' = IF Len(quads') = Len(quads) THEN "run" ELSE "optimize"
  /\ kept' = IF phase' = "run" THEN Kept(quads') ELSE {}
  /\ UNCHANGED <<body, optimize, machine>>

Running == phase = "run" /\ ~machine.halted /\ machine.pc <= Len(quads)

Step ==
  /\ Running
  /\ machine' \in Exec(quads, machine)
  /\ UNCHANGED <<body, optimize, phase, quads, mistaken, kept>>

Exit ==
  /\ phase = "run" /\ ~Running
  /\ phase' = "done"
  /\ UNCHANGED <<body, optimize, quads, mistaken, kept, machine>>

Done == phase = "done" /\ UNCHANGED vars

Next == GenIr \/ Pass \/ Step \/ Exit \/ Done

(* The compiler and the program it made are sequential and do not stop:     *)
(* weak fairness of Next, some step of which is enabled until phase is      *)
(* "done" (written out, since TLC takes very long to evaluate ENABLED of    *)
(* the recursive definitions).                                              *)
Fairness == []<>(phase = "done") \/ []<><<Next>>_vars

Spec == Init /\ [][Next]_vars /\ Fairness

-----------------------------------------------------------------------------
(* The meaning of a tree.  An expression gives a value and a memory, a      *)
(* place an address and a memory; operands are evaluated from the left,     *)
(* && and || stop early, and the arms of ?: are alternatives.               *)
RECURSIVE Eval(_, _), Place(_, _)

Truth(b) == IF b THEN 1 ELSE 0
Scaled(e, v) == IF PtrType(e.l.t) /\ ~PtrType(e.r.t) THEN Wrap(ES * v) ELSE v

Place(e, mem) ==
  CASE e.k = "name"  -> [v |-> e.v, mem |-> mem]
    [] e.k = "deref" -> Eval(e.e, mem)
    [] e.k = "dot"   -> LET b == IF e.e.t = "ptr" THEN Eval(e.e, mem) ELSE Place(e.e, mem)
                        IN [b EXCEPT !.v = @ + ES * (e.member - 1)]
    [] e.k = "index" -> LET i == Eval(e.i, mem)
                            b == Eval(e.e, i.mem)
                        IN [b EXCEPT !.v = @ + ES * i.v]

Eval(e, mem) ==
  LET l == Eval(e.l, mem)
      r == Eval(e.r, l.mem)
      a == Eval(e.e, mem)
      p == Place(e, mem)
  IN CASE e.k = "int"     -> [v |-> e.v, mem |-> mem]
       [] e.k = "name"    -> [v |-> IF e.t = "arr" THEN e.v ELSE mem[e.v], mem |-> mem]
       [] e.k = "sizeof"  -> [v |-> ES, mem |-> mem]
       [] e.k = "ref"     -> Place(e.e, mem)
       [] e.k \in {"deref", "dot", "index"} -> [p EXCEPT !.v = p.mem[@]]
       [] e.k = "not"     -> [a EXCEPT !.v = Truth(@ = 0)]
       [] e.k = "un"      -> [a EXCEPT !.v = UnOp(e.op, @)]
       [] e.k = "cast"    -> [a EXCEPT !.v = CastTo(e.t, @)]
       [] e.k = "bin"     -> [r EXCEPT !.v = BinOp(e.op, l.v, Scaled(e, @))]
       [] e.k = "rel"     -> [r EXCEPT !.v = Truth(Holds(e.op, l.v, @))]
       [] e.k = "comma"   -> r
       [] e.k = "and"     -> IF l.v = 0 THEN l ELSE [r EXCEPT !.v = Truth(@ # 0)]
       [] e.k = "or"      -> IF l.v # 0 THEN [l EXCEPT !.v = 1]
                             ELSE [r EXCEPT !.v = Truth(@ # 0)]
       [] e.k = "ternary" -> LET c == Eval(e.c, mem)
                             IN Eval(IF c.v # 0 THEN e.l ELSE e.r, c.mem)
       [] e.k = "assign"  -> LET to == Place(e.l, mem)
                                 from == Eval(e.r, to.mem)
                             IN [from EXCEPT !.mem[to.v] = from.v]
       [] e.k = "call"    -> LET a1 == Eval(e.args[1], mem)
                                 a2 == Eval(e.args[2], a1.mem)
                             IN [v |-> CallResult(<<a1.v, a2.v>>),
                                 mem |-> [a2.mem EXCEPT ![Counter] = Wrap(@ + 1)]]

(* A statement gives a memory and how it ended. *)
RECURSIVE Run(_, _), RunAll(_, _), RunIf(_, _, _), Loop(_, _, _, _, _)

RunAll(sts, mem) ==
  IF sts = <<>> THEN [mem |-> mem, how |-> "next", v |-> JUNK]
  ELSE LET r == Run(Head(sts), mem)
       IN IF r.how = "next" THEN RunAll(Tail(sts), r.mem) ELSE r

RunIf(brs, els, mem) ==
  IF brs = <<>> THEN RunAll(els, mem)
  ELSE LET c == Eval(Head(brs).cond, mem)
       IN IF c.v # 0 THEN Run(Head(brs).body, c.mem) ELSE RunIf(Tail(brs), els, c.mem)

(* test: whether the condition comes first; fuel: iterations left. *)
Loop(st, test, step, mem, fuel) ==
  LET c == IF test THEN Eval(st.cond, mem) ELSE [v |-> 1, mem |-> mem]
      b == Run(st.body, c.mem)
      s == RunAll(step, b.mem)
  IN IF c.v = 0 THEN [mem |-> c.mem, how |-> "next", v |-> JUNK]
     ELSE IF b.how = "break" THEN [b EXCEPT !.how = "next"]
     ELSE IF b.how = "ret" \/ fuel = 0 THEN b
     ELSE Loop(st, TRUE, step, s.mem, fuel - 1)

Run(st, mem) ==
  LET next == [mem |-> mem, how |-> "next", v |-> JUNK]
      e == Eval(st.e, mem)
  IN CASE st.k = "empty"    -> next
       [] st.k = "expr"     -> [next EXCEPT !.mem = e.mem]
       [] st.k = "let"      -> IF st.init = <<>> THEN next
                               ELSE LET i == Eval(st.init[1], mem)
                                    IN [next EXCEPT !.mem = [i.mem EXCEPT ![st.var.v] = i.v]]
       [] st.k = "if"       -> RunIf(<<[cond |-> st.cond, body |-> st.body]>> \o st.elifs,
                                     st.els, mem)
       [] st.k = "while"    -> Loop(st, TRUE, <<>>, mem, Fuel)
       [] st.k = "do"       -> Loop(st, FALSE, <<>>, mem, Fuel)
       [] st.k = "for"      ->
            LET i == Run(st.init, mem)
                cond == IF st.cond.k = "empty" THEN [k |-> "int", t |-> "u", v |-> 1]
                        ELSE st.cond.e
            IN Loop([cond |-> cond, body |-> st.body], TRUE, <<st.step>>, i.mem, Fuel)
       [] st.k \in {"break", "continue"} -> [next EXCEPT !.how = st.k]
       [] st.k = "return"   ->
            IF st.e = <<>> THEN [next EXCEPT !.how = "ret"]
            ELSE LET r == Eval(st.e[1], mem) IN [mem |-> r.mem, how |-> "ret", v |-> r.v]
       [] st.k = "compound" -> RunAll(st.body, mem)

-----------------------------------------------------------------------------
(* A continue of the loop st is the body of, and a do loop, anywhere in st, *)
(* with a continue of its own.                                              *)
RECURSIVE Continues(_), ContinuesDo(_)
Parts(st) ==
  CASE st.k = "compound" -> ToSet(st.body)
    [] st.k = "if"       -> {st.body} \cup {br.body : br \in ToSet(st.elifs)} \cup ToSet(st.els)
    [] OTHER             -> {}
Continues(st) == st.k = "continue" \/ \E p \in Parts(st) : Continues(p)
ContinuesDo(st) ==
  \/ st.k = "do" /\ Continues(st.body)
  \/ \E p \in Parts(st) \cup IF st.k \in {"while", "do", "for"} THEN {st.body} ELSE {} :
        ContinuesDo(p)

(* When the quads have run, optimized or not, the memory and the returned   *)
(* value are what the tree means: jumps, early exits, loop branches,        *)
(* overwritten temporaries and folded constants included (nnc_3a.c,         *)
(* nnc_3a_optimizer.c).  Two exceptions: a continue in a do loop goes to    *)
(* the start of the body and skips the condition (nnc_3a.c:706-710), and a  *)
(* pass that took the ictx of a name for a temporary                        *)
(* (nnc_3a_optimizer.c:132, as in return 1 - (-y)) folds the name away.     *)
RunsAsSource ==
  (phase = "done" /\ ~mistaken /\ ~ContinuesDo(body)) =>
    LET r == Run(body, Memory) IN machine.mem = r.mem /\ machine.ret = r.v

(* Where c may still be read before it is written again. *)
Flow(i) ==
  IF quads[i].op \in {"retf", "retp"} THEN {}
  ELSE (IF quads[i].op \in Jumps THEN {Target(quads, quads[i].res.v)} ELSE {})
       \cup (IF quads[i].op = "ujump" THEN {} ELSE {i + 1} \cap DOMAIN quads)
Is(a, c) == a.kind = "cgt" /\ a.v = c
Reads(i, c) ==
  \/ Is(quads[i].arg1, c) \/ Is(quads[i].arg2, c)
  \/ quads[i].op = "deref_copy" /\ Is(quads[i].res, c)
Writes(i, c) == Is(quads[i].res, c) /\ quads[i].op \notin {"deref_copy", "hint_call"}

RECURSIVE LiveFrom(_, _)
LiveFrom(c, live) ==
  LET more == {i \in DOMAIN quads :
                 Reads(i, c) \/ (~Writes(i, c) /\ Flow(i) \cap live # {})}
  IN IF more \subseteq live THEN live ELSE LiveFrom(c, live \cup more)

(* The range nnc_3a_make_lr_for_proc gives a temporary (first to last       *)
(* mention in a row of quads) covers every place where control flow,        *)
(* loops included, may still carry its value to a read: the allocator may   *)
(* give its register away outside the range.  A pass that took a name for a *)
(* temporary may leave reads of a temporary that nothing writes.            *)
RangesCoverUses ==
  (phase = "run" /\ machine = Boot(Memory) /\ ~mistaken) =>
    \A c \in {quads[i].res.v : i \in {j \in DOMAIN quads :
                quads[j].res.kind = "cgt" /\ Writes(j, quads[j].res.v)}} :
      LiveFrom(c, {}) \subseteq MakeLr(quads, c).starts .. MakeLr(quads, c).ends

(* Every quad that runs is in a block that the control flow graph keeps     *)
(* (nnc_3a_get_blocks, nnc_3a_cfg_rebuild, nnc_3a_cfg_optimize).            *)
RunsInKept == Running => machine.pc \in kept

(* The optimizer's passes and the quads of a loop that ends come to an end  *)
(* (nnc_3a_optimize: until a pass removes nothing).  Not so the quads of a  *)
(* do loop with a continue, which skips the condition that would end it     *)
(* (nnc_3a.c:706-710).                                                      *)
Finishes == <>(phase = "done" \/ ContinuesDo(body))
=============================================================================
