------------------------------ MODULE NncScope ------------------------------
(***************************************************************************)
(* Statements, symbol tables and the two passes over them: the parser      *)
(* (src/src/nnc_parse.c) enters and leaves scopes and declares names while *)
(* it reads, then nnc_compile_pass2 (src/src/nnc_main.c) resolves one      *)
(* top-level statement after the other (src/src/nnc_resolve.c) and         *)
(* generates code for it as long as no error was shown.                    *)
(*                                                                         *)
(* The text is not fixed beforehand: each action of the parser is the      *)
(* reading of one statement, or of the brace that closes one.  An          *)
(* expression is at most one identifier, with or without a namespace.      *)
(***************************************************************************)
EXTENDS Integers, Sequences, FiniteSets, FiniteSetsExt

CONSTANTS Lets,       \* names that let and for declare
          Heads,      \* what follows the name of a function: [params, value, pub]
          Fns,        \* names of functions
          Spaces,     \* names of namespaces
          Enums,      \* names of enumerators
          Types,      \* names of types
          Exprs,      \* expressions: <<>> or <<[np |-> <<>> or <<n>>, name |-> x]>>
          LetForms,   \* what follows the name of a variable: [type, init]
          Mixes,      \* sets of kinds of statement: a file is made of one set
          MaxStmts    \* bound: statements of a file

VARIABLES mix,        \* the kinds of statement in the file
          root,       \* nnc_st.root: scope -> the scope around it, 0 for the global one
          ctx,        \* nnc_st.ctx
          decls,      \* nnc_st.syms of all scopes
          types,      \* nnc_st.types of all scopes
          st,         \* parser->st
          stmts,      \* the statements read, in the order of the text
          open,       \* statements whose body is being read
          phase,      \* "parse", "resolve", "done" or "failed"
          erred,      \* nnc_error_occured(): glob_canarie is not 0
          at,         \* the statement that pass 2 is at
          gen         \* statements handed to nnc_gen_ir

vars == <<mix, root, ctx, decls, types, st, stmts, open, phase, erred, at, gen>>
Tables == <<mix, root, ctx, decls, types>>

Prim == "prim"

-----------------------------------------------------------------------------
(* nnc_symtable.c *)

(* The scopes from s outwards. *)
Outwards(s) ==
  LET f[i \in 1 .. Len(root)] == {i} \cup (IF root[i] = 0 THEN {} ELSE f[root[i]])
  IN f[s]

(* A search for a name ends with the first namespace. *)
Searched(s) ==
  {t \in Outwards(s) :
     \A u \in Outwards(s) : u > t => ctx[u] # "NAMESPACE"}

(* nnc_st_get of a symbol: the innermost one, as a set of at most one. *)
Get(s, name) ==
  LET found == {d \in decls : d.scope \in Searched(s) /\ d.name = name}
  IN {d \in found : \A e \in found : e.scope <= d.scope}

(* nnc_st_deep_get *)
DeepGet(s, name) == {d \in decls : s \in Outwards(d.scope) /\ d.name = name}

(* nnc_st_get and nnc_st_has of a type *)
HasType(s, name) == \E t \in types : t.scope \in Searched(s) /\ t.name = name

(* nnc_st_has_ctx *)
HasCtx(s, c) == \E t \in Outwards(s) : ctx[t] = c

(* Whether nnc_st_put_sym throws. *)
Declared_OneTable(s, name, ictx) == \E d \in decls : d.scope = s /\ d.name = name
Declared_Upwards(s, name, ictx) == Get(s, name) # {}
Declared(s, name, ictx) ==
  IF ictx = "global" THEN DeepGet(s, name) # {} ELSE Get(s, name) # {}

(* A symbol: body is the scope of a namespace, pos the statement that       *)
(* declares it.                                                             *)
Sym(s, name, ictx, body, pos) ==
  [scope |-> s, name |-> name, ictx |-> ictx, body |-> body, pos |-> pos]

-----------------------------------------------------------------------------
(* nnc_parse.c *)

Init ==
  /\ mix \in Mixes
  /\ root = <<0>> /\ ctx = <<"GLOBAL">>
  /\ decls = {} /\ types = {}
  /\ st = 1 /\ stmts = <<>> /\ open = <<>>
  /\ phase = "parse" /\ erred = FALSE /\ at = 1 /\ gen = {}

Here == Len(stmts) + 1
Outer == ctx[st] \in {"GLOBAL", "NAMESPACE"}
LetCtx == IF Outer THEN "global" ELSE "local"

(* A statement as it is read: st the scope it is in, use its expression,    *)
(* vars what it declares late, end the last statement inside it, chain the  *)
(* statement it continues.                                                  *)
Stmt(k, use) ==
  [k |-> k, st |-> st, use |-> use, init |-> <<>>, type |-> Prim, vars |-> <<>>,
   body |-> 0, end |-> Here, chain |-> Here,
   value |-> FALSE, pub |-> FALSE]

Reading == phase = "parse"
More(k) == Reading /\ Len(stmts) < MaxStmts /\ k \in mix

(* A THROW that nothing in the parser catches, like an abort, *)
(* ends the process, and its state with it. *)
Throw ==
  /\ phase' = "failed" /\ UNCHANGED mix
  /\ root' = <<0>> /\ ctx' = <<"GLOBAL">>
  /\ decls' = {} /\ types' = {}
  /\ st' = 1 /\ stmts' = <<>> /\ open' = <<>>
  /\ erred' = FALSE /\ at' = 1 /\ gen' = {}

Read(s) ==
  /\ stmts' = Append(stmts, s)
  /\ UNCHANGED <<mix, root, ctx, st, open, phase, erred, at, gen>>

(* nnc_parser_enter_scope of nnc_parse_compound_stmt; the statement stays   *)
(* open until the brace that ends its body.                                 *)
Enter(s, c) ==
  /\ root' = Append(root, st)
  /\ ctx' = Append(ctx, c)
  /\ st' = Len(root) + 1
  /\ stmts' = Append(stmts, [s EXCEPT !.body = Len(root) + 1])
  /\ open' = Append(open, Len(stmts) + 1)
  /\ UNCHANGED <<mix, types, phase, erred, at, gen>>

ParseLet(x, form) ==
  /\ More("let")
  /\ IF Declared(st, x, LetCtx)
     THEN Throw
     ELSE /\ decls' = decls \cup {Sym(st, x, LetCtx, 0, Here)}
          /\ Read([Stmt("let", <<>>) EXCEPT !.init = form.init, !.type = form.type])
          /\ UNCHANGED types

ParseType(t, enumerators) ==
  /\ More("type")
  /\ IF HasType(st, t) \/ \E x \in enumerators : Declared(st, x, "enum")
     THEN Throw
     ELSE /\ decls' = decls \cup {Sym(st, x, "enum", 0, Here) : x \in enumerators}
          /\ types' = types \cup {[scope |-> st, name |-> t]}
          /\ Read(Stmt("type", <<>>))

(* nnc_parse_expr_stmt, break, continue, goto and return *)
ParsePlain(k, e, value) ==
  /\ More(k)
  /\ Read([Stmt(k, e) EXCEPT !.value = value])
  /\ UNCHANGED <<decls, types>>

(* nnc_parse_pub_stmt and nnc_parse_fn_stmt up to the body *)
ParseFn(f, head) ==
  /\ More("fn")
  /\ IF Declared(st, f, "fn") \/ (head.pub /\ ctx[st] # "GLOBAL")
     THEN Throw
     ELSE /\ decls' = decls \cup {Sym(st, f, "fn", 0, Here)}
          /\ Enter([Stmt("fn", <<>>) EXCEPT !.vars = head.params, !.value = head.value,
                                            !.pub = head.pub], "FN")

ParseExtFn(f, pub) ==
  /\ More("ext_fn")
  /\ IF Declared(st, f, "fn") \/ (pub /\ ctx[st] # "GLOBAL")
     THEN Throw
     ELSE /\ decls' = decls \cup {Sym(st, f, "fn", 0, Here)}
          /\ Read([Stmt("ext_fn", <<>>) EXCEPT !.pub = pub])
          /\ UNCHANGED types

ParseNamespace(n) ==
  /\ More("namespace")
  /\ Enter([Stmt("namespace", <<>>) EXCEPT !.vars = <<n>>], "NAMESPACE")
  /\ UNCHANGED decls

ParseIf(e) == More("if") /\ Enter(Stmt("if", e), "IF") /\ UNCHANGED decls
ParseWhile(e) == More("while") /\ Enter(Stmt("while", e), "LOOP") /\ UNCHANGED decls
ParseDo == More("do") /\ Enter(Stmt("do", <<>>), "LOOP") /\ UNCHANGED decls

(* nnc_parse_for_stmt: vars is the variable of a let, or empty; the step    *)
(* mentions what the condition does.                                        *)
ParseFor(vs, init, e) ==
  /\ More("for")
  /\ Enter([Stmt("for", e) EXCEPT !.vars = vs, !.init = init], "LOOP")
  /\ UNCHANGED decls

(* The brace that ends a body, and what its statement does after it:        *)
(* nnc_parser_leave_scope, then the names that are declared late.           *)
Last == open[Len(open)]
Closed(more) ==
  [i \in DOMAIN stmts |->
     IF stmts[i].chain = stmts[Last].chain
     THEN [stmts[i] EXCEPT !.end = Len(stmts) + more] ELSE stmts[i]]

Leave ==
  /\ st' = root[st]
  /\ open' = SubSeq(open, 1, Len(open) - 1)
  /\ UNCHANGED <<mix, root, ctx, types, at, gen>>

(* Each parameter is put under a TRY of its own, so that the rest of the    *)
(* list is declared too.                                                    *)
CloseFn ==
  LET params == stmts[Last].vars
      Late(i) == Declared(st, params[i], "param") \/ \E j \in 1 .. i - 1 : params[j] = params[i]
      bad == {i \in DOMAIN params : Late(i)}
  IN /\ Reading /\ open # <<>> /\ stmts[Last].k = "fn"
     /\ decls' = decls \cup {Sym(st, params[i], "param", 0, Last) : i \in DOMAIN params \ bad}
     /\ erred' = (erred \/ bad # {})
     /\ stmts' = Closed(0)
     /\ Leave
     /\ UNCHANGED phase

CloseNamespace ==
  LET n == stmts[Last].vars[1]
  IN /\ Reading /\ open # <<>> /\ stmts[Last].k = "namespace"
     /\ IF Declared(root[st], n, "np")
        THEN Throw
        ELSE /\ decls' = decls \cup {Sym(root[st], n, "np", st, Last)}
             /\ stmts' = Closed(0)
             /\ Leave
             /\ UNCHANGED <<phase, erred>>

(* LetCtx of the scope around the loop *)
CloseFor ==
  LET v == stmts[Last].vars
      ictx == IF ctx[root[st]] \in {"GLOBAL", "NAMESPACE"} THEN "global" ELSE "local"
  IN /\ Reading /\ open # <<>> /\ stmts[Last].k = "for"
     /\ IF v # <<>> /\ Declared(st, v[1], ictx)
        THEN Throw
        ELSE /\ decls' = decls \cup {Sym(st, v[i], ictx, 0, Last) : i \in DOMAIN v}
             /\ stmts' = Closed(0)
             /\ Leave
             /\ UNCHANGED <<phase, erred>>

CloseBody ==
  /\ Reading /\ open # <<>> /\ stmts[Last].k \in {"if", "elif", "else", "while"}
  /\ stmts' = Closed(0)
  /\ Leave
  /\ UNCHANGED <<decls, phase, erred>>

(* The condition of a do statement is read, and resolved, after its body. *)
CloseDo(e) ==
  /\ Reading /\ open # <<>> /\ stmts[Last].k = "do"
  /\ stmts' = Append(Closed(1), [Stmt("cond", e) EXCEPT !.st = root[st], !.chain = Last])
  /\ Leave
  /\ UNCHANGED <<decls, phase, erred>>

(* A branch of an if statement after another *)
NextBranch(k, e) ==
  /\ More(k) /\ open # <<>> /\ stmts[Last].k \in {"if", "elif"}
  /\ root' = Append(root, root[st])
  /\ ctx' = Append(ctx, IF k = "elif" THEN "ELIF" ELSE "ELSE")
  /\ st' = Len(root) + 1
  /\ stmts' = Append(stmts, [Stmt(k, e) EXCEPT !.st = root[st], !.body = Len(root) + 1,
                                               !.chain = stmts[Last].chain])
  /\ open' = [open EXCEPT ![Len(open)] = Len(stmts) + 1]
  /\ UNCHANGED <<mix, decls, types, phase, erred, at, gen>>

SyntaxError == Reading /\ Throw

(* The end of the file, and nnc_check_for_errors after the first pass *)
ParseEnd ==
  /\ Reading /\ open = <<>>
  /\ IF erred THEN Throw
     ELSE phase' = "resolve" /\ UNCHANGED <<Tables, st, stmts, open, erred, at, gen>>

-----------------------------------------------------------------------------
(* nnc_resolve.c: whether a statement is resolved without a THROW, its body *)
(* apart.                                                                   *)

(* nnc_resolve_ident with nnc_resolve_nesting: what an identifier is, as a  *)
(* set of at most one symbol. *)
Ident(s, u) ==
  IF u.np = <<>> THEN Get(s, u.name)
  ELSE UNION {Get(n.body, u.name) : n \in {d \in Get(s, u.np[1]) : d.ictx = "np"}}

ResolveExpr(s, e) == \A i \in DOMAIN e : Ident(s, e[i]) # {}

(* nnc_resolve_condition_expr: neither a function nor a namespace *)
Integral(s, e) ==
  \A i \in DOMAIN e : \E d \in Ident(s, e[i]) : d.ictx \notin {"fn", "np"}

(* nnc_can_fold_expr *)
CanFold(s, e) == \A i \in DOMAIN e : \E d \in Ident(s, e[i]) : d.ictx = "enum"

ResolveLet(s, scope) ==
  /\ s.type = Prim \/ HasType(scope, s.type)
  /\ Integral(scope, s.init)
  /\ ctx[scope] \in {"GLOBAL", "NAMESPACE"} => CanFold(scope, s.init)

ResolveFor(s) ==
  /\ HasCtx(s.st, "FN")
  /\ IF s.vars = <<>> THEN ResolveExpr(s.st, s.init) ELSE ResolveLet(s, s.st)
  /\ Integral(IF s.vars = <<>> THEN s.st ELSE s.body, s.use)

(* The function of a return statement is that of the nearest FN scope. *)
ResolveReturn(s) ==
  /\ HasCtx(s.st, "FN")
  /\ Integral(s.st, s.use)
  /\ LET fn == Max({t \in Outwards(s.st) : ctx[t] = "FN"})
     IN \E i \in DOMAIN stmts : stmts[i].body = fn /\ stmts[i].value = s.value

AtOuter(s) == ctx[s.st] \in {"GLOBAL", "NAMESPACE"}

ResolveFn_Anywhere(s) == ~(s.pub /\ s.k = "ext_fn")
ResolveFn(s) == AtOuter(s) /\ ~(s.pub /\ s.k = "ext_fn")

(* nnc_resolve_stmt *)
ResolveStmt(s) ==
  CASE s.k = "let" -> ResolveLet(s, s.st)
    [] s.k = "for" -> ResolveFor(s)
    [] s.k = "return" -> ResolveReturn(s)
    [] s.k \in {"fn", "ext_fn"} -> ResolveFn(s)
    [] s.k \in {"type", "namespace"} -> AtOuter(s)
    [] s.k = "expr" -> HasCtx(s.st, "FN") /\ ResolveExpr(s.st, s.use)
    [] s.k \in {"if", "while"} -> HasCtx(s.st, "FN") /\ Integral(s.st, s.use)
    [] s.k = "do" -> HasCtx(s.st, "FN")
    [] s.k \in {"elif", "else", "cond"} -> Integral(s.st, s.use)
    [] s.k \in {"break", "continue"} -> HasCtx(s.st, "LOOP")

(* The top-level statement that pass 2 is in. *)
Top == Max({i \in 1 .. at : stmts[i].st = 1 /\ stmts[i].chain = i})

(* A statement that throws is given up with all that is inside it: the      *)
(* compound statement around it, or pass 2, shows the error and goes on     *)
(* with the next one.                                                       *)
GoOn_NoRecovery(ok) == IF ok THEN at + 1 ELSE at
GoOn(ok) == IF ok THEN at + 1 ELSE stmts[at].end + 1

(* nnc_compile_pass2 *)
Pass2 ==
  /\ phase = "resolve" /\ at <= Len(stmts) /\ stmts[at].k # "goto"
  /\ LET ok == ResolveStmt(stmts[at])
     IN /\ at' = GoOn(ok)
        /\ erred' = (erred \/ ~ok)
        /\ gen' = IF ~erred' /\ at' > stmts[Top].end THEN gen \cup {Top} ELSE gen
  /\ UNCHANGED <<Tables, st, stmts, open, phase>>

(* nnc_resolve_stmt aborts on a goto. *)
Pass2Goto ==
  /\ phase = "resolve" /\ at <= Len(stmts) /\ stmts[at].k = "goto"
  /\ Throw

Pass2End ==
  /\ phase = "resolve" /\ at > Len(stmts)
  /\ IF erred THEN Throw
     ELSE phase' = "done" /\ UNCHANGED <<Tables, st, stmts, open, erred, at, gen>>

Finished == phase \in {"done", "failed"} /\ UNCHANGED vars

Parse ==
  \/ \E x \in Lets, form \in LetForms : ParseLet(x, form)
  \/ \E t \in Types, es \in SUBSET Enums : ParseType(t, es)
  \/ \E e \in Exprs : ParsePlain("expr", e, FALSE) \/ ParsePlain("return", e, TRUE)
  \/ ParsePlain("return", <<>>, FALSE)
  \/ \E k \in {"break", "continue", "goto"} : ParsePlain(k, <<>>, FALSE)
  \/ \E f \in Fns, head \in Heads : ParseFn(f, head)
  \/ \E f \in Fns, p \in BOOLEAN : ParseExtFn(f, p)
  \/ \E n \in Spaces : ParseNamespace(n)
  \/ \E e \in Exprs : ParseIf(e) \/ ParseWhile(e) \/ CloseDo(e) \/ NextBranch("elif", e)
  \/ \E x \in Lets, e \in Exprs : ParseFor(<<x>>, <<>>, e) \/ ParseFor(<<>>, e, e)
  \/ NextBranch("else", <<>>)
  \/ ParseDo
  \/ CloseFn \/ CloseNamespace \/ CloseFor \/ CloseBody
  \/ SyntaxError \/ ParseEnd

Next == Parse \/ Pass2 \/ Pass2Goto \/ Pass2End \/ Finished

(* The compiler reads a file of finite length and does not stop on its own. *)
Spec == Init /\ [][Next]_vars /\ WF_vars(Next)

-----------------------------------------------------------------------------
Inside(j, i) == i < j /\ j <= stmts[i].end

(* The functions that code was generated for: at the top of the file or in  *)
(* a namespace.                                                             *)
GenFns ==
  {i \in DOMAIN stmts : stmts[i].k = "fn" /\ \E t \in gen : i \in t .. stmts[t].end}

(* The function whose text a statement is in *)
OwnFn(j) == Max({i \in DOMAIN stmts : stmts[i].k = "fn" /\ Inside(j, i)})

(* Code is generated for a function only if each break and continue in its  *)
(* text is in a loop of that same function (the lowering asserts it,        *)
(* src/src/nnc_3a.c:872 and 896), and each return agrees with it.  The      *)
(* resolver looks outwards for the contexts FN and LOOP without stopping    *)
(* at a function.                                                           *)
ControlHasTarget ==
  \A i \in GenFns :
    \A j \in i + 1 .. stmts[i].end :
      /\ OwnFn(j) = i
      /\ stmts[j].k \in {"break", "continue"} =>
           \E l \in i + 1 .. j - 1 : stmts[l].k \in {"for", "while", "do"} /\ Inside(j, l)
      /\ stmts[j].k = "return" => stmts[j].value = stmts[i].value

(* Two variables of a function, one declared in the scope of the other or   *)
(* around it, the outer one first in the text *)
Nested(i) ==
  {p \in decls \X decls :
     /\ stmts[i].body \in Outwards(p[1].scope)
     /\ p[1].scope \in Outwards(p[2].scope) /\ p[1].pos < p[2].pos}

(* A variable that is declared where another one of its function is visible *)
(* differs from it in name, so that each has its own place in the frame:    *)
(* places are found by the bare name (nnc_make_var_loc_label,               *)
(* src/src/nnc_gen_sa.c:198, "Creates unique label for global or local      *)
(* variable").                                                              *)
OwnSlot ==
  \A i \in GenFns : \A p \in Nested(i) : p[1].name # p[2].name

(* The same for the outer variables that a let statement declares: those    *)
(* are put in the table before what follows them is read.                   *)
LetOwnSlot ==
  \A i \in GenFns :
    \A p \in Nested(i) : stmts[p[1].pos].k = "let" => p[1].name # p[2].name

(* In a program that is accepted no variable of a function hides a global   *)
(* variable of the file or namespace it is in, whichever of them is         *)
(* declared first (nnc_st_put_sym looks inwards for a global variable and   *)
(* outwards for any other name).                                            *)
GlobalsNotHidden ==
  phase = "done" =>
    \A d, e \in decls :
      (d.ictx = "global" /\ e.ictx \in {"local", "param"} /\ d.scope \in Searched(e.scope))
        => d.name # e.name

(* Every file is either compiled or refused: an error in a statement never  *)
(* keeps the second pass from the statements after it.                      *)
Decided == <>(phase \in {"done", "failed"})
=============================================================================
