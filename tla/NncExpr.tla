------------------------------ MODULE NncExpr ------------------------------
(***************************************************************************)
(* The expression parser (src/src/nnc_parse.c): a sequence of tokens is    *)
(* read from a position, with one token of lookahead.                      *)
(*                                                                         *)
(* A parse is [ok, at, tree]: whether nothing was thrown, the token after  *)
(* what was read, and the tree.  A tree is [k, op, kids]; parentheses      *)
(* leave no node.  A token is its spelling; names and numbers are leaves.  *)
(***************************************************************************)
EXTENDS Integers, Sequences, SequencesExt

CONSTANTS Names,       \* tokens that are identifiers
          Literals,    \* tokens that are numbers, characters and strings
          TypeNames    \* tokens that name types: primitive ones and declared ones

Node(k, op, kids) == [k |-> k, op |-> op, kids |-> kids]
Leaf(x) == Node("leaf", x, <<>>)
Nothing == Leaf("")
Leaves == Names \cup Literals
Fail(at) == [ok |-> FALSE, at |-> at, tree |-> Nothing]
Parsed(at, tree) == [ok |-> TRUE, at |-> at, tree |-> tree]

(* nnc_parser_peek *)
Tok(s, at) == IF at <= Len(s) THEN s[at] ELSE "EOF"

(* nnc_parser_expect, after the parse p *)
Expect(s, p, tok) ==
  IF p.ok /\ Tok(s, p.at) = tok THEN [p EXCEPT !.at = @ + 1] ELSE Fail(p.at)

(* The tree of p as the last kid of a node, behind others *)
Wrapped(p, k, op, before) ==
  IF p.ok THEN [p EXCEPT !.tree = Node(k, op, Append(before, @))] ELSE p

(* The operators of the binary levels, from nnc_parse_arith_multiplication_ *)
(* expr to nnc_parse_or_expr, then assignment and comma.                    *)
Mul == 1
Or == 10
Assign == 12
Comma == 13
Ops_AndOrSwapped(n) ==
  <<{"*", "/", "%"}, {"+", "-"}, {"<<", ">>"}, {"<", ">", "<=", ">="}, {"==", "!="},
    {"&"}, {"^"}, {"|"}, {"||"}, {"&&"}, {}, {"="}, {","}>>[n]
Ops(n) ==
  <<{"*", "/", "%"}, {"+", "-"}, {"<<", ">>"}, {"<", ">", "<=", ">="}, {"==", "!="},
    {"&"}, {"^"}, {"|"}, {"&&"}, {"||"}, {}, {"="}, {","}>>[n]

PrefixOps == {"+", "-", "~", "!", "*", "&"}

RECURSIVE ParseUnary(_, _), ParseLevel(_, _, _), ParseLoop(_, _, _), ParseItems(_, _, _),
          ParsePostfix(_, _), ParseDeclarators(_, _), ParseNesting(_, _), ParseTypeExpr(_, _)

(* nnc_parse_expr and nnc_parse_expr_reduced *)
ParseExpr(s, at) == ParseLevel(Comma, s, at)
ParseExprReduced(s, at) == ParseLevel(Assign, s, at)

(* nnc_parse_nesting: names before "::" *)
ParseNesting(s, at) ==
  IF Tok(s, at) \in Names /\ Tok(s, at + 1) = "::"
  THEN LET p == ParseNesting(s, at + 2)
       IN [p EXCEPT !.tree = <<Tok(s, at)>> \o @]
  ELSE [at |-> at, tree |-> <<>>]

Named(tok, n) == IF n.tree = <<>> THEN Leaf(tok) ELSE Node("nested", tok, n.tree)

(* nnc_parse_type_declarators: an array or a pointer, but no pointer to an  *)
(* array *)
ParseDeclarators(s, p) ==
  IF ~p.ok \/ Tok(s, p.at) \notin {"*", "["} THEN p
  ELSE IF Tok(s, p.at) = "*"
  THEN IF p.tree.k = "arr" THEN Fail(p.at)
       ELSE ParseDeclarators(s, Parsed(p.at + 1, Node("ptr", "*", <<p.tree>>)))
  ELSE ParseDeclarators(s, Wrapped(Expect(s, ParseExprReduced(s, p.at + 1), "]"),
                                   "arr", "[", <<p.tree>>))

(* One item of a list: nnc_parse_var_type, nnc_parse_enumerator, a type or  *)
(* an argument.                                                             *)
ParseItem(s, at, k) ==
  LET named == IF Tok(s, at) \in Names THEN Parsed(at + 1, Leaf(Tok(s, at))) ELSE Fail(at)
  IN CASE k = "call" -> ParseExprReduced(s, at)
       [] k = "fn" -> ParseTypeExpr(s, at)
       [] k = "struct" -> IF Expect(s, named, ":").ok
                          THEN Wrapped(ParseTypeExpr(s, at + 2), "item", ":", <<named.tree>>)
                          ELSE Fail(at)
       [] k = "enum" -> IF named.ok /\ Tok(s, at + 1) = "="
                        THEN Wrapped(ParseExprReduced(s, at + 2), "item", "=", <<named.tree>>)
                        ELSE named

(* The loops of nnc_parse_call_expr, nnc_parse_fn_type, nnc_parse_enum_type *)
(* and nnc_parse_struct_or_union_type: the kids of p grow by the items.  A  *)
(* member of a struct always ends in ";", the last of the others in nothing *)
(* or ",".                                                                  *)
Closing(k) == {"EOF", IF k \in {"call", "fn"} THEN ")" ELSE "}"}
Separator(s, p, k) ==
  IF k # "struct" /\ Tok(s, p.at) \in Closing(k) THEN p
  ELSE ParseItems(s, Expect(s, p, IF k = "struct" THEN ";" ELSE ","), k)
ParseItems(s, p, k) ==
  IF ~p.ok \/ Tok(s, p.at) \in Closing(k) THEN p
  ELSE Separator(s, Wrapped(ParseItem(s, p.at, k), p.tree.k, p.tree.op, p.tree.kids), k)

(* nnc_parse_fn_type, nnc_parse_enum_type, nnc_parse_struct_or_union_type   *)
FnResult(s, f) ==
  IF f.ok THEN Wrapped(ParseTypeExpr(s, f.at), "type", "fn", f.tree.kids) ELSE f
ParseComposite(s, at) ==
  LET k == IF Tok(s, at) = "union" THEN "struct" ELSE Tok(s, at)
      p == ParseItems(s, Parsed(at + 2, Node("type", Tok(s, at), <<>>)), k)
  IN IF Tok(s, at + 1) # (IF k = "fn" THEN "(" ELSE "{") THEN Fail(at + 1)
     ELSE IF k = "fn" THEN FnResult(s, Expect(s, Expect(s, p, ")"), ":"))
     ELSE Expect(s, p, "}")

(* nnc_parse_type_expr *)
ParseTypeExpr(s, at) ==
  LET n == ParseNesting(s, at)
  IN IF Tok(s, n.at) \in {"fn", "enum", "struct", "union"}
     THEN ParseDeclarators(s, ParseComposite(s, n.at))
     ELSE IF Tok(s, n.at) \in TypeNames \cup Names
     THEN ParseDeclarators(s, Parsed(n.at + 1, Named(Tok(s, n.at), n)))
     ELSE Fail(n.at)

(* nnc_parse_primary_expr; whatever follows "::" is taken for a name, and   *)
(* the end of the file is never passed.                                     *)
ParsePrimary(s, at) ==
  LET n == ParseNesting(s, at)
  IN IF Tok(s, at) = "(" THEN Expect(s, ParseExpr(s, at + 1), ")")
     ELSE IF Tok(s, at) \notin Leaves THEN Fail(at)
     ELSE Parsed(IF n.at > Len(s) THEN n.at ELSE n.at + 1,
                 Named(Tok(s, n.at), n))

(* The loop of nnc_parse_postfix_expr over ".", "(" and "[" *)
ParsePostfix(s, p) ==
  IF ~p.ok THEN p
  ELSE CASE Tok(s, p.at) = "."  ->
              IF Tok(s, p.at + 1) \notin Names THEN Fail(p.at + 1)
              ELSE ParsePostfix(s, Wrapped(ParsePrimary(s, p.at + 1), "dot", ".", <<p.tree>>))
         [] Tok(s, p.at) = "("  ->
              ParsePostfix(s, Expect(s, ParseItems(s, Parsed(p.at + 1,
                                          Node("call", "(", <<p.tree>>)), "call"), ")"))
         [] Tok(s, p.at) = "["  ->
              ParsePostfix(s, Wrapped(Expect(s, ParseExpr(s, p.at + 1), "]"),
                                      "index", "[", <<p.tree>>))
         [] OTHER -> p

(* nnc_parse_postfix_expr: "as" ends it. *)
AsOrPostfix(s, p) ==
  IF p.ok /\ Tok(s, p.at) = "as" THEN Wrapped(ParseTypeExpr(s, p.at + 1), "as", "as", <<p.tree>>)
  ELSE ParsePostfix(s, p)
ParsePostfixExpr(s, at) == AsOrPostfix(s, ParsePrimary(s, at))

(* nnc_parse_cast_expr *)
Castee(s, t) == IF t.ok THEN Wrapped(ParseUnary(s, t.at), "cast", "cast", <<t.tree>>) ELSE t
ParseCast(s, at) == Castee(s, Expect(s, ParseTypeExpr(s, at + 1), ")"))

(* nnc_parse_sizeof_expr and nnc_parse_lengthof_expr *)
ParseOf(s, at) ==
  LET p == IF Tok(s, at) = "sizeof" THEN ParseTypeExpr(s, at + 2) ELSE ParseExpr(s, at + 2)
  IN IF Tok(s, at + 1) = "(" THEN Wrapped(Expect(s, p, ")"), "of", Tok(s, at), <<>>)
     ELSE Fail(at + 1)

ParseUnary(s, at) ==
  CASE Tok(s, at) = "(" /\ Tok(s, at + 1) \in TypeNames -> ParseCast(s, at)
    [] Tok(s, at) \in PrefixOps -> Wrapped(ParseUnary(s, at + 1), "un", Tok(s, at), <<>>)
    [] Tok(s, at) \in {"sizeof", "lengthof"} -> ParseOf(s, at)
    [] OTHER -> ParsePostfixExpr(s, at)

(* nnc_parse_ternary_expr: both arms are whole expressions. *)
SecondArm(s, c, l) ==
  IF l.ok THEN Wrapped(ParseExpr(s, l.at), "ternary", "?", <<c.tree, l.tree>>) ELSE l
Arms(s, c) ==
  IF ~c.ok \/ Tok(s, c.at) # "?" THEN c
  ELSE SecondArm(s, c, Expect(s, ParseExpr(s, c.at + 1), ":"))
ParseTernary(s, at) == Arms(s, ParseLevel(Or, s, at))

(* What stands on either side of an operator of a level *)
Nether(n, s, at) ==
  CASE n = Mul -> ParseUnary(s, at)
    [] n = Assign -> ParseTernary(s, at)
    [] OTHER -> ParseLevel(n - 1, s, at)

ParseLoop_KeepsFirst(n, s, p) ==
  IF ~p.ok \/ Tok(s, p.at) \notin Ops(n) THEN p
  ELSE ParseLoop(n, s, Wrapped(Nether(n, s, p.at + 1), "bin", Tok(s, p.at),
                               <<IF p.tree.k = "bin" THEN p.tree.kids[1] ELSE p.tree>>))

(* The loop of a level: each turn makes what was read so far the left       *)
(* operand.                                                                 *)
ParseLoop(n, s, p) ==
  IF ~p.ok \/ Tok(s, p.at) \notin Ops(n) THEN p
  ELSE ParseLoop(n, s, Wrapped(Nether(n, s, p.at + 1), "bin", Tok(s, p.at), <<p.tree>>))

ParseLevel(n, s, at) == ParseLoop(n, s, Nether(n, s, at))

-----------------------------------------------------------------------------
(* How a tree is written: every operand that does not fit where it stands   *)
(* is in parentheses.                                                       *)
Level(t) ==
  CASE t.k = "bin" -> CHOOSE n \in 1 .. Comma : t.op \in
         <<{"*", "/", "%"}, {"+", "-"}, {"<<", ">>"}, {"<", ">", "<=", ">="}, {"==", "!="},
           {"&"}, {"^"}, {"|"}, {"&&"}, {"||"}, {}, {"="}, {","}>>[n]
    [] t.k = "ternary" -> 11
    [] t.k \in {"un", "cast", "as", "of"} -> 0
    [] OTHER -> -1

(* The text of a tree goes on: an arm of ?: takes any operator that         *)
(* follows, a type after "as" takes "*".                                    *)
RECURSIVE EndsIn(_, _)
EndsIn(t, k) ==
  t.k = k \/ (t.k \in {"bin", "un", "cast"} /\ EndsIn(t.kids[Len(t.kids)], k))

LeftFits(t, n, op) ==
  Level(t) <= n /\ ~EndsIn(t, "ternary") /\ (op = "*" => ~EndsIn(t, "as"))

RECURSIVE Text(_)
Separated(texts) ==
  FlattenSeq([i \in DOMAIN texts |-> (IF i > 1 THEN <<",">> ELSE <<>>) \o texts[i]])
Put(t, fits) == IF fits THEN Text(t) ELSE <<"(">> \o Text(t) \o <<")">>
Text(t) ==
  LET a == t.kids[1]
      b == t.kids[2]
      n == Level(t)
  IN CASE t.k = "leaf" -> <<t.op>>
       [] t.k = "nested" -> FlattenSeq([i \in DOMAIN t.kids |-> <<t.kids[i], "::">>]) \o <<t.op>>
       [] t.k = "ptr" -> Text(a) \o <<"*">>
       [] t.k = "arr" -> Text(a) \o <<"[">> \o Put(b, Level(b) <= Assign) \o <<"]">>
       [] t.k = "un" -> <<t.op>> \o Put(a, Level(a) <= 0)
       [] t.k = "cast" -> <<"(">> \o Text(a) \o <<")">> \o Put(b, Level(b) <= 0)
       [] t.k = "of" -> <<t.op, "(">> \o Text(a) \o <<")">>
       [] t.k = "as" -> Put(a, a.k \in {"leaf", "nested"}) \o <<"as">> \o Text(b)
       [] t.k = "dot" -> Put(a, Level(a) < 0) \o <<".">> \o Text(b)
       [] t.k = "index" -> Put(a, Level(a) < 0) \o <<"[">> \o Text(b) \o <<"]">>
       [] t.k = "call" -> Put(a, Level(a) < 0) \o <<"(">>
            \o Separated([i \in 1 .. Len(t.kids) - 1 |->
                 Put(t.kids[i + 1], Level(t.kids[i + 1]) <= Assign
                       /\ (EndsIn(t.kids[i + 1], "ternary") => i = Len(t.kids) - 1))])
            \o <<")">>
       [] t.k = "item" -> Text(a) \o <<t.op>> \o Put(b, Level(b) < Assign /\ ~EndsIn(b, "ternary"))
       [] t.k = "type" /\ t.op = "fn" ->
            <<"fn", "(">> \o Separated([i \in 1 .. Len(t.kids) - 1 |-> Text(t.kids[i])])
            \o <<")", ":">> \o Text(Last(t.kids))
       [] t.k = "type" /\ t.op = "enum" ->
            <<"enum", "{">> \o Separated([i \in DOMAIN t.kids |-> Text(t.kids[i])]) \o <<"}">>
       [] t.k = "type" /\ t.op \in {"struct", "union"} ->
            <<t.op, "{">> \o FlattenSeq([i \in DOMAIN t.kids |-> Text(t.kids[i]) \o <<";">>]) \o <<"}">>
       [] t.k = "bin" -> Put(a, LeftFits(a, n, t.op)) \o <<t.op>> \o Put(b, Level(b) < n)
       [] t.k = "ternary" ->
            Put(a, Level(a) <= Or) \o <<"?">> \o Text(b) \o <<":">> \o Text(t.kids[3])

=============================================================================
