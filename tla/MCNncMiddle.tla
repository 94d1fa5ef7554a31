---------------------------- MODULE MCNncMiddle ----------------------------
(* Function bodies that put every expression form, and every statement      *)
(* around loops, breaks and branches, through the lowering.                 *)
EXTENDS NncMiddle

Num(n) == [k |-> "int", v |-> n, t |-> "u"]
Ident(ictx, a, t) == [k |-> "name", ictx |-> ictx, v |-> a, t |-> t]
Global(a, t) == Ident(0, a, t)
Local(a, t) == Ident(1, a, t)
Fn(a, t) == Ident(2, a, t)
Param(a, t) == Ident(5, a, t)

X == Global(2, "u")    \* the variable that calls count in
Y == Local(4, "u")
P == Local(6, "ptr")   \* points to A[0]
A == Local(8, "arr")   \* of two elements
S == Local(12, "st")   \* of two members
Q == Param(16, "ptr")  \* points to S
F == Fn(30, "fn")

MCMemory == (2 :> 1) @@ (4 :> 3) @@ (6 :> 8) @@ (8 :> 5) @@ (10 :> 7)
            @@ (12 :> 9) @@ (14 :> 6) @@ (16 :> 12)

Un(op, e) == [k |-> "un", op |-> op, e |-> e, t |-> "u"]
Neg(e) == [k |-> "not", e |-> e, t |-> "u"]
Cast(t, e) == [k |-> "cast", e |-> e, t |-> t]
Bin(op, l, r) == [k |-> "bin", op |-> op, l |-> l, r |-> r, t |-> l.t]
Rel(op, l, r) == [k |-> "rel", op |-> op, l |-> l, r |-> r, t |-> "u"]
Logic(k, l, r) == [k |-> k, l |-> l, r |-> r, t |-> "u"]
Ternary(c, l, r) == [k |-> "ternary", c |-> c, l |-> l, r |-> r, t |-> "u"]
Set(l, r) == [k |-> "assign", l |-> l, r |-> r, t |-> "u"]
Call(a, b) == [k |-> "call", fn |-> F, args |-> <<a, b>>, t |-> "u"]
VoidCall(a, b) == [Call(a, b) EXCEPT !.t = "void"]
Deref(e) == [k |-> "deref", e |-> e, t |-> "u"]
RefOf(e) == [k |-> "ref", e |-> e, t |-> "ptr"]
Dot(e, m) == [k |-> "dot", e |-> e, member |-> m, t |-> "u"]
Index(e, i) == [k |-> "index", e |-> e, i |-> i, t |-> "u"]
SizeOf == [k |-> "sizeof", t |-> "u"]

Atoms == {Num(0), Num(1), X, Y}
Places == {X, Y, Deref(P), Dot(S, 1), Dot(S, 2), Dot(Q, 2), Index(A, Num(1)),
           Index(P, Num(0)), Index(A, X), Deref(Bin("add", P, Num(1))),
           Deref(RefOf(Y)), Deref(RefOf(Index(A, X)))}

Arith == {Bin(op, a, b) : op \in {"add", "sub", "mul", "bw_or", "bw_and", "bw_xor"},
                          a \in Atoms, b \in Atoms}
         \cup {Bin(op, a, b) : op \in {"div", "mod", "shl", "shr"}, a \in Atoms, b \in {Num(3), Y}}
Tests == {Rel(op, a, b) : op \in BinJumps, a \in {Num(1), Y}, b \in {Num(3), X}}
         \cup {Neg(a) : a \in Atoms}
Sides == Atoms \cup {Call(X, Num(1)), Bin("sub", Y, Num(1)), Rel("cjumplt", X, Y), Neg(X)}
Mixed == {Logic(k, l, r) : k \in {"and", "or", "comma"}, l \in Sides, r \in Sides}
         \cup {Ternary(c, l, r) : c \in Atoms, l \in Sides, r \in {Num(1), Y, Call(Y, X)}}
         \cup {Bin(op, l, r) : op \in {"add", "sub", "mul"}, l \in Sides, r \in Sides}
         \cup {Call(l, r) : l \in Sides, r \in Sides}
Others == {Un(op, e) : op \in UnOps, e \in Atoms} \cup {SizeOf}
          \cup {Cast("n", e) : e \in {Num(3), Y, Bin("add", Y, Num(3))}}
          \cup {Bin("sub", Cast("u", l), Ternary(X, r, Neg(l))) : l \in Atoms, r \in Atoms}
          \cup Places
          \cup {Bin(op, l, Un("minus", r)) : op \in {"sub", "add"}, l \in Atoms, r \in {X, Y}}

Block(sts) == [k |-> "compound", body |-> sts]
Return(e) == [k |-> "return", e |-> <<e>>]
Leave == [k |-> "return", e |-> <<>>]
Do(e) == [k |-> "expr", e |-> e]
If(c, b, elifs, els) == [k |-> "if", cond |-> c, body |-> b, elifs |-> elifs, els |-> els]
Break == [k |-> "break"]
Continue == [k |-> "continue"]
Empty == [k |-> "empty"]

(* y = y - 1 *)
Down == Do(Set(Y, Bin("sub", Y, Num(1))))
Up(n) == Do(Set(X, Bin("add", X, Num(n))))

Exprs == {Block(<<Return(e)>>) : e \in Arith \cup Tests \cup Mixed \cup Others}

Stores == {Block(<<Do(Set(l, r)), Leave>>) :
             l \in Places, r \in {Num(3), X, Bin("add", Y, Num(1)), Call(X, Y), Cast("n", Y)}}
          \cup {Block(<<Do(VoidCall(l, r)), Return(X)>>) : l \in Atoms, r \in {Num(1), Call(Y, X)}}

Ifs == {Block(<<If(c, b, elifs, els), Up(2), Return(X)>>) :
          c \in {Num(0), Rel("cjumpgt", Y, Num(2)), Logic("and", X, Y)},
          b \in {Up(4), Return(Y)},
          elifs \in {<<>>, <<[cond |-> X, body |-> Down]>>,
                     <<[cond |-> Neg(X), body |-> Down], [cond |-> Y, body |-> Up(8)]>>},
          els \in {<<>>, <<Up(1)>>}}

(* What the body of a loop does besides counting y down. *)
Inner == {Empty, Up(2), If(Rel("cjumpe", Y, Num(1)), Break, <<>>, <<>>),
          If(Rel("cjumpe", Y, Num(1)), Return(X), <<>>, <<>>)}
SkipAt(n) == If(Rel("cjumpe", Y, Num(n)), Continue, <<>>, <<>>)
Skip == SkipAt(1)

While(b) == [k |-> "while", cond |-> Y, body |-> Block(<<Down>> \o b)]
DoWhile(b) == [k |-> "do", cond |-> Rel("cjumpne", Y, Num(0)), body |-> Block(<<Down>> \o b)]
For(init, cond, b) ==
  [k |-> "for", init |-> init, cond |-> cond, step |-> Down, body |-> Block(b)]
Let(e) == [k |-> "let", var |-> Y, init |-> e]
Guard == Do(Rel("cjumpgt", Y, Num(0)))

Loops == {While(<<i, Up(1)>>) : i \in Inner \cup {Skip}}
         \cup {DoWhile(<<i, Up(1)>>) : i \in Inner \cup {Skip, SkipAt(0)}}
         \cup {For(Let(<<Num(2)>>), Guard, <<i, Up(1)>>) : i \in Inner \cup {Skip}}
         \cup {For(Empty, Empty, <<Up(1), If(Neg(Y), Break, <<>>, <<>>), i>>) :
                 i \in {Empty, Skip}}
         \cup {While(<<For(Let(<<Num(1)>>), Guard, <<Up(1), i>>), Break>>) :
                 i \in {Break, Continue}}
         \cup {For(Let(<<>>), Do(Rel("cjumpgt", Y, Num(1))), <<While(<<If(X, Break, <<>>, <<>>)>>), j>>) :
                 j \in {Empty, Skip, Up(2)}}

MCPrograms == Exprs \cup Stores \cup Ifs \cup {Block(<<l, Up(2), Return(Y)>>) : l \in Loops}

(* The value of an assignment is used. *)
MCValuePrograms == {Block(<<Return(Set(X, r))>>) : r \in {Num(3), Y, Call(X, Y)}}
=============================================================================
