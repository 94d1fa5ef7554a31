------------------------------ MODULE MCNncTypes ------------------------------
EXTENDS NncTypes

Ty(k, n, sub) == [k |-> k, n |-> n, sub |-> sub]
Prim(n) == Ty("prim", n, <<>>)
Name(n) == Ty("name", n, <<>>)
Ptr(t) == Ty("ptr", NoName, <<t>>)
Arr(t) == Ty("arr", NoName, <<t>>)
Struct(ms) == Ty("struct", NoName, ms)
Union(ms) == Ty("union", NoName, ms)

MCNames == <<"a", "b", "c">>

A == Name("a")
B == Name("b")
C == Name("c")

MCBodies ==
  {Ty("enum", NoName, <<>>), Struct(<<Prim("i8"), Prim("i64")>>),
   Ty("fn", NoName, <<C, Prim("i64")>>), Struct(<<Arr(Ptr(A))>>),
   Union(<<Prim("i8"), B>>)}
    \cup {A, B, C} \cup {Ptr(t) : t \in {A, B, C}}
    \cup {Struct(<<Prim("i8"), t>>) : t \in {A, B, C}}
    \cup {Struct(<<Arr(t), Ptr(t)>>) : t \in {A, B, C}}
    \cup {Struct(<<Struct(<<t>>), Prim("i64")>>) : t \in {B, C}}

MCUses ==
  {<<B, t>> : t \in {A, B, C}} \cup {<<Ptr(B), Ptr(Prim("void"))>>}
    \cup {<<Ptr(s), Ptr(t)>> : s \in {A, C}, t \in {A, B, C}}

MCPaths == {<<0>>, <<2>>, <<0, 1>>, <<0, 2>>, <<2, 0>>, <<2, 1>>, <<2, 2>>, <<2, 0, 2>>}

=============================================================================
