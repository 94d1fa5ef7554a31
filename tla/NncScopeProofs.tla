--------------------------- MODULE NncScopeProofs ---------------------------
(***************************************************************************)
(* Proofs about NncScope, for files of any length over any names: ScopeInv *)
(* is inductive, and what nnc_st_put_sym and the resolver look at is       *)
(* enough for the properties of the functions that code is generated for.  *)
(***************************************************************************)
EXTENDS NncScope, NncInduction, SequenceTheorems

-----------------------------------------------------------------------------
(* The walk from a scope outwards, as a function of nnc_st.root.            *)

Tree(r) == r \in Seq(Nat) /\ \A i \in 1 .. Len(r) : r[i] \in 0 .. i - 1

Up(r, s) ==
  LET f[i \in 1 .. Len(r)] == {i} \cup (IF r[i] = 0 THEN {} ELSE f[r[i]])
  IN f[s]

Walk(r, n, f) == f = [i \in 1 .. n |-> {i} \cup (IF r[i] = 0 THEN {} ELSE f[r[i]])]

(* The walk ends, since the scope around a scope is an older one. *)
LEMMA WalkExists ==
  ASSUME NEW r, Tree(r)
  PROVE  \A n \in 0 .. Len(r) : \E f : Walk(r, n, f)
<1>0. r \in Seq(Nat) /\ Len(r) \in Nat  BY DEF Tree
<1> DEFINE G == {k \in 0 .. Len(r) : \E f : Walk(r, k, f)}
<1>1. ASSUME NEW m \in 0 .. Len(r), \A j \in 0 .. m - 1 : j \in G PROVE m \in G
  <2>1. CASE m = 0
    <3>1. Walk(r, 0, [i \in 1 .. 0 |-> {}])  BY DEF Walk
    <3> QED  BY <2>1, <3>1
  <2>2. CASE m # 0
    <3>1. m \in 1 .. Len(r) /\ m - 1 \in 0 .. m - 1  BY <1>0, <2>2
    <3>2. PICK f : Walk(r, m - 1, f)  BY <1>1, <3>1
    <3> DEFINE g == [i \in 1 .. m |-> {i} \cup (IF r[i] = 0 THEN {} ELSE f[r[i]])]
    <3>3. \A i \in 1 .. m - 1 : g[i] = f[i]
      <4>1. \A i \in 1 .. m - 1 : f[i] = {i} \cup (IF r[i] = 0 THEN {} ELSE f[r[i]])
        BY <3>2 DEF Walk
      <4>2. \A i \in 1 .. m - 1 : i \in 1 .. m  BY <3>1
      <4>3. \A i \in 1 .. m : g[i] = {i} \cup (IF r[i] = 0 THEN {} ELSE f[r[i]])  OBVIOUS
      <4> HIDE DEF g
      <4> QED  BY <4>1, <4>2, <4>3
    <3>4. \A i \in 1 .. m : r[i] # 0 => r[i] \in 1 .. m - 1  BY <1>0, <3>1 DEF Tree
    <3>5. \A i \in 1 .. m :
            (IF r[i] = 0 THEN {} ELSE f[r[i]]) = (IF r[i] = 0 THEN {} ELSE g[r[i]])
      <4> HIDE DEF g
      <4> QED  BY <3>3, <3>4
    <3>6. Walk(r, m, g)  BY <3>5 DEF Walk
    <3> QED  BY <3>6
  <2> QED  BY <2>1, <2>2
<1>2. \A k \in 0 .. Len(r) : k \in G
  <2> HIDE DEF G
  <2> QED  BY <1>0, <1>1, Induction
<1> QED  BY <1>2

(* One step of the walk. *)
LEMMA UpDef ==
  ASSUME NEW r, Tree(r), NEW s \in 1 .. Len(r)
  PROVE  Up(r, s) = {s} \cup (IF r[s] = 0 THEN {} ELSE Up(r, r[s]))
<1>0. r \in Seq(Nat) /\ Len(r) \in Nat  BY DEF Tree
<1> DEFINE f == CHOOSE h : Walk(r, Len(r), h)
<1>1. Walk(r, Len(r), f)
  <2>1. Len(r) \in 0 .. Len(r)  BY <1>0
  <2> QED  BY <2>1, WalkExists
<1>2. \A i : Up(r, i) = f[i]  BY DEF Up, Walk
<1> HIDE DEF f
<1>3. f[s] = {s} \cup (IF r[s] = 0 THEN {} ELSE f[r[s]])  BY <1>1 DEF Walk
<1> QED  BY <1>2, <1>3

(* Induction along the walks: what holds of a scope if it holds of the      *)
(* scope around it holds of all.                                            *)
LEMMA TreeInduction ==
  ASSUME NEW r, Tree(r), NEW G,
         \A s \in 1 .. Len(r) : (r[s] = 0 \/ r[s] \in G) => s \in G
  PROVE  \A s \in 1 .. Len(r) : s \in G
<1>0. r \in Seq(Nat) /\ Len(r) \in Nat  BY DEF Tree
<1>1. ASSUME NEW s \in 1 .. Len(r), \A j \in 1 .. s - 1 : j \in G PROVE s \in G
  <2>1. r[s] = 0 \/ r[s] \in 1 .. s - 1  BY <1>0 DEF Tree
  <2> QED  BY <1>1, <2>1
<1> QED  BY <1>0, <1>1, Induction

(* The scopes outwards are older ones. *)
LEMMA UpBound ==
  ASSUME NEW r, Tree(r)
  PROVE  \A s \in 1 .. Len(r) : s \in Up(r, s) /\ Up(r, s) \subseteq 1 .. s
<1>0. r \in Seq(Nat) /\ Len(r) \in Nat  BY DEF Tree
<1> DEFINE G == {s \in 1 .. Len(r) : Up(r, s) \subseteq 1 .. s}
<1>1. ASSUME NEW s \in 1 .. Len(r), r[s] = 0 \/ r[s] \in G PROVE s \in G
  <2>1. r[s] \in 0 .. s - 1  BY DEF Tree
  <2>2. Up(r, s) = {s} \cup (IF r[s] = 0 THEN {} ELSE Up(r, r[s]))  BY UpDef
  <2> QED  BY <1>0, <1>1, <2>1, <2>2
<1>2. \A s \in 1 .. Len(r) : s \in G
  <2> HIDE DEF G
  <2> QED  BY <1>1, TreeInduction
<1> QED  BY <1>2, UpDef

(* Who is outwards of a scope that is outwards is outwards. *)
LEMMA UpTrans ==
  ASSUME NEW r, Tree(r)
  PROVE  \A s \in 1 .. Len(r) : \A t \in Up(r, s) : Up(r, t) \subseteq Up(r, s)
<1>0. r \in Seq(Nat) /\ Len(r) \in Nat  BY DEF Tree
<1> DEFINE G == {s \in 1 .. Len(r) : \A t \in Up(r, s) : Up(r, t) \subseteq Up(r, s)}
<1>1. ASSUME NEW s \in 1 .. Len(r), r[s] = 0 \/ r[s] \in G PROVE s \in G
  <2>1. Up(r, s) = {s} \cup (IF r[s] = 0 THEN {} ELSE Up(r, r[s]))  BY UpDef
  <2> QED  BY <1>1, <2>1
<1>2. \A s \in 1 .. Len(r) : s \in G
  <2> HIDE DEF G
  <2> QED  BY <1>1, TreeInduction
<1> QED  BY <1>2

(* Two scopes outwards of the same one: the older is outwards of the newer. *)
LEMMA UpLinear ==
  ASSUME NEW r, Tree(r)
  PROVE  \A s \in 1 .. Len(r) : \A t, u \in Up(r, s) : t =< u => t \in Up(r, u)
<1>0. r \in Seq(Nat) /\ Len(r) \in Nat  BY DEF Tree
<1> DEFINE G == {s \in 1 .. Len(r) : \A t, u \in Up(r, s) : t =< u => t \in Up(r, u)}
<1>1. ASSUME NEW s \in 1 .. Len(r), r[s] = 0 \/ r[s] \in G PROVE s \in G
  <2> SUFFICES ASSUME NEW t \in Up(r, s), NEW u \in Up(r, s), t =< u PROVE t \in Up(r, u)
    OBVIOUS
  <2>1. Up(r, s) = {s} \cup (IF r[s] = 0 THEN {} ELSE Up(r, r[s]))  BY UpDef
  <2>2. r[s] \in 0 .. s - 1  BY DEF Tree
  <2>3. CASE u = s  BY <2>3
  <2>4. CASE u # s
    <3>1. r[s] # 0 /\ u \in Up(r, r[s]) /\ r[s] \in 1 .. Len(r) /\ r[s] < s
      BY <1>0, <2>1, <2>2, <2>4
    <3>2. u \in 1 .. r[s]  BY <3>1, UpBound
    <3>3. t # s  BY <3>1, <3>2
    <3> QED  BY <1>1, <2>1, <3>1, <3>3
  <2> QED  BY <2>3, <2>4
<1>2. \A s \in 1 .. Len(r) : s \in G
  <2> HIDE DEF G
  <2> QED  BY <1>1, TreeInduction
<1> QED  BY <1>2

(* New scopes do not change the walks from the old ones. *)
LEMMA UpAgree ==
  ASSUME NEW r, Tree(r), NEW q, Tree(q), Len(r) =< Len(q),
         \A i \in 1 .. Len(r) : q[i] = r[i]
  PROVE  \A s \in 1 .. Len(r) : Up(q, s) = Up(r, s)
<1>0. r \in Seq(Nat) /\ Len(r) \in Nat /\ q \in Seq(Nat) /\ Len(q) \in Nat  BY DEF Tree
<1> DEFINE G == {s \in 1 .. Len(r) : Up(q, s) = Up(r, s)}
<1>1. ASSUME NEW s \in 1 .. Len(r), r[s] = 0 \/ r[s] \in G PROVE s \in G
  <2>1. Up(r, s) = {s} \cup (IF r[s] = 0 THEN {} ELSE Up(r, r[s]))  BY UpDef
  <2>2. s \in 1 .. Len(q)  BY <1>0
  <2>3. Up(q, s) = {s} \cup (IF q[s] = 0 THEN {} ELSE Up(q, q[s]))  BY <2>2, UpDef
  <2> QED  BY <1>1, <2>1, <2>3
<1>2. \A s \in 1 .. Len(r) : s \in G
  <2> HIDE DEF G
  <2> QED  BY <1>1, TreeInduction
<1> QED  BY <1>2
-----------------------------------------------------------------------------
(* The inductive invariant.  Its parts speak of the root r, the contexts c, *)
(* the statements q, the scope s being read and the open statements o.      *)

Branches == {"if", "elif", "else"}
Loops == {"while", "do", "for"}
Compound == Branches \cup Loops \cup {"fn", "namespace"}
Plains == {"let", "type", "ext_fn", "expr", "return", "break", "continue", "goto"}

Texts == Exprs \cup {<<>>} \cup {form.init : form \in LetForms}
Statements ==
  [k : Compound \cup Plains \cup {"cond"}, st : Nat, use : Texts, init : Texts,
   type : {Prim} \cup {form.type : form \in LetForms},
   vars : {<<>>} \cup {head.params : head \in Heads} \cup {<<x>> : x \in Spaces \cup Lets},
   body : Nat, end : Nat, chain : Nat,
   value : BOOLEAN \cup {head.value : head \in Heads},
   pub : BOOLEAN \cup {head.pub : head \in Heads}]

Contexts == {"GLOBAL", "NAMESPACE", "FN", "LOOP", "IF", "ELIF", "ELSE"}

(* A scope is newer than the scope around it, and only the first is global. *)
ScopesOK(r, c, s) ==
  /\ Tree(r) /\ c \in Seq(Contexts) /\ Len(c) = Len(r) /\ s \in 1 .. Len(r)
  /\ \A u \in 1 .. Len(r) : (r[u] = 0 <=> u = 1) /\ (c[u] = "GLOBAL" <=> u = 1)

(* The statements with a body, and whether a scope is in the body of one. *)
Bodies(q) == {i \in 1 .. Len(q) : q[i].body # 0}
Within(r, q, i, u) == q[i].body \in Up(r, u)

(* Each scope but the global one is the body of one statement. *)
BodiesOK(r, c, q) ==
  /\ \A i \in 1 .. Len(q) :
       /\ q[i].st \in 1 .. Len(r)
       /\ q[i].body # 0 <=> q[i].k \in Compound
  /\ \A i \in Bodies(q) :
       /\ q[i].body \in 2 .. Len(r) /\ r[q[i].body] = q[i].st
       /\ c[q[i].body] = "FN" <=> q[i].k = "fn"
       /\ c[q[i].body] = "NAMESPACE" <=> q[i].k = "namespace"
       /\ c[q[i].body] = "LOOP" <=> q[i].k \in Loops
  /\ \A i, j \in Bodies(q) : q[i].body = q[j].body => i = j
  /\ \A u \in 2 .. Len(r) : \E i \in Bodies(q) : q[i].body = u

(* The open statements lead from the global scope to the one being read. *)
OpenOK(q, s, o) ==
  /\ o \in Seq(Nat)
  /\ \A n \in 1 .. Len(o) : o[n] \in Bodies(q)
  /\ \A n \in 1 .. Len(o) : q[o[n]].st = IF n = 1 THEN 1 ELSE q[o[n - 1]].body
  /\ s = IF o = <<>> THEN 1 ELSE q[o[Len(o)]].body

(* What the parts of an if and of a do statement belong to, the ends, and   *)
(* the one variable of a for statement.                                     *)
ChainOK(q, i) ==
  /\ q[i].k \notin {"elif", "else", "cond"} => q[i].chain = i
  /\ q[i].k \in {"elif", "else"} => q[i].chain \in 1 .. i - 1 /\ q[q[i].chain].k = "if"
  /\ q[i].k = "cond" => q[i].chain \in 1 .. i - 1 /\ q[q[i].chain].k = "do"
  /\ q[i].end =< Len(q)
  /\ q[i].k \in Plains => q[i].end = i
  /\ q[i].k = "for" => DOMAIN q[i].vars \subseteq {1}
ChainsOK(q) == q \in Seq(Statements) /\ \A i \in 1 .. Len(q) : ChainOK(q, i)

(* The text of a statement is what lies in the scopes of its body: a        *)
(* statement in them comes after it and, unless the body is still open, not *)
(* after its end.                                                           *)
TextOK(r, q, s, i, j) ==
  /\ Within(r, q, i, q[j].st) => i < j
  /\ Within(r, q, i, s) /\ i < j => Within(r, q, i, q[j].st)
  /\ ~Within(r, q, i, s) /\ q[i].k \notin Branches =>
       (Within(r, q, i, q[j].st) => j =< q[i].end)
  /\ ~Within(r, q, i, s) /\ q[i].k \in {"fn", "namespace"} =>
       (i < j /\ j =< q[i].end => Within(r, q, i, q[j].st))
TextsOK(r, q, s) == \A i \in Bodies(q), j \in 1 .. Len(q) : TextOK(r, q, s, i, j)

Shape(r, c, q, s, o) ==
  /\ ScopesOK(r, c, s) /\ BodiesOK(r, c, q) /\ OpenOK(q, s, o) /\ ChainsOK(q) /\ TextsOK(r, q, s)

(* Where a search from s looks, and where global variables are declared. *)
Search(r, c, s) == {t \in Up(r, s) : \A u \in Up(r, s) : u > t => c[u] # "NAMESPACE"}
OuterCtx == {"GLOBAL", "NAMESPACE"}
GlobalPlace(r, c, s) == c[s] \in OuterCtx \/ (c[s] = "LOOP" /\ c[r[s]] \in OuterCtx)

(* What the tests of nnc_st_put_sym achieve for the symbols D, at every     *)
(* moment.                                                                  *)
Names(D, r, c, q) ==
  /\ \A d \in D : d.scope \in 1 .. Len(r) /\ d.pos \in 1 .. Len(q)
  /\ \A d, e \in D :
       d.scope \in Search(r, c, e.scope) /\ d.name = e.name =>
         /\ ~(d.ictx = "global" /\ e.ictx \in {"local", "param"})
         /\ q[d.pos].k = "let" /\ d.pos < e.pos => e.ictx = "global"
  /\ \A d \in D : d.ictx = "global" => GlobalPlace(r, c, d.scope)

(* As long as there was no error each statement behind pass 2 was resolved, *)
(* and code is only generated where that is so.                             *)
ResolvedUpTo(n) ==
  \A j \in 1 .. n : j =< Len(stmts) /\ stmts[j].k # "goto" /\ ResolveStmt(stmts[j])
Passed ==
  /\ phase \in {"parse", "resolve", "done", "failed"} /\ erred \in BOOLEAN /\ at \in Nat \ {0}
  /\ phase \in {"parse", "failed"} => gen = {} /\ at = 1
  /\ phase \in {"resolve", "done"} => open = <<>> /\ (~erred => ResolvedUpTo(at - 1))
  /\ \A t \in gen : /\ t \in 1 .. Len(stmts) /\ stmts[t].st = 1 /\ stmts[t].chain = t
                    /\ ResolvedUpTo(stmts[t].end)

ScopeInv == Shape(root, ctx, stmts, st, open) /\ Names(decls, root, ctx, stmts) /\ Passed

-----------------------------------------------------------------------------
(* The shape of scopes and statements, one way of reading on after another. *)

(* The fields of a statement. *)
LEMMA Fields ==
  ASSUME NEW q \in Seq(Statements), NEW i \in 1 .. Len(q)
  PROVE  /\ q[i] \in Statements
         /\ q[i].st \in Nat /\ q[i].body \in Nat /\ q[i].end \in Nat /\ q[i].chain \in Nat
         /\ q[i].k \in Compound \cup Plains \cup {"cond"}
<1>1. q[i] \in Statements  OBVIOUS
<1> QED  BY <1>1 DEF Statements

(* One more statement leaves the ones before it. *)
LEMMA Longer ==
  ASSUME NEW q \in Seq(Statements), NEW x \in Statements
  PROVE  /\ Append(q, x) \in Seq(Statements) /\ Len(q) \in Nat
         /\ Len(Append(q, x)) = Len(q) + 1
         /\ \A i \in 1 .. Len(q) : Append(q, x)[i] = q[i]
         /\ Append(q, x)[Len(q) + 1] = x
OBVIOUS

(* The start: the global scope, no statement. *)
LEMMA EmptyShape == Shape(<<0>>, <<"GLOBAL">>, <<>>, 1, <<>>)
<1>1. Tree(<<0>>)  BY DEF Tree
<1>2. ScopesOK(<<0>>, <<"GLOBAL">>, 1)
  <2>0. "GLOBAL" \in Contexts  BY DEF Contexts
  <2>1. <<"GLOBAL">> \in Seq(Contexts) /\ Len(<<"GLOBAL">>) = 1 /\ Len(<<0>>) = 1
    <3>1. <<"GLOBAL">> \in Seq(Contexts)  BY <2>0
    <3> QED  BY <3>1
  <2>2. \A u \in 1 .. 1 : u = 1 /\ <<0>>[u] = 0 /\ <<"GLOBAL">>[u] = "GLOBAL"  OBVIOUS
  <2> QED  BY <1>1, <2>1, <2>2 DEF ScopesOK
<1>3. Bodies(<<>>) = {}  BY DEF Bodies
<1>4. BodiesOK(<<0>>, <<"GLOBAL">>, <<>>) /\ OpenOK(<<>>, 1, <<>>) /\ TextsOK(<<0>>, <<>>, 1)
  BY <1>3 DEF BodiesOK, OpenOK, TextsOK
<1>5. ChainsOK(<<>>)  BY DEF ChainsOK
<1> QED  BY <1>2, <1>4, <1>5 DEF Shape

(* A statement without a body, or the condition of a do statement. *)
LEMMA ReadShape ==
  ASSUME NEW r, NEW c, NEW q, NEW s, NEW o, Shape(r, c, q, s, o),
         NEW x \in Statements, x.st = s, x.body = 0, x.end = Len(q) + 1,
         \/ x.k \in Plains /\ x.chain = Len(q) + 1
         \/ x.k = "cond" /\ x.chain \in 1 .. Len(q) /\ q[x.chain].k = "do"
  PROVE  Shape(r, c, Append(q, x), s, o)
<1> DEFINE p == Append(q, x)
<1>0. /\ ScopesOK(r, c, s) /\ BodiesOK(r, c, q) /\ OpenOK(q, s, o) /\ ChainsOK(q)
      /\ TextsOK(r, q, s) /\ Tree(r) /\ q \in Seq(Statements)
  BY DEF Shape, ScopesOK, ChainsOK
<1>1. /\ p \in Seq(Statements) /\ Len(q) \in Nat /\ Len(p) = Len(q) + 1
      /\ \A i \in 1 .. Len(q) : p[i] = q[i]
      /\ p[Len(q) + 1] = x
  BY <1>0, Longer
<1> HIDE DEF p
<1>2. Bodies(p) = Bodies(q)  BY <1>1 DEF Bodies
<1>3. Bodies(q) \subseteq 1 .. Len(q)  BY DEF Bodies
<1>4. \A i \in Bodies(q) : p[i] = q[i]  BY <1>1, <1>3
<1>5. /\ Plains \cap Compound = {} /\ "cond" \notin Plains /\ "cond" \notin Compound
      /\ {"elif", "else", "for"} \subseteq Compound
  BY DEF Plains, Compound, Branches, Loops
<1>6. BodiesOK(r, c, p)
  <2>1. ASSUME NEW i \in 1 .. Len(p)
        PROVE  p[i].st \in 1 .. Len(r) /\ (p[i].body # 0 <=> p[i].k \in Compound)
    <3>1. CASE i \in 1 .. Len(q)  BY <1>0, <1>1, <3>1 DEF BodiesOK
    <3>2. CASE i = Len(q) + 1  BY <1>0, <1>1, <1>5, <3>2 DEF ScopesOK
    <3> QED  BY <1>1, <3>1, <3>2
  <2>2. \A u \in 2 .. Len(r) : \E i \in Bodies(p) : p[i].body = u
    BY <1>0, <1>2, <1>4 DEF BodiesOK
  <2>3. \A i, j \in Bodies(p) : p[i].body = p[j].body => i = j
    BY <1>0, <1>2, <1>4 DEF BodiesOK
  <2> QED  BY <1>0, <1>2, <1>4, <2>1, <2>2, <2>3 DEF BodiesOK
<1>7. OpenOK(p, s, o)
  <2>1. \A n \in 1 .. Len(o) : o[n] \in Bodies(q) /\ p[o[n]] = q[o[n]]
    BY <1>0, <1>4 DEF OpenOK
  <2>2. Len(o) \in Nat /\ (o # <<>> => Len(o) \in 1 .. Len(o))  BY <1>0 DEF OpenOK
  <2>3. \A n \in 1 .. Len(o) : n # 1 => n - 1 \in 1 .. Len(o)  BY <2>2
  <2>4. ASSUME NEW n \in 1 .. Len(o)
        PROVE  p[o[n]].st = IF n = 1 THEN 1 ELSE p[o[n - 1]].body
    <3>1. q[o[n]].st = IF n = 1 THEN 1 ELSE q[o[n - 1]].body  BY <1>0 DEF OpenOK
    <3>2. p[o[n]] = q[o[n]] /\ (n # 1 => p[o[n - 1]] = q[o[n - 1]])  BY <2>1, <2>3
    <3> QED  BY <3>1, <3>2
  <2>5. s = IF o = <<>> THEN 1 ELSE p[o[Len(o)]].body  BY <1>0, <2>1, <2>2 DEF OpenOK
  <2> QED  BY <1>0, <1>2, <2>1, <2>4, <2>5 DEF OpenOK
<1>8. ChainsOK(p)
  <2> SUFFICES ASSUME NEW i \in 1 .. Len(p) PROVE ChainOK(p, i)
    BY <1>1 DEF ChainsOK
  <2>1. CASE i \in 1 .. Len(q)
    <3>1. ChainOK(q, i) /\ p[i] = q[i] /\ q[i].end \in Nat
      BY <1>0, <1>1, <2>1, Fields DEF ChainsOK
    <3>2. \A n \in 1 .. i - 1 : p[n] = q[n]  BY <1>1, <2>1
    <3>3. q[i].end =< Len(p)  BY <1>1, <3>1 DEF ChainOK
    <3> QED  BY <3>1, <3>2, <3>3 DEF ChainOK
  <2>2. CASE i = Len(q) + 1
    <3>1. CASE x.k \in Plains /\ x.chain = Len(q) + 1  BY <1>1, <1>5, <2>2, <3>1 DEF ChainOK
    <3>2. CASE x.k = "cond" /\ x.chain \in 1 .. Len(q) /\ q[x.chain].k = "do"
      <4>1. p[i] = x /\ p[x.chain] = q[x.chain] /\ x.chain \in 1 .. i - 1 /\ i =< Len(p)
        BY <1>1, <2>2, <3>2
      <4> QED  BY <1>1, <1>5, <2>2, <3>2, <4>1 DEF ChainOK
    <3> QED  BY <3>1, <3>2
  <2> QED  BY <1>1, <2>1, <2>2
<1>9. TextsOK(r, p, s)
  <2> SUFFICES ASSUME NEW i \in Bodies(p), NEW j \in 1 .. Len(p) PROVE TextOK(r, p, s, i, j)
    BY DEF TextsOK
  <2>1. i \in Bodies(q) /\ i \in 1 .. Len(q) /\ p[i] = q[i]  BY <1>2, <1>3, <1>4
  <2>2. \A u : Within(r, p, i, u) <=> Within(r, q, i, u)  BY <2>1 DEF Within
  <2>3. CASE j \in 1 .. Len(q)
    <3>1. TextOK(r, q, s, i, j) /\ p[j] = q[j]  BY <1>0, <1>1, <2>1, <2>3 DEF TextsOK
    <3> QED  BY <2>1, <2>2, <3>1 DEF TextOK
  <2>4. CASE j = Len(q) + 1
    <3>1. p[j].st = s /\ i < j  BY <1>1, <2>1, <2>4
    <3>2. p[i].end =< Len(q) /\ p[i].end \in Nat
      BY <1>0, <2>1, Fields DEF ChainsOK, ChainOK
    <3> QED  BY <1>1, <2>1, <2>2, <2>4, <3>1, <3>2 DEF TextOK
  <2> QED  BY <1>1, <2>3, <2>4
<1> QED  BY <1>0, <1>6, <1>7, <1>8, <1>9 DEF Shape, p

(* A statement with a body, or the next branch of an if statement: its      *)
(* scope is the newest one.                                                 *)
Opens(r, q, s, x, d) ==
  /\ x \in Statements /\ x.st = s /\ x.body = Len(r) + 1 /\ x.end = Len(q) + 1
  /\ x.k \in Compound
  /\ \/ x.k \notin {"elif", "else"} /\ x.chain = Len(q) + 1
     \/ x.k \in {"elif", "else"} /\ x.chain \in 1 .. Len(q) /\ q[x.chain].k = "if"
  /\ x.k = "for" => DOMAIN x.vars \subseteq {1}
  /\ d \in Contexts /\ d # "GLOBAL"
  /\ d = "FN" <=> x.k = "fn"
  /\ d = "NAMESPACE" <=> x.k = "namespace"
  /\ d = "LOOP" <=> x.k \in Loops

(* Entering a scope keeps the shape. *)
LEMMA EnterShape ==
  ASSUME NEW r, NEW c, NEW q, NEW s, NEW o, Shape(r, c, q, s, o),
         NEW x, NEW d, Opens(r, q, s, x, d)
  PROVE  Shape(Append(r, s), Append(c, d), Append(q, x), Len(r) + 1, Append(o, Len(q) + 1))
<1> DEFINE p == Append(q, x)  z == Append(r, s)  e == Append(c, d)  n == Len(q) + 1
           t == Len(r) + 1
<1>a. Len(r) \in Nat /\ Len(q) \in Nat  BY DEF Shape, ScopesOK, ChainsOK, Tree
<1>b. /\ x \in Statements /\ x.st = s /\ x.body = t /\ x.end = n /\ x.k \in Compound
      /\ d \in Contexts
  BY DEF Opens
<1>0. /\ ScopesOK(r, c, s) /\ BodiesOK(r, c, q) /\ OpenOK(q, s, o) /\ ChainsOK(q)
      /\ TextsOK(r, q, s) /\ Tree(r) /\ q \in Seq(Statements) /\ c \in Seq(Contexts)
      /\ Len(c) = Len(r) /\ s \in 1 .. Len(r) /\ r \in Seq(Nat) /\ Len(r) \in Nat
  BY DEF Shape, ScopesOK, ChainsOK, Tree
<1>1. /\ p \in Seq(Statements) /\ Len(q) \in Nat /\ Len(p) = n
      /\ \A i \in 1 .. Len(q) : p[i] = q[i]
      /\ p[n] = x
  BY <1>0, <1>b, Longer
<1>2. /\ z \in Seq(Nat) /\ Len(z) = t /\ e \in Seq(Contexts) /\ Len(e) = t
      /\ \A i \in 1 .. Len(r) : z[i] = r[i] /\ e[i] = c[i]
      /\ z[t] = s /\ e[t] = d
  <2>1. /\ z \in Seq(Nat) /\ Len(z) = t /\ z[t] = s
        /\ \A i \in 1 .. Len(r) : z[i] = r[i]
    <3>1. r \in Seq(Nat) /\ s \in Nat  BY <1>0
    <3> QED  BY <3>1
  <2>2. /\ e \in Seq(Contexts) /\ Len(e) = t /\ e[t] = d
        /\ \A i \in 1 .. Len(r) : e[i] = c[i]
    <3>1. c \in Seq(Contexts) /\ d \in Contexts /\ Len(c) = Len(r)  BY <1>0, <1>b
    <3> QED  BY <3>1
  <2> QED  BY <2>1, <2>2
<1> HIDE DEF p, z, e
<1>3. Tree(z)
  <2> SUFFICES ASSUME NEW i \in 1 .. t PROVE z[i] \in 0 .. i - 1  BY <1>2 DEF Tree
  <2>1. CASE i \in 1 .. Len(r)  BY <1>0, <1>2, <2>1 DEF Tree
  <2>2. CASE i = t  BY <1>0, <1>2, <2>2
  <2> QED  BY <1>a, <2>1, <2>2
<1>4. \A u \in 1 .. Len(r) : Up(z, u) = Up(r, u) /\ Up(r, u) \subseteq 1 .. u
  <2>1. Len(r) =< Len(z)  BY <1>0, <1>2
  <2> QED  BY <1>0, <1>2, <1>3, <2>1, UpAgree, UpBound
<1>5. Up(z, t) = {t} \cup Up(r, s)
  <2>1. t \in 1 .. Len(z) /\ s # 0  BY <1>0, <1>2
  <2>2. Up(z, t) = {t} \cup (IF z[t] = 0 THEN {} ELSE Up(z, z[t]))  BY <1>3, <2>1, UpDef
  <2> QED  BY <1>0, <1>2, <1>4, <2>1, <2>2
<1>6. Bodies(p) = Bodies(q) \cup {n} /\ Bodies(q) \subseteq 1 .. Len(q)
  BY <1>a, <1>b, <1>1 DEF Bodies
<1>7. \A i \in Bodies(q) : p[i] = q[i] /\ q[i].body \in 2 .. Len(r) /\ i < n
  BY <1>0, <1>1, <1>6 DEF BodiesOK
<1>8. ScopesOK(z, e, t)
  <2>1. ASSUME NEW u \in 1 .. t
        PROVE  (z[u] = 0 <=> u = 1) /\ (e[u] = "GLOBAL" <=> u = 1)
    <3>1. CASE u \in 1 .. Len(r)  BY <1>0, <1>2, <3>1 DEF ScopesOK
    <3>2. CASE u = t  BY <1>0, <1>2, <3>2 DEF Opens
    <3> QED  BY <1>a, <3>1, <3>2
  <2> QED  BY <1>0, <1>2, <1>3, <2>1 DEF ScopesOK
<1>9. BodiesOK(z, e, p)
  <2>1. ASSUME NEW i \in 1 .. Len(p)
        PROVE  p[i].st \in 1 .. Len(z) /\ (p[i].body # 0 <=> p[i].k \in Compound)
    <3>1. CASE i \in 1 .. Len(q)
      <4>1. q[i].st \in 1 .. Len(r) /\ (q[i].body # 0 <=> q[i].k \in Compound)
        BY <1>0, <3>1 DEF BodiesOK
      <4>2. p[i] = q[i]  BY <1>1, <3>1
      <4>3. q[i].st \in 1 .. Len(z)  BY <1>a, <1>2, <4>1
      <4> QED  BY <4>1, <4>2, <4>3
    <3>2. CASE i = n
      <4>1. p[i] = x /\ t # 0 /\ s \in 1 .. t  BY <1>0, <1>a, <1>1, <3>2
      <4> QED  BY <1>b, <1>2, <4>1
    <3> QED  BY <1>a, <1>1, <3>1, <3>2
  <2>2. ASSUME NEW i \in Bodies(p)
        PROVE  /\ p[i].body \in 2 .. Len(z) /\ z[p[i].body] = p[i].st
               /\ e[p[i].body] = "FN" <=> p[i].k = "fn"
               /\ e[p[i].body] = "NAMESPACE" <=> p[i].k = "namespace"
               /\ e[p[i].body] = "LOOP" <=> p[i].k \in Loops
    <3>1. CASE i \in Bodies(q)
      <4>1. q[i].body \in 2 .. Len(r)  BY <1>7, <3>1
      <4>2. q[i].body \in 1 .. Len(r) /\ q[i].body \in 2 .. Len(z)  BY <1>a, <1>2, <4>1
      <4>3. p[i] = q[i] /\ z[q[i].body] = r[q[i].body] /\ e[q[i].body] = c[q[i].body]
        BY <1>2, <1>7, <3>1, <4>2
      <4> QED  BY <1>0, <3>1, <4>2, <4>3 DEF BodiesOK
    <3>2. CASE i = n
      <4>1. p[i] = x /\ x.body \in 2 .. Len(z)  BY <1>0, <1>a, <1>b, <1>1, <1>2, <3>2
      <4> QED  BY <1>b, <1>2, <4>1 DEF Opens
    <3> QED  BY <1>6, <3>1, <3>2
  <2>3. ASSUME NEW i \in Bodies(p), NEW j \in Bodies(p), p[i].body = p[j].body PROVE i = j
    <3>1. CASE i \in Bodies(q) /\ j \in Bodies(q)  BY <1>0, <1>7, <2>3, <3>1 DEF BodiesOK
    <3>2. CASE i = n /\ j = n  BY <3>2
    <3>3. CASE i = n /\ j \in Bodies(q)
      <4>1. p[i].body = Len(r) + 1 /\ p[j].body \in 2 .. Len(r)  BY <1>b, <1>1, <1>7, <3>3
      <4> QED  BY <1>a, <2>3, <4>1
    <3>4. CASE i \in Bodies(q) /\ j = n
      <4>1. p[j].body = Len(r) + 1 /\ p[i].body \in 2 .. Len(r)  BY <1>b, <1>1, <1>7, <3>4
      <4> QED  BY <1>a, <2>3, <4>1
    <3> QED  BY <1>6, <3>1, <3>2, <3>3, <3>4
  <2>4. ASSUME NEW u \in 2 .. Len(z) PROVE \E i \in Bodies(p) : p[i].body = u
    <3>1. CASE u = t  BY <1>b, <1>1, <1>6, <3>1
    <3>2. CASE u \in 2 .. Len(r)
      <4>1. PICK i \in Bodies(q) : q[i].body = u  BY <1>0, <3>2 DEF BodiesOK
      <4> QED  BY <1>6, <1>7, <4>1
    <3> QED  BY <1>a, <1>2, <3>1, <3>2
  <2> QED  BY <2>1, <2>2, <2>3, <2>4 DEF BodiesOK
<1>10. OpenOK(p, t, Append(o, n))
  <2> DEFINE b == Append(o, n)
  <2>1. /\ b \in Seq(Nat) /\ Len(o) \in Nat /\ Len(b) = Len(o) + 1 /\ b # <<>>
        /\ \A m \in 1 .. Len(o) : b[m] = o[m]
        /\ b[Len(o) + 1] = n
    <3>1. n \in Nat /\ o \in Seq(Nat)  BY <1>a, <1>0 DEF OpenOK
    <3> HIDE DEF n
    <3> QED  BY <3>1
  <2> HIDE DEF b
  <2>2. \A m \in 1 .. Len(o) : o[m] \in Bodies(q) /\ p[o[m]] = q[o[m]]
    BY <1>0, <1>7 DEF OpenOK
  <2>6. ASSUME NEW m \in 1 .. Len(b) PROVE m \in 1 .. Len(o) \/ m = Len(o) + 1  BY <2>1
  <2>3. \A m \in 1 .. Len(b) : b[m] \in Bodies(p)  BY <1>6, <2>1, <2>2, <2>6
  <2>4. ASSUME NEW m \in 1 .. Len(b)
        PROVE  p[b[m]].st = IF m = 1 THEN 1 ELSE p[b[m - 1]].body
    <3>1. CASE m \in 1 .. Len(o)
      <4>1. m # 1 => m - 1 \in 1 .. Len(o)  BY <2>1, <3>1
      <4>2. q[o[m]].st = IF m = 1 THEN 1 ELSE q[o[m - 1]].body  BY <1>0, <3>1 DEF OpenOK
      <4>3. b[m] = o[m] /\ p[o[m]] = q[o[m]]  BY <2>1, <2>2, <3>1
      <4>4. m # 1 => b[m - 1] = o[m - 1] /\ p[o[m - 1]] = q[o[m - 1]]  BY <2>1, <2>2, <4>1
      <4> QED  BY <4>2, <4>3, <4>4
    <3>2. CASE m = Len(o) + 1
      <4>1. p[b[m]].st = s  BY <1>b, <1>1, <2>1, <3>2
      <4>2. CASE o = <<>>  BY <1>0, <3>2, <4>1, <4>2 DEF OpenOK
      <4>3. CASE o # <<>>
        <5>1. Len(o) \in 1 .. Len(o) /\ m # 1 /\ m - 1 = Len(o)
          BY <1>0, <2>1, <3>2, <4>3 DEF OpenOK
        <5>2. s = q[o[Len(o)]].body  BY <1>0, <4>3 DEF OpenOK
        <5> QED  BY <2>1, <2>2, <4>1, <5>1, <5>2
      <4> QED  BY <4>2, <4>3
    <3> QED  BY <2>6, <3>1, <3>2
  <2>5. t = p[b[Len(b)]].body  BY <1>b, <1>1, <2>1
  <2> QED  BY <2>1, <2>3, <2>4, <2>5 DEF OpenOK, b
<1>11. ChainsOK(p)
  <2> SUFFICES ASSUME NEW i \in 1 .. Len(p) PROVE ChainOK(p, i)
    BY <1>1 DEF ChainsOK
  <2>1. CASE i \in 1 .. Len(q)
    <3>1. ChainOK(q, i) /\ p[i] = q[i] /\ q[i].end \in Nat
      BY <1>0, <1>1, <2>1, Fields DEF ChainsOK
    <3>2. \A m \in 1 .. i - 1 : p[m] = q[m]  BY <1>1, <2>1
    <3>3. q[i].end =< Len(p)  BY <1>1, <3>1 DEF ChainOK
    <3> QED  BY <3>1, <3>2, <3>3 DEF ChainOK
  <2>2. CASE i = n
    <3>1. p[i] = x /\ i =< Len(p)  BY <1>1, <2>2
    <3>2. x.k \notin Plains /\ x.k # "cond"  BY <1>b DEF Plains, Compound, Branches, Loops
    <3>5. x.k = "for" => DOMAIN x.vars \subseteq {1}  BY DEF Opens
    <3>3. CASE x.k \notin {"elif", "else"} /\ x.chain = n
      BY <1>b, <2>2, <3>1, <3>2, <3>3, <3>5 DEF ChainOK
    <3>4. CASE x.k \in {"elif", "else"} /\ x.chain \in 1 .. Len(q) /\ q[x.chain].k = "if"
      <4>1. p[x.chain] = q[x.chain] /\ x.chain \in 1 .. i - 1  BY <1>1, <2>2, <3>4
      <4> QED  BY <1>b, <2>2, <3>1, <3>2, <3>4, <3>5, <4>1 DEF ChainOK
    <3> QED  BY <3>3, <3>4 DEF Opens
  <2> QED  BY <1>1, <1>a, <2>1, <2>2
<1>12. TextsOK(z, p, t)
  <2> SUFFICES ASSUME NEW i \in Bodies(p), NEW j \in 1 .. Len(p) PROVE TextOK(z, p, t, i, j)
    BY DEF TextsOK
  <2>1. p[j].st \in 1 .. Len(r)
    <3>1. CASE j \in 1 .. Len(q)  BY <1>0, <1>1, <3>1 DEF BodiesOK
    <3>2. CASE j = n  BY <1>0, <1>b, <1>1, <3>2
    <3> QED  BY <1>a, <1>1, <3>1, <3>2
  <2>2. CASE i \in Bodies(q)
    <3>1. \A u \in 1 .. Len(r) : Within(z, p, i, u) <=> Within(r, q, i, u)
      BY <1>4, <1>7, <2>2 DEF Within
    <3>2. Within(z, p, i, t) <=> Within(r, q, i, s)
      <4>1. q[i].body # t /\ p[i] = q[i]  BY <1>a, <1>7, <2>2
      <4> HIDE DEF t
      <4> QED  BY <1>5, <4>1 DEF Within
    <3>3. CASE j \in 1 .. Len(q)
      <4>1. TextOK(r, q, s, i, j) /\ p[j] = q[j] /\ p[i] = q[i]
        BY <1>0, <1>1, <1>7, <2>2, <3>3 DEF TextsOK
      <4> QED  BY <2>1, <3>1, <3>2, <4>1 DEF TextOK
    <3>4. CASE j = n
      <4>1. p[j].st = s /\ i < j  BY <1>b, <1>1, <1>7, <2>2, <3>4
      <4>2. p[i].end =< Len(q) /\ p[i].end \in Nat
        BY <1>0, <1>6, <1>7, <2>2, Fields DEF ChainsOK, ChainOK
      <4> QED  BY <1>0, <1>1, <3>1, <3>2, <3>4, <4>1, <4>2 DEF TextOK
    <3> QED  BY <1>a, <1>1, <3>3, <3>4
  <2>3. CASE i = n
    <3>1. Within(z, p, i, t)  BY <1>b, <1>1, <1>5, <2>3 DEF Within
    <3>2. ~Within(z, p, i, p[j].st)
      <4>1. Up(z, p[j].st) \subseteq 1 .. Len(r)  BY <1>0, <1>4, <2>1
      <4>2. p[i].body = Len(r) + 1  BY <1>b, <1>1, <2>3
      <4> QED  BY <1>0, <4>1, <4>2 DEF Within
    <3>3. ~(i < j)  BY <1>a, <1>1, <2>3
    <3> QED  BY <3>1, <3>2, <3>3 DEF TextOK
  <2> QED  BY <1>6, <2>2, <2>3
<1> QED  BY <1>8, <1>9, <1>10, <1>11, <1>12 DEF Shape, p, z, e

(* The same statements with other ends.  The end of a function or namespace *)
(* is only moved while its body is being read.                              *)
Moved(r, q, s, p) ==
  /\ p \in Seq(Statements) /\ Len(p) = Len(q)
  /\ \A i \in 1 .. Len(q) :
       /\ p[i].k = q[i].k /\ p[i].st = q[i].st /\ p[i].body = q[i].body /\ p[i].chain = q[i].chain
       /\ p[i].end =< Len(q) /\ p[i].vars = q[i].vars
       /\ q[i].k \in Plains => p[i].end = q[i].end
  /\ \A i \in Bodies(q) :
       \/ p[i].end = q[i].end
       \/ Within(r, q, i, s)
       \/ q[i].k \notin {"fn", "namespace"} /\ q[i].end =< p[i].end

(* Moving the ends keeps the shape. *)
LEMMA EndsShape ==
  ASSUME NEW r, NEW c, NEW q, NEW s, NEW o, Shape(r, c, q, s, o), NEW p, Moved(r, q, s, p)
  PROVE  Shape(r, c, p, s, o)
<1>0. /\ ScopesOK(r, c, s) /\ BodiesOK(r, c, q) /\ OpenOK(q, s, o) /\ ChainsOK(q)
      /\ TextsOK(r, q, s) /\ q \in Seq(Statements)
  BY DEF Shape, ChainsOK
<1>1. /\ p \in Seq(Statements) /\ Len(p) = Len(q)
      /\ \A i \in 1 .. Len(q) :
           /\ p[i].k = q[i].k /\ p[i].st = q[i].st /\ p[i].body = q[i].body
           /\ p[i].chain = q[i].chain /\ p[i].vars = q[i].vars
  BY DEF Moved
<1>2. Bodies(p) = Bodies(q) /\ Bodies(q) \subseteq 1 .. Len(q)  BY <1>1 DEF Bodies
<1>3. BodiesOK(r, c, p)
  <2>1. \A i \in 1 .. Len(p) :
          p[i].st \in 1 .. Len(r) /\ (p[i].body # 0 <=> p[i].k \in Compound)
    BY <1>0, <1>1 DEF BodiesOK
  <2>2. \A u \in 2 .. Len(r) : \E i \in Bodies(p) : p[i].body = u
    BY <1>0, <1>1, <1>2 DEF BodiesOK
  <2>3. \A i, j \in Bodies(p) : p[i].body = p[j].body => i = j
    BY <1>0, <1>1, <1>2 DEF BodiesOK
  <2>4. ASSUME NEW i \in Bodies(p)
        PROVE  /\ p[i].body \in 2 .. Len(r) /\ r[p[i].body] = p[i].st
               /\ c[p[i].body] = "FN" <=> p[i].k = "fn"
               /\ c[p[i].body] = "NAMESPACE" <=> p[i].k = "namespace"
               /\ c[p[i].body] = "LOOP" <=> p[i].k \in Loops
    <3>1. i \in Bodies(q) /\ i \in 1 .. Len(q)  BY <1>2
    <3>2. p[i].k = q[i].k /\ p[i].st = q[i].st /\ p[i].body = q[i].body  BY <1>1, <3>1
    <3> QED  BY <1>0, <3>1, <3>2 DEF BodiesOK
  <2> QED  BY <2>1, <2>2, <2>3, <2>4 DEF BodiesOK
<1>4. OpenOK(p, s, o)
  <2>1. \A n \in 1 .. Len(o) : o[n] \in Bodies(q) /\ o[n] \in 1 .. Len(q)
    BY <1>0, <1>2 DEF OpenOK
  <2>2. Len(o) \in Nat /\ (o # <<>> => Len(o) \in 1 .. Len(o))  BY <1>0 DEF OpenOK
  <2>3. \A n \in 1 .. Len(o) : n # 1 => n - 1 \in 1 .. Len(o)  BY <2>2
  <2>4. ASSUME NEW n \in 1 .. Len(o)
        PROVE  p[o[n]].st = IF n = 1 THEN 1 ELSE p[o[n - 1]].body
    <3>1. q[o[n]].st = IF n = 1 THEN 1 ELSE q[o[n - 1]].body  BY <1>0 DEF OpenOK
    <3>2. p[o[n]].st = q[o[n]].st /\ (n # 1 => p[o[n - 1]].body = q[o[n - 1]].body)
      BY <1>1, <2>1, <2>3
    <3> QED  BY <3>1, <3>2
  <2>5. s = IF o = <<>> THEN 1 ELSE p[o[Len(o)]].body  BY <1>0, <1>1, <2>1, <2>2 DEF OpenOK
  <2> QED  BY <1>0, <1>2, <2>1, <2>4, <2>5 DEF OpenOK
<1>5. ChainsOK(p)
  <2> SUFFICES ASSUME NEW i \in 1 .. Len(p) PROVE ChainOK(p, i)
    BY <1>1 DEF ChainsOK
  <2>1. ChainOK(q, i) /\ i \in 1 .. Len(q)  BY <1>0, <1>1 DEF ChainsOK
  <2>2. \A n \in 1 .. i - 1 : p[n].k = q[n].k  BY <1>0, <1>1, <2>1
  <2>3. p[i].end =< Len(p) /\ (q[i].k \in Plains => p[i].end = q[i].end)
    BY <1>1, <2>1 DEF Moved
  <2> QED  BY <1>1, <2>1, <2>2, <2>3 DEF ChainOK
<1>6. TextsOK(r, p, s)
  <2> SUFFICES ASSUME NEW i \in Bodies(p), NEW j \in 1 .. Len(p) PROVE TextOK(r, p, s, i, j)
    BY DEF TextsOK
  <2>1. i \in Bodies(q) /\ i \in 1 .. Len(q) /\ j \in 1 .. Len(q)  BY <1>1, <1>2
  <2>2. \A u : Within(r, p, i, u) <=> Within(r, q, i, u)  BY <1>1, <2>1 DEF Within
  <2>3. TextOK(r, q, s, i, j)  BY <1>0, <2>1 DEF TextsOK
  <2>4. p[i].k = q[i].k /\ p[j].st = q[j].st  BY <1>1, <2>1
  <2>5. p[i].end \in Nat /\ q[i].end \in Nat  BY <1>0, <1>1, <2>1, Fields
  <2>6. \/ p[i].end = q[i].end
        \/ Within(r, q, i, s)
        \/ q[i].k \notin {"fn", "namespace"} /\ q[i].end =< p[i].end
    BY <2>1 DEF Moved
  <2> QED  BY <2>2, <2>3, <2>4, <2>5, <2>6 DEF TextOK
<1> QED  BY <1>0, <1>3, <1>4, <1>5, <1>6 DEF Shape

(* The brace that ends a body, once the end of its statement is known. *)
LEMMA LeaveShape ==
  ASSUME NEW r, NEW c, NEW q, NEW s, NEW o, Shape(r, c, q, s, o), o # <<>>,
         q[o[Len(o)]].k \in Branches \/ q[o[Len(o)]].end = Len(q)
  PROVE  Shape(r, c, q, r[s], SubSeq(o, 1, Len(o) - 1))
<1> DEFINE L == o[Len(o)]  b == SubSeq(o, 1, Len(o) - 1)
<1>0. /\ ScopesOK(r, c, s) /\ BodiesOK(r, c, q) /\ OpenOK(q, s, o) /\ ChainsOK(q)
      /\ TextsOK(r, q, s) /\ Tree(r) /\ q \in Seq(Statements)
  BY DEF Shape, ChainsOK, ScopesOK
<1>a. Len(r) \in Nat /\ Len(q) \in Nat /\ s \in 1 .. Len(r)  BY <1>0 DEF ScopesOK, Tree
<1>1. o \in Seq(Nat) /\ Len(o) \in Nat /\ Len(o) \in 1 .. Len(o)
  <2>1. o \in Seq(Nat)  BY <1>0 DEF OpenOK
  <2> QED  BY <2>1
<1>2. /\ b \in Seq(Nat) /\ Len(b) = Len(o) - 1
      /\ \A m \in 1 .. Len(o) - 1 : b[m] = o[m]
  <2>1. b = [m \in 1 .. Len(o) - 1 |-> o[m]]  BY <1>1
  <2>2. Len(o) - 1 \in Nat /\ \A m \in 1 .. Len(o) - 1 : o[m] \in Nat  BY <1>1
  <2> HIDE DEF b
  <2> QED  BY <2>1, <2>2
<1> HIDE DEF b
<1>3. L \in Bodies(q) /\ s = q[L].body /\ r[s] = q[L].st /\ s \in 2 .. Len(r)
  BY <1>0, <1>1 DEF OpenOK, BodiesOK
<1>4. r[s] \in 1 .. s - 1 /\ r[s] \in 1 .. Len(r)
  <2>1. r[s] \in 0 .. s - 1  BY <1>0, <1>a DEF Tree
  <2>2. r[s] # 0  BY <1>0, <1>a, <1>3 DEF ScopesOK
  <2> QED  BY <1>a, <2>1, <2>2
<1>5. Up(r, s) = {s} \cup Up(r, r[s]) /\ Up(r, r[s]) \subseteq 1 .. r[s] /\ s \notin Up(r, r[s])
  <2>1. Up(r, s) = {s} \cup (IF r[s] = 0 THEN {} ELSE Up(r, r[s]))  BY <1>0, <1>a, UpDef
  <2>2. Up(r, r[s]) \subseteq 1 .. r[s]  BY <1>0, <1>4, UpBound
  <2> QED  BY <1>4, <1>a, <2>1, <2>2
<1>6. ScopesOK(r, c, r[s])  BY <1>0, <1>4 DEF ScopesOK
<1>7. OpenOK(q, r[s], b)
  <2>1. ASSUME NEW m \in 1 .. Len(b)
        PROVE  b[m] = o[m] /\ m \in 1 .. Len(o) /\ (m # 1 => b[m - 1] = o[m - 1])
    <3>1. m \in 1 .. Len(o) - 1 /\ (m # 1 => m - 1 \in 1 .. Len(o) - 1)  BY <1>1, <1>2
    <3>2. b[m] = o[m] /\ (m # 1 => b[m - 1] = o[m - 1])  BY <1>2, <3>1
    <3>3. m \in 1 .. Len(o)  BY <1>1, <3>1
    <3> QED  BY <3>2, <3>3
  <2>2. \A m \in 1 .. Len(b) : b[m] \in Bodies(q)  BY <1>0, <2>1 DEF OpenOK
  <2>3. ASSUME NEW m \in 1 .. Len(b)
        PROVE  q[b[m]].st = IF m = 1 THEN 1 ELSE q[b[m - 1]].body
    <3>1. q[o[m]].st = IF m = 1 THEN 1 ELSE q[o[m - 1]].body  BY <1>0, <2>1 DEF OpenOK
    <3> QED  BY <2>1, <3>1
  <2>4. q[L].st = IF Len(o) = 1 THEN 1 ELSE q[o[Len(o) - 1]].body
    BY <1>0, <1>1 DEF OpenOK
  <2>5. CASE Len(o) = 1
    <3>1. b = <<>>  BY <1>2, <2>5
    <3> QED  BY <1>2, <1>3, <2>2, <2>3, <2>4, <2>5, <3>1 DEF OpenOK
  <2>6. CASE Len(o) # 1
    <3>1. Len(b) \in 1 .. Len(o) - 1 /\ b # <<>>  BY <1>1, <1>2, <2>6
    <3>2. b[Len(b)] = o[Len(o) - 1]  BY <1>2, <3>1
    <3> QED  BY <1>2, <1>3, <2>2, <2>3, <2>4, <2>6, <3>1, <3>2 DEF OpenOK
  <2> QED  BY <2>5, <2>6
<1>8. TextsOK(r, q, r[s])
  <2> SUFFICES ASSUME NEW i \in Bodies(q), NEW j \in 1 .. Len(q) PROVE TextOK(r, q, r[s], i, j)
    BY DEF TextsOK
  <2>1. TextOK(r, q, s, i, j)  BY <1>0 DEF TextsOK
  <2>2. CASE i = L
    <3>1. Within(r, q, i, s) /\ ~Within(r, q, i, r[s])  BY <1>3, <1>5, <2>2 DEF Within
    <3>2. j =< Len(q)  BY <1>a
    <3> QED  BY <2>1, <2>2, <3>1, <3>2 DEF TextOK
  <2>3. CASE i # L
    <3>1. q[i].body # s  BY <1>0, <1>3, <2>3 DEF BodiesOK
    <3>2. Within(r, q, i, s) <=> Within(r, q, i, r[s])  BY <1>5, <3>1 DEF Within
    <3> QED  BY <2>1, <3>2 DEF TextOK
  <2> QED  BY <2>2, <2>3
<1> QED  BY <1>0, <1>6, <1>7, <1>8 DEF Shape, b

-----------------------------------------------------------------------------
(* Names, while scopes, statements and symbols are added.                   *)

Grown(r, c, q, z, e, p) ==
  /\ Len(r) =< Len(z) /\ Len(q) =< Len(p)
  /\ \A i \in 1 .. Len(r) : z[i] = r[i] /\ e[i] = c[i]
  /\ \A i \in 1 .. Len(q) : p[i].k = q[i].k

(* The symbols N, declared by statement P in scope S, passed the test. *)
Added(N, D, r, c, S, X, P) ==
  /\ S \in 1 .. Len(r)
  /\ \A n \in N : n.scope = S /\ n.ictx = X /\ n.pos = P
  /\ \A n \in N, d \in D : d.name = n.name =>
       IF X = "global" THEN S \notin Up(r, d.scope) ELSE d.scope \notin Search(r, c, S)
  /\ X = "global" => GlobalPlace(r, c, S)

Placed(N, P, q, p) == N = {} \/ (P \in 1 .. Len(p) /\ (P = Len(q) + 1 \/ p[P].k # "let"))

(* New scopes do not change where the old ones look. *)
LEMMA SearchAgree ==
  ASSUME NEW r, Tree(r), NEW z, Tree(z), NEW c, NEW e, NEW q, NEW p, Grown(r, c, q, z, e, p)
  PROVE  \A s \in 1 .. Len(r) : Search(z, e, s) = Search(r, c, s) /\ Up(z, s) = Up(r, s)
<1> SUFFICES ASSUME NEW s \in 1 .. Len(r)
             PROVE  Search(z, e, s) = Search(r, c, s) /\ Up(z, s) = Up(r, s)
  OBVIOUS
<1>0. Len(r) \in Nat  BY DEF Tree
<1>1. Up(z, s) = Up(r, s)
  <2>1. Len(r) =< Len(z) /\ \A i \in 1 .. Len(r) : z[i] = r[i]  BY DEF Grown
  <2> QED  BY <2>1, UpAgree
<1>2. Up(r, s) \subseteq 1 .. Len(r)
  <2>1. Up(r, s) \subseteq 1 .. s  BY UpBound
  <2> QED  BY <1>0, <2>1
<1>3. \A u \in Up(r, s) : e[u] = c[u]  BY <1>2 DEF Grown
<1> QED  BY <1>1, <1>3 DEF Search

(* A name that the test lets through does not disturb the others. *)
LEMMA NamesStep ==
  ASSUME NEW r, NEW c, NEW q, NEW z, NEW e, NEW p, NEW D, NEW N, NEW S, NEW X, NEW P,
         NEW s, ScopesOK(r, c, s), Tree(z), Len(q) \in Nat, Len(p) \in Nat,
         Names(D, r, c, q), Grown(r, c, q, z, e, p), Added(N, D, r, c, S, X, P),
         Placed(N, P, q, p)
  PROVE  Names(D \cup N, z, e, p)
<1>p. N # {} => P \in 1 .. Len(p) /\ (P = Len(q) + 1 \/ p[P].k # "let")  BY DEF Placed
<1>0. Tree(r) /\ Len(r) \in Nat /\ Len(z) \in Nat  BY DEF ScopesOK, Tree
<1>1. \A u \in 1 .. Len(r) : Search(z, e, u) = Search(r, c, u) /\ Up(z, u) = Up(r, u)
  BY <1>0, SearchAgree
<1>2. \A d \in D : d.scope \in 1 .. Len(r) /\ d.pos \in 1 .. Len(q)  BY DEF Names
<1>3. /\ S \in 1 .. Len(r)
      /\ \A n \in N : n.scope = S /\ n.ictx = X /\ n.pos = P
  BY DEF Added
<1>4. \A d \in D \cup N : d.scope \in 1 .. Len(r) /\ d.pos \in 1 .. Len(p)
  <2>1. Len(q) =< Len(p)  BY DEF Grown
  <2>2. \A i \in 1 .. Len(q) : i \in 1 .. Len(p)  BY <2>1
  <2> QED  BY <1>2, <1>3, <1>p, <2>2
<1>5. \A d \in D \cup N : d.scope \in 1 .. Len(z) /\ d.pos \in 1 .. Len(p)
  <2>1. Len(r) =< Len(z)  BY DEF Grown
  <2>2. \A i \in 1 .. Len(r) : i \in 1 .. Len(z)  BY <1>0, <2>1
  <2> QED  BY <1>4, <2>2
<1>6. \A u \in 1 .. Len(r) : GlobalPlace(r, c, u) => GlobalPlace(z, e, u)
  <2> SUFFICES ASSUME NEW u \in 1 .. Len(r), GlobalPlace(r, c, u) PROVE GlobalPlace(z, e, u)
    OBVIOUS
  <2>1. z[u] = r[u] /\ e[u] = c[u] /\ r[u] \in 0 .. u - 1  BY <1>0 DEF Grown, Tree
  <2>2. CASE c[u] \in OuterCtx  BY <2>1, <2>2 DEF GlobalPlace
  <2>3. CASE c[u] = "LOOP" /\ c[r[u]] \in OuterCtx
    <3>1. r[u] # 0  BY <2>3 DEF ScopesOK
    <3>2. r[u] \in 1 .. Len(r)  BY <1>0, <2>1, <3>1
    <3>3. e[r[u]] = c[r[u]]  BY <3>2 DEF Grown
    <3> QED  BY <2>1, <2>3, <3>3 DEF GlobalPlace
  <2> QED  BY <2>2, <2>3 DEF GlobalPlace
<1>7. \A d \in D \cup N : d.ictx = "global" => GlobalPlace(z, e, d.scope)
  <2>1. \A d \in D : d.ictx = "global" => GlobalPlace(r, c, d.scope)  BY DEF Names
  <2>2. \A d \in N : d.ictx = "global" => GlobalPlace(r, c, d.scope)  BY <1>3 DEF Added
  <2> QED  BY <1>4, <1>6, <2>1, <2>2
<1>8. ASSUME NEW d \in D \cup N, NEW f \in D \cup N,
             d.scope \in Search(z, e, f.scope), d.name = f.name
      PROVE  /\ ~(d.ictx = "global" /\ f.ictx \in {"local", "param"})
             /\ p[d.pos].k = "let" /\ d.pos < f.pos => f.ictx = "global"
  <2>1. d.scope \in Search(r, c, f.scope) /\ d.scope \in Up(r, f.scope)
    <3>1. d.scope \in Search(r, c, f.scope)  BY <1>1, <1>4, <1>8
    <3> QED  BY <3>1 DEF Search
  <2>2. CASE d \in D /\ f \in D
    <3>1. p[d.pos].k = q[d.pos].k  BY <1>2, <2>2 DEF Grown
    <3> QED  BY <1>8, <2>1, <2>2, <3>1 DEF Names
  <2>3. CASE f \in N /\ d \in D
    <3>1. X = "global"  BY <1>3, <1>8, <2>1, <2>3 DEF Added
    <3> QED  BY <1>3, <2>3, <3>1
  <2>4. CASE d \in N /\ f \in D
    <3>1. X # "global"  BY <1>3, <1>8, <2>1, <2>4 DEF Added
    <3>2. ~(p[d.pos].k = "let" /\ d.pos < f.pos)
      <4>1. d.pos = P /\ f.pos \in 1 .. Len(q)  BY <1>2, <1>3, <2>4
      <4> QED  BY <1>p, <2>4, <4>1
    <3> QED  BY <1>3, <2>4, <3>1, <3>2
  <2>5. CASE d \in N /\ f \in N
    <3>1. d.pos = f.pos /\ d.ictx = f.ictx /\ d.pos \in Nat  BY <1>3, <1>p, <2>5
    <3> QED  BY <3>1
  <2> QED  BY <2>2, <2>3, <2>4, <2>5
<1> QED  BY <1>5, <1>7, <1>8 DEF Names

(* The walks and searches of the model are those of its root and contexts.  *)
LEMMA WalksAre ==
  /\ \A s : Outwards(s) = Up(root, s)
  /\ \A s : Searched(s) = Search(root, ctx, s)
<1>1. \A s : Outwards(s) = Up(root, s)  BY DEF Outwards, Up
<1> QED  BY <1>1 DEF Searched, Search

(* If nnc_st_get finds nothing, no table it searches has the name. *)
LEMMA GetNothing ==
  ASSUME \A d \in decls : d.scope \in 1 .. Len(root), Len(root) \in Nat,
         NEW s, NEW name, Get(s, name) = {}
  PROVE  \A d \in decls : d.name = name => d.scope \notin Search(root, ctx, s)
<1> DEFINE found == {d \in decls : d.scope \in Searched(s) /\ d.name = name}
           S == {d.scope : d \in found}
<1> SUFFICES ASSUME found # {} PROVE FALSE  BY WalksAre
<1>1. S \in SUBSET (0 .. Len(root)) /\ S # {}  OBVIOUS
<1>2. PICK m \in S : \A i \in S : i =< m
  <2> HIDE DEF S
  <2> QED  BY <1>1, Greatest
<1>3. PICK d \in found : d.scope = m  BY <1>2
<1>4. d \in Get(s, name)  BY <1>2, <1>3 DEF Get
<1> QED  BY <1>4

-----------------------------------------------------------------------------
(* The invariant, one kind of step after another.                           *)

(* A name that passes the test of nnc_st_put_sym. *)
LEMMA Fresh ==
  ASSUME ScopeInv, NEW s, NEW name, NEW X, ~Declared(s, name, X)
  PROVE  \A d \in decls : d.name = name =>
           IF X = "global" THEN s \notin Up(root, d.scope)
                           ELSE d.scope \notin Search(root, ctx, s)
<1>1. (\A d \in decls : d.scope \in 1 .. Len(root)) /\ Len(root) \in Nat
  BY DEF ScopeInv, Names, Shape, ScopesOK, Tree
<1>2. CASE X = "global"
  <2>1. DeepGet(s, name) = {}  BY <1>2 DEF Declared
  <2> QED  BY <1>2, <2>1, WalksAre DEF DeepGet
<1>3. CASE X # "global"
  <2>1. Get(s, name) = {}  BY <1>3 DEF Declared
  <2> QED  BY <1>1, <1>3, <2>1, GetNothing
<1> QED  BY <1>2, <1>3

(* A THROW that ends the process. *)
LEMMA ThrowInv == Throw => ScopeInv'
<1> SUFFICES ASSUME Throw PROVE ScopeInv'  OBVIOUS
<1>1. Shape(root', ctx', stmts', st', open')  BY EmptyShape DEF Throw
<1>2. Names(decls', root', ctx', stmts')  BY DEF Throw, Names
<1>3. Passed'
  <2>1. phase' = "failed" /\ erred' = FALSE /\ at' = 1 /\ gen' = {}  BY DEF Throw
  <2>2. at' \in Nat \ {0}  BY <2>1
  <2>3. erred' \in BOOLEAN  BY <2>1
  <2> QED  BY <2>1, <2>2, <2>3 DEF Passed
<1> QED  BY <1>1, <1>2, <1>3 DEF ScopeInv

(* A step of the parser that keeps the shape and declares what passed. *)
LEMMA GrowInv ==
  ASSUME ScopeInv, Reading, Shape(root', ctx', stmts', st', open'),
         Grown(root, ctx, stmts, root', ctx', stmts'),
         NEW N, NEW S, NEW X, NEW P, Added(N, decls, root, ctx, S, X, P),
         Placed(N, P, stmts, stmts'), decls' = decls \cup N,
         phase' = phase, at' = at, gen' = gen, erred' \in BOOLEAN
  PROVE  ScopeInv'
<1>1. /\ ScopesOK(root, ctx, st) /\ Names(decls, root, ctx, stmts) /\ stmts \in Seq(Statements)
      /\ Tree(root') /\ stmts' \in Seq(Statements)
  BY DEF ScopeInv, Shape, ScopesOK, ChainsOK
<1>2. Names(decls', root', ctx', stmts')
  <2>1. Len(stmts) \in Nat /\ Len(stmts') \in Nat  BY <1>1
  <2> QED  BY <1>1, <2>1, NamesStep
<1>3. Passed'  BY DEF ScopeInv, Passed, Reading
<1> QED  BY <1>2, <1>3 DEF ScopeInv

(* A statement without a body is read. *)
LEMMA ReadInv ==
  ASSUME ScopeInv, Reading, NEW x, Read(x),
         x \in Statements, x.st = st, x.body = 0, x.end = Here, x.chain = Here, x.k \in Plains,
         NEW N, NEW X, Added(N, decls, root, ctx, st, X, Here), decls' = decls \cup N
  PROVE  ScopeInv'
<1>1. Shape(root, ctx, stmts, st, open) /\ stmts \in Seq(Statements) /\ erred \in BOOLEAN
  BY DEF ScopeInv, Shape, ChainsOK, Passed
<1>2. /\ stmts' = Append(stmts, x) /\ root' = root /\ ctx' = ctx /\ st' = st /\ open' = open
      /\ phase' = phase /\ at' = at /\ gen' = gen /\ erred' = erred
  BY DEF Read
<1>3. Shape(root', ctx', stmts', st', open')  BY <1>1, <1>2, ReadShape DEF Here
<1>4. /\ Len(stmts) \in Nat /\ Len(stmts') = Len(stmts) + 1
      /\ \A i \in 1 .. Len(stmts) : stmts'[i] = stmts[i]
  BY <1>1, <1>2, Longer
<1>5. Len(root) \in Nat  BY <1>1 DEF Shape, ScopesOK, Tree
<1>6. Grown(root, ctx, stmts, root', ctx', stmts')  BY <1>2, <1>4, <1>5 DEF Grown
<1>7. Placed(N, Here, stmts, stmts')  BY <1>4 DEF Placed, Here
<1> QED  BY <1>1, <1>2, <1>3, <1>6, <1>7, GrowInv

(* A statement with a body is read up to it. *)
LEMMA EnterInv ==
  ASSUME ScopeInv, Reading, NEW x, NEW c, Enter(x, c),
         Opens(root, stmts, st, [x EXCEPT !.body = Len(root) + 1], c),
         NEW N, NEW X, Added(N, decls, root, ctx, st, X, Here), decls' = decls \cup N
  PROVE  ScopeInv'
<1> DEFINE y == [x EXCEPT !.body = Len(root) + 1]
<1>1. Shape(root, ctx, stmts, st, open) /\ stmts \in Seq(Statements) /\ erred \in BOOLEAN
  BY DEF ScopeInv, Shape, ChainsOK, Passed
<1>2. /\ stmts' = Append(stmts, y) /\ root' = Append(root, st) /\ ctx' = Append(ctx, c)
      /\ st' = Len(root) + 1 /\ open' = Append(open, Len(stmts) + 1)
      /\ phase' = phase /\ at' = at /\ gen' = gen /\ erred' = erred
  BY DEF Enter
<1>a. Opens(root, stmts, st, y, c)  OBVIOUS
<1> HIDE DEF y
<1>3. Shape(root', ctx', stmts', st', open')  BY <1>a, <1>1, <1>2, EnterShape
<1>4. /\ Len(stmts) \in Nat /\ Len(stmts') = Len(stmts) + 1
      /\ \A i \in 1 .. Len(stmts) : stmts'[i] = stmts[i]
  <2>1. y \in Statements  BY <1>a DEF Opens
  <2> QED  BY <1>1, <1>2, <2>1, Longer
<1>5. /\ Len(root) \in Nat /\ root \in Seq(Nat) /\ ctx \in Seq(Contexts) /\ Len(ctx) = Len(root)
      /\ st \in Nat
  BY <1>1 DEF Shape, ScopesOK, Tree
<1>6. Grown(root, ctx, stmts, root', ctx', stmts')
  <2>1. Len(root') = Len(root) + 1 /\ \A i \in 1 .. Len(root) : root'[i] = root[i]
    BY <1>2, <1>5
  <2>2. \A i \in 1 .. Len(root) : ctx'[i] = ctx[i]
    <3>1. c \in Contexts  BY DEF Opens
    <3> QED  BY <1>2, <1>5, <3>1
  <2> QED  BY <1>4, <1>5, <2>1, <2>2 DEF Grown
<1>7. Placed(N, Here, stmts, stmts')  BY <1>4 DEF Placed, Here
<1> QED  BY <1>1, <1>2, <1>3, <1>6, <1>7, GrowInv

(* The statement whose body is being read. *)
LEMMA LastOpen ==
  ASSUME ScopeInv, open # <<>>
  PROVE  /\ Last \in Bodies(stmts) /\ Last \in 1 .. Len(stmts) /\ stmts[Last].body = st
         /\ stmts[Last].k \in Compound /\ root[st] = stmts[Last].st
         /\ root[st] \in 1 .. Len(root) /\ st \in 2 .. Len(root)
<1>0. /\ OpenOK(stmts, st, open) /\ BodiesOK(root, ctx, stmts) /\ open \in Seq(Nat)
  BY DEF ScopeInv, Shape, OpenOK
<1>1. Len(open) \in 1 .. Len(open)  BY <1>0
<1>2. Last \in Bodies(stmts) /\ stmts[Last].body = st  BY <1>0, <1>1 DEF OpenOK, Last
<1>3. Last \in 1 .. Len(stmts)  BY <1>2 DEF Bodies
<1> QED  BY <1>0, <1>2, <1>3 DEF BodiesOK, Bodies

(* What closing a body does to the statements: only ends change, and among  *)
(* functions and namespaces only that of the one being closed.              *)
LEMMA ClosedIs ==
  ASSUME ScopeInv, open # <<>>, NEW more \in Nat
  PROVE  /\ Closed(more) \in Seq(Statements) /\ Len(Closed(more)) = Len(stmts)
         /\ \A i \in 1 .. Len(stmts) :
              /\ Closed(more)[i].k = stmts[i].k /\ Closed(more)[i].st = stmts[i].st
              /\ Closed(more)[i].body = stmts[i].body /\ Closed(more)[i].chain = stmts[i].chain
              /\ Closed(more)[i].vars = stmts[i].vars
              /\ Closed(more)[i].end = IF stmts[i].chain = stmts[Last].chain
                                       THEN Len(stmts) + more ELSE stmts[i].end
              /\ stmts[i].k \in Plains => Closed(more)[i].end = stmts[i].end
              /\ i # Last /\ stmts[i].k \in {"fn", "namespace"} =>
                   Closed(more)[i].end = stmts[i].end
         /\ Closed(more)[Last].end = Len(stmts) + more
<1> DEFINE p == Closed(more)
<1>0. stmts \in Seq(Statements) /\ ChainsOK(stmts) /\ Len(stmts) \in Nat
  BY DEF ScopeInv, Shape, ChainsOK
<1>1. Last \in 1 .. Len(stmts) /\ stmts[Last].k \in Compound  BY LastOpen
<1>2. p = [i \in 1 .. Len(stmts) |->
             IF stmts[i].chain = stmts[Last].chain
             THEN [stmts[i] EXCEPT !.end = Len(stmts) + more] ELSE stmts[i]]
  BY <1>0 DEF Closed
<1> HIDE DEF p
<1>3. ASSUME NEW i \in 1 .. Len(stmts)
      PROVE  /\ p[i] \in Statements
             /\ p[i].k = stmts[i].k /\ p[i].st = stmts[i].st
             /\ p[i].body = stmts[i].body /\ p[i].chain = stmts[i].chain
           /\ p[i].vars = stmts[i].vars
             /\ p[i].vars = stmts[i].vars
             /\ p[i].end = IF stmts[i].chain = stmts[Last].chain THEN Len(stmts) + more
                                                                ELSE stmts[i].end
  <2>1. stmts[i] \in Statements /\ Len(stmts) + more \in Nat  BY <1>0
  <2>2. CASE stmts[i].chain = stmts[Last].chain
    <3>1. p[i] = [stmts[i] EXCEPT !.end = Len(stmts) + more]  BY <1>2, <2>2
    <3> QED  BY <2>1, <2>2, <3>1 DEF Statements
  <2>3. CASE stmts[i].chain # stmts[Last].chain  BY <1>2, <2>1, <2>3
  <2> QED  BY <2>2, <2>3
<1>4. p \in Seq(Statements) /\ Len(p) = Len(stmts)
  <2>1. \A i \in 1 .. Len(stmts) : p[i] \in Statements  BY <1>3
  <2>2. p \in [1 .. Len(stmts) -> Statements]  BY <1>2, <2>1
  <2> QED  BY <1>0, <2>2
<1>5. ASSUME NEW i \in 1 .. Len(stmts), i # Last,
             stmts[i].k \in Plains \cup {"fn", "namespace"}
      PROVE  stmts[i].chain # stmts[Last].chain
  <2>1. ChainOK(stmts, i) /\ ChainOK(stmts, Last)  BY <1>0, <1>1 DEF ChainsOK
  <2>2. stmts[i].k \notin {"elif", "else", "cond", "if", "do"}  BY <1>5 DEF Plains
  <2>3. stmts[i].chain = i  BY <2>1, <2>2 DEF ChainOK
  <2>4. \/ stmts[Last].chain = Last
        \/ stmts[stmts[Last].chain].k \in {"if", "do"}
    BY <2>1 DEF ChainOK
  <2> QED  BY <1>5, <2>2, <2>3, <2>4
<1>6. stmts[Last].k \notin Plains  BY <1>1 DEF Plains, Compound, Branches, Loops
<1>7. ASSUME NEW i \in 1 .. Len(stmts)
      PROVE  /\ stmts[i].k \in Plains => p[i].end = stmts[i].end
             /\ i # Last /\ stmts[i].k \in {"fn", "namespace"} => p[i].end = stmts[i].end
  BY <1>3, <1>5, <1>6
<1>8. p[Last].end = Len(stmts) + more  BY <1>1, <1>3
<1> QED  BY <1>3, <1>4, <1>7, <1>8 DEF p

(* The shape after the brace that ends a body. *)
LEMMA CloseShape ==
  ASSUME ScopeInv, open # <<>>
  PROVE  Shape(root, ctx, Closed(0), root[st], SubSeq(open, 1, Len(open) - 1))
<1> DEFINE p == Closed(0)
<1>0. Shape(root, ctx, stmts, st, open) /\ stmts \in Seq(Statements) /\ Tree(root)
      /\ st \in 1 .. Len(root) /\ ChainsOK(stmts) /\ Len(stmts) \in Nat
  BY DEF ScopeInv, Shape, ChainsOK, ScopesOK
<1>1. /\ p \in Seq(Statements) /\ Len(p) = Len(stmts)
      /\ \A i \in 1 .. Len(stmts) :
           /\ p[i].k = stmts[i].k /\ p[i].st = stmts[i].st
           /\ p[i].body = stmts[i].body /\ p[i].chain = stmts[i].chain
           /\ p[i].vars = stmts[i].vars
           /\ p[i].end = IF stmts[i].chain = stmts[Last].chain
                         THEN Len(stmts) + 0 ELSE stmts[i].end
           /\ stmts[i].k \in Plains => p[i].end = stmts[i].end
           /\ i # Last /\ stmts[i].k \in {"fn", "namespace"} => p[i].end = stmts[i].end
      /\ p[Last].end = Len(stmts) + 0
  BY ClosedIs
<1> HIDE DEF p
<1>2. \A i \in 1 .. Len(stmts) :
        /\ p[i].end =< Len(stmts) /\ stmts[i].end =< p[i].end
  <2>1. \A i \in 1 .. Len(stmts) : stmts[i].end =< Len(stmts) /\ stmts[i].end \in Nat
    BY <1>0, Fields DEF ChainsOK, ChainOK
  <2> QED  BY <1>0, <1>1, <2>1
<1>3. Last \in 1 .. Len(stmts) /\ Within(root, stmts, Last, st)
  <2>1. st \in Up(root, st)  BY <1>0, UpBound
  <2> QED  BY <2>1, LastOpen DEF Within
<1>4. Moved(root, stmts, st, p)
  <2>1. Bodies(stmts) \subseteq 1 .. Len(stmts)  BY DEF Bodies
  <2>2. \A i \in Bodies(stmts) :
          \/ p[i].end = stmts[i].end
          \/ Within(root, stmts, i, st)
          \/ stmts[i].k \notin {"fn", "namespace"} /\ stmts[i].end =< p[i].end
    BY <1>1, <1>2, <1>3, <2>1
  <2> QED  BY <1>1, <1>2, <2>2 DEF Moved
<1>5. Shape(root, ctx, p, st, open)  BY <1>0, <1>4, EndsShape
<1>6. p[open[Len(open)]].end = Len(p)  BY <1>0, <1>1 DEF Last
<1>7. Shape(root, ctx, p, root[st], SubSeq(open, 1, Len(open) - 1))  BY <1>5, <1>6, LeaveShape
<1> QED  BY <1>7 DEF p

(* The brace that ends a body, and the names that are declared late. *)
LEMMA CloseInv ==
  ASSUME ScopeInv, Reading, open # <<>>, stmts' = Closed(0), Leave, phase' = phase,
         erred' \in BOOLEAN,
         NEW N, NEW S, NEW X, Added(N, decls, root, ctx, S, X, Last), decls' = decls \cup N
  PROVE  ScopeInv'
<1>1. Shape(root', ctx', stmts', st', open')  BY CloseShape DEF Leave
<1>2. /\ Len(stmts') = Len(stmts) /\ \A i \in 1 .. Len(stmts) : stmts'[i].k = stmts[i].k
  BY ClosedIs
<1>3. Len(root) \in Nat /\ Len(stmts) \in Nat
  BY DEF ScopeInv, Shape, ScopesOK, Tree, ChainsOK
<1>4. Grown(root, ctx, stmts, root', ctx', stmts')  BY <1>2, <1>3 DEF Grown, Leave
<1>5. Placed(N, Last, stmts, stmts')
  <2>1. Last \in 1 .. Len(stmts) /\ stmts[Last].k \in Compound  BY LastOpen
  <2>2. stmts[Last].k # "let"  BY <2>1 DEF Compound, Branches, Loops
  <2> QED  BY <1>2, <2>1, <2>2 DEF Placed
<1>6. at' = at /\ gen' = gen  BY DEF Leave
<1> QED  BY <1>1, <1>4, <1>5, <1>6, GrowInv

(* A statement as it is read is one. *)
LEMMA StmtIs ==
  ASSUME ScopeInv, NEW k \in Compound \cup Plains \cup {"cond"}, NEW use \in Texts
  PROVE  /\ Stmt(k, use) \in Statements /\ Stmt(k, use).k = k /\ Stmt(k, use).st = st
         /\ Stmt(k, use).body = 0 /\ Stmt(k, use).end = Here /\ Stmt(k, use).chain = Here
         /\ Here = Len(stmts) + 1 /\ Here \in Nat /\ st \in 1 .. Len(root) /\ st \in Nat
<1>1. Here = Len(stmts) + 1 /\ Here \in Nat /\ st \in 1 .. Len(root) /\ st \in Nat
  BY DEF ScopeInv, Shape, ScopesOK, ChainsOK, Here, Tree
<1>2. <<>> \in Texts  BY DEF Texts
<1>3. Stmt(k, use) \in Statements  BY <1>1, <1>2 DEF Stmt, Statements
<1> QED  BY <1>1, <1>3 DEF Stmt

(* The condition of a do statement is read after its body. *)
LEMMA CloseDoInv ==
  ASSUME ScopeInv, NEW e \in Exprs, CloseDo(e)
  PROVE  ScopeInv'
<1> DEFINE p == Closed(0)  w == Closed(1)  n == Len(stmts) + 1
           x == [Stmt("cond", e) EXCEPT !.st = root[st], !.chain = Last]
           b == SubSeq(open, 1, Len(open) - 1)
<1>0. /\ Reading /\ open # <<>> /\ stmts[Last].k = "do" /\ stmts' = Append(w, x) /\ Leave
      /\ decls' = decls /\ phase' = phase /\ erred' = erred
  BY DEF CloseDo
<1>a. stmts \in Seq(Statements) /\ Len(stmts) \in Nat /\ Len(root) \in Nat /\ erred \in BOOLEAN
      /\ \A i \in 1 .. Len(stmts) : stmts[i].end \in Nat /\ stmts[i].end =< Len(stmts)
  <2>1. stmts \in Seq(Statements) /\ Len(root) \in Nat /\ ChainsOK(stmts) /\ erred \in BOOLEAN
    BY DEF ScopeInv, Shape, ScopesOK, ChainsOK, Tree, Passed
  <2> QED  BY <2>1, Fields DEF ChainsOK, ChainOK
<1>1. Last \in 1 .. Len(stmts) /\ root[st] \in 1 .. Len(root) /\ st \in 1 .. Len(root)
  BY <1>0, <1>a, LastOpen
<1>2. /\ x \in Statements /\ x.k = "cond" /\ x.st = root[st] /\ x.body = 0 /\ x.end = n
      /\ x.chain = Last
  <2>1. e \in Texts  BY DEF Texts
  <2>2. /\ Stmt("cond", e) \in Statements /\ Stmt("cond", e).k = "cond"
        /\ Stmt("cond", e).body = 0 /\ Stmt("cond", e).end = n
    BY <2>1, StmtIs
  <2>3. root[st] \in Nat /\ Last \in Nat  BY <1>1, <1>a
  <2> QED  BY <2>2, <2>3 DEF Statements
<1>3. Shape(root, ctx, p, root[st], b)  BY <1>0, CloseShape
<1>4. /\ p \in Seq(Statements) /\ Len(p) = Len(stmts)
      /\ \A i \in 1 .. Len(stmts) :
           /\ p[i].k = stmts[i].k /\ p[i].st = stmts[i].st
           /\ p[i].body = stmts[i].body /\ p[i].chain = stmts[i].chain
           /\ p[i].vars = stmts[i].vars
           /\ p[i].end = IF stmts[i].chain = stmts[Last].chain
                         THEN Len(stmts) + 0 ELSE stmts[i].end
           /\ stmts[i].k \in Plains => p[i].end = stmts[i].end
           /\ i # Last /\ stmts[i].k \in {"fn", "namespace"} => p[i].end = stmts[i].end
  BY <1>0, ClosedIs
<1>5. /\ w \in Seq(Statements) /\ Len(w) = Len(stmts)
      /\ \A i \in 1 .. Len(stmts) :
           /\ w[i].k = stmts[i].k /\ w[i].st = stmts[i].st
           /\ w[i].body = stmts[i].body /\ w[i].chain = stmts[i].chain
           /\ w[i].vars = stmts[i].vars
           /\ w[i].end = IF stmts[i].chain = stmts[Last].chain
                         THEN Len(stmts) + 1 ELSE stmts[i].end
           /\ stmts[i].k \in Plains => w[i].end = stmts[i].end
           /\ i # Last /\ stmts[i].k \in {"fn", "namespace"} => w[i].end = stmts[i].end
  BY <1>0, ClosedIs
<1> HIDE DEF p, w, x, b
<1>6. Shape(root, ctx, Append(p, x), root[st], b)
  <2>1. x.chain \in 1 .. Len(p) /\ p[x.chain].k = "do" /\ x.end = Len(p) + 1
    BY <1>0, <1>1, <1>2, <1>4
  <2> QED  BY <1>2, <1>3, <2>1, ReadShape
<1>7. /\ Append(p, x) \in Seq(Statements) /\ Len(Append(p, x)) = n
      /\ \A i \in 1 .. Len(stmts) : Append(p, x)[i] = p[i]
      /\ Append(p, x)[n] = x
  BY <1>2, <1>4, Longer
<1>8. /\ Append(w, x) \in Seq(Statements) /\ Len(Append(w, x)) = n
      /\ \A i \in 1 .. Len(stmts) : Append(w, x)[i] = w[i]
      /\ Append(w, x)[n] = x
  BY <1>2, <1>5, Longer
<1>9. Moved(root, Append(p, x), root[st], Append(w, x))
  <2> DEFINE pp == Append(p, x)  ww == Append(w, x)
  <2>1. ASSUME NEW i \in 1 .. n
        PROVE  /\ ww[i].k = pp[i].k /\ ww[i].st = pp[i].st /\ ww[i].body = pp[i].body
               /\ ww[i].chain = pp[i].chain /\ ww[i].vars = pp[i].vars /\ ww[i].end =< n
               /\ pp[i].k \in Plains => ww[i].end = pp[i].end
               /\ pp[i].k \in {"fn", "namespace"} => ww[i].end = pp[i].end
               /\ pp[i].end =< ww[i].end
    <3>1. CASE i = n
      <4>1. n =< n  BY <1>a
      <4>2. ww[i] = x /\ pp[i] = x  BY <1>7, <1>8, <3>1
      <4>3. x.end =< n /\ x.end =< x.end /\ x.k \notin {"fn", "namespace"}  BY <1>2, <4>1
      <4> HIDE DEF pp, ww
      <4> QED  BY <4>2, <4>3
    <3>2. CASE i \in 1 .. Len(stmts)
      <4>1. ww[i] = w[i] /\ pp[i] = p[i]  BY <1>7, <1>8, <3>2
      <4>2. w[i].end =< n /\ p[i].end =< w[i].end  BY <1>a, <1>4, <1>5, <3>2
      <4>3. stmts[i].k \in {"fn", "namespace"} => i # Last  BY <1>0
      <4> HIDE DEF pp, ww
      <4> QED  BY <1>4, <1>5, <3>2, <4>1, <4>2, <4>3
    <3>3. i = n \/ i \in 1 .. Len(stmts)  BY <1>a
    <3> HIDE DEF pp, ww
    <3> QED  BY <3>1, <3>2, <3>3
  <2>2. Bodies(pp) \subseteq 1 .. n  BY <1>7 DEF Bodies
  <2> QED  BY <1>7, <1>8, <2>1, <2>2 DEF Moved
<1>10. Shape(root', ctx', stmts', st', open')
  <2>1. Shape(root, ctx, Append(w, x), root[st], b)  BY <1>6, <1>9, EndsShape
  <2> QED  BY <1>0, <2>1 DEF Leave, b
<1>11. Grown(root, ctx, stmts, root', ctx', stmts')
  BY <1>0, <1>a, <1>5, <1>8 DEF Grown, Leave
<1>12. /\ Added({}, decls, root, ctx, st, "none", Last) /\ Placed({}, Last, stmts, stmts')
       /\ decls' = decls \cup {} /\ at' = at /\ gen' = gen
  BY <1>0, <1>1 DEF Added, Placed, Leave
<1> QED  BY <1>0, <1>a, <1>10, <1>11, <1>12, GrowInv

(* A branch of an if statement after another. *)
LEMMA NextBranchInv ==
  ASSUME ScopeInv, NEW e \in Exprs \cup {<<>>}, NEW k \in {"elif", "else"}, NextBranch(k, e)
  PROVE  ScopeInv'
<1> DEFINE x == [Stmt(k, e) EXCEPT !.st = root[st], !.body = Len(root) + 1,
                                   !.chain = stmts[Last].chain]
           c == IF k = "elif" THEN "ELIF" ELSE "ELSE"
           b == SubSeq(open, 1, Len(open) - 1)
<1>0. /\ Reading /\ open # <<>> /\ stmts[Last].k \in {"if", "elif"}
      /\ root' = Append(root, root[st]) /\ ctx' = Append(ctx, c) /\ st' = Len(root) + 1
      /\ stmts' = Append(stmts, x) /\ open' = [open EXCEPT ![Len(open)] = Len(stmts) + 1]
      /\ decls' = decls /\ phase' = phase /\ erred' = erred /\ at' = at /\ gen' = gen
  BY DEF NextBranch, More
<1>a. /\ Shape(root, ctx, stmts, st, open) /\ stmts \in Seq(Statements) /\ Len(stmts) \in Nat
      /\ Len(root) \in Nat /\ erred \in BOOLEAN /\ ChainsOK(stmts) /\ open \in Seq(Nat)
      /\ root \in Seq(Nat) /\ ctx \in Seq(Contexts) /\ Len(ctx) = Len(root)
  BY DEF ScopeInv, Shape, ScopesOK, ChainsOK, Tree, Passed, OpenOK
<1>1. Last \in 1 .. Len(stmts) /\ root[st] \in 1 .. Len(root) /\ st \in 1 .. Len(root)
  BY <1>0, <1>a, LastOpen
<1>2. Shape(root, ctx, stmts, root[st], b)
  <2>1. stmts[open[Len(open)]].k \in Branches  BY <1>0 DEF Last, Branches
  <2> QED  BY <1>0, <1>a, <2>1, LeaveShape
<1>3. stmts[Last].chain \in 1 .. Len(stmts) /\ stmts[stmts[Last].chain].k = "if"
  <2>1. ChainOK(stmts, Last)  BY <1>a, <1>1 DEF ChainsOK
  <2>2. CASE stmts[Last].k = "if"  BY <1>1, <2>1, <2>2 DEF ChainOK
  <2>3. CASE stmts[Last].k = "elif"
    <3>1. stmts[Last].chain \in 1 .. Last - 1 /\ stmts[stmts[Last].chain].k = "if"
      BY <2>1, <2>3 DEF ChainOK
    <3> QED  BY <1>a, <1>1, <3>1
  <2> QED  BY <1>0, <2>2, <2>3
<1>4. /\ x \in Statements /\ x.k = k /\ x.st = root[st] /\ x.body = Len(root) + 1
      /\ x.end = Len(stmts) + 1 /\ x.chain = stmts[Last].chain
  <2>1. e \in Texts /\ k \in Compound  BY DEF Texts, Compound, Branches
  <2>2. /\ Stmt(k, e) \in Statements /\ Stmt(k, e).k = k /\ Stmt(k, e).end = Len(stmts) + 1
    BY <2>1, StmtIs
  <2>3. root[st] \in Nat /\ stmts[Last].chain \in Nat /\ Len(root) + 1 \in Nat
    BY <1>a, <1>1, <1>3
  <2> QED  BY <2>2, <2>3 DEF Statements
<1> HIDE DEF x
<1>5. Opens(root, stmts, root[st], x, c)
  BY <1>3, <1>4 DEF Opens, Compound, Branches, Loops, Contexts
<1>6. open' = Append(b, Len(stmts) + 1)
  <2>1. Len(open) \in Nat /\ Len(open) # 0  BY <1>0, <1>a
  <2>2. b = [m \in 1 .. Len(open) - 1 |-> open[m]]  BY <1>a, <2>1
  <2>3. b \in Seq(Nat) /\ Len(b) = Len(open) - 1
    <3>1. Len(open) - 1 \in Nat /\ \A m \in 1 .. Len(open) - 1 : open[m] \in Nat  BY <1>a, <2>1
    <3> HIDE DEF b
    <3> QED  BY <2>2, <3>1
  <2>4. /\ Append(b, Len(stmts) + 1) \in Seq(Nat) /\ Len(Append(b, Len(stmts) + 1)) = Len(open)
        /\ Append(b, Len(stmts) + 1)[Len(open)] = Len(stmts) + 1
        /\ \A m \in 1 .. Len(open) - 1 : Append(b, Len(stmts) + 1)[m] = b[m]
    <3> HIDE DEF b
    <3> QED  BY <1>a, <2>1, <2>3
  <2>5. open' \in Seq(Nat) /\ Len(open') = Len(open)  BY <1>0, <1>a, <2>1
  <2>6. ASSUME NEW m \in 1 .. Len(open) PROVE open'[m] = Append(b, Len(stmts) + 1)[m]
    <3>1. CASE m = Len(open)  BY <1>0, <1>a, <2>1, <2>4, <3>1
    <3>2. CASE m # Len(open)
      <4>1. m \in 1 .. Len(open) - 1  BY <2>1, <3>2
      <4>2. open'[m] = open[m]  BY <1>0, <1>a, <2>1, <3>2
      <4>3. b[m] = open[m]  BY <2>2, <4>1
      <4> QED  BY <2>4, <4>1, <4>2, <4>3
    <3> QED  BY <3>1, <3>2
  <2> HIDE DEF b
  <2> QED  BY <2>4, <2>5, <2>6, SeqEqual
<1>7. Shape(root', ctx', stmts', st', open')
  <2> HIDE DEF b, c
  <2>1. Shape(Append(root, root[st]), Append(ctx, c), Append(stmts, x), Len(root) + 1,
              Append(b, Len(stmts) + 1))
    BY <1>2, <1>5, EnterShape
  <2> QED  BY <1>0, <1>6, <2>1
<1>8. Grown(root, ctx, stmts, root', ctx', stmts')
  <2>1. Len(root') = Len(root) + 1 /\ \A i \in 1 .. Len(root) : root'[i] = root[i]
    BY <1>0, <1>a, <1>1
  <2>2. \A i \in 1 .. Len(root) : ctx'[i] = ctx[i]
    <3>1. c \in Contexts  BY <1>5 DEF Opens
    <3> HIDE DEF c
    <3> QED  BY <1>0, <1>a, <3>1
  <2>3. Len(stmts') = Len(stmts) + 1 /\ \A i \in 1 .. Len(stmts) : stmts'[i] = stmts[i]
    BY <1>0, <1>a, <1>4, Longer
  <2> QED  BY <1>a, <2>1, <2>2, <2>3 DEF Grown
<1>9. /\ Added({}, decls, root, ctx, st, "none", Last) /\ Placed({}, Last, stmts, stmts')
      /\ decls' = decls \cup {}
  BY <1>0, <1>1 DEF Added, Placed
<1> QED  BY <1>0, <1>a, <1>7, <1>8, <1>9, GrowInv

(* A variable that let declares. *)
LEMMA LetInv ==
  ASSUME ScopeInv, NEW x \in Lets, NEW form \in LetForms, ParseLet(x, form)
  PROVE  ScopeInv'
<1>1. CASE Declared(st, x, LetCtx)  BY <1>1, ThrowInv DEF ParseLet
<1>2. CASE ~Declared(st, x, LetCtx)
  <2> DEFINE y == [Stmt("let", <<>>) EXCEPT !.init = form.init, !.type = form.type]
             N == {Sym(st, x, LetCtx, 0, Here)}
  <2>1. Reading /\ decls' = decls \cup N /\ Read(y)  BY <1>2 DEF ParseLet, More
  <2>2. <<>> \in Texts /\ "let" \in Plains  BY DEF Texts, Plains
  <2>3. /\ Stmt("let", <<>>) \in Statements /\ Stmt("let", <<>>).k = "let"
        /\ Stmt("let", <<>>).st = st /\ Stmt("let", <<>>).body = 0
        /\ Stmt("let", <<>>).end = Here /\ Stmt("let", <<>>).chain = Here
        /\ st \in 1 .. Len(root)
    BY <2>2, StmtIs
  <2>4. /\ y \in Statements /\ y.k = "let" /\ y.st = st /\ y.body = 0 /\ y.end = Here
        /\ y.chain = Here
    <3>1. form.init \in Texts /\ form.type \in {Prim} \cup {f.type : f \in LetForms}
      BY DEF Texts
    <3> QED  BY <2>3, <3>1 DEF Statements
  <2>5. Added(N, decls, root, ctx, st, LetCtx, Here)
    <3>1. LetCtx = "global" => GlobalPlace(root, ctx, st)
      BY DEF LetCtx, Outer, GlobalPlace, OuterCtx
    <3>2. \A n \in N : n.scope = st /\ n.ictx = LetCtx /\ n.pos = Here /\ n.name = x
      BY DEF Sym
    <3>3. \A d \in decls : d.name = x =>
            IF LetCtx = "global" THEN st \notin Up(root, d.scope)
                                 ELSE d.scope \notin Search(root, ctx, st)
      BY <1>2, Fresh
    <3> HIDE DEF N
    <3> QED  BY <2>3, <3>1, <3>2, <3>3 DEF Added
  <2> HIDE DEF y, N
  <2> QED  BY <2>1, <2>2, <2>4, <2>5, ReadInv
<1> QED  BY <1>1, <1>2

(* A type with its enumerators. *)
LEMMA TypeInv ==
  ASSUME ScopeInv, NEW t, NEW es, ParseType(t, es)
  PROVE  ScopeInv'
<1>1. CASE HasType(st, t) \/ \E x \in es : Declared(st, x, "enum")
  BY <1>1, ThrowInv DEF ParseType
<1>2. CASE ~(HasType(st, t) \/ \E x \in es : Declared(st, x, "enum"))
  <2> DEFINE y == Stmt("type", <<>>)
             N == {Sym(st, x, "enum", 0, Here) : x \in es}
  <2>1. Reading /\ decls' = decls \cup N /\ Read(y)  BY <1>2 DEF ParseType, More
  <2>2. <<>> \in Texts /\ "type" \in Plains  BY DEF Texts, Plains
  <2>3. /\ y \in Statements /\ y.k = "type" /\ y.st = st /\ y.body = 0 /\ y.end = Here
        /\ y.chain = Here /\ st \in 1 .. Len(root)
    BY <2>2, StmtIs
  <2>4. Added(N, decls, root, ctx, st, "enum", Here)
    <3>1. \A n \in N : /\ n.scope = st /\ n.ictx = "enum" /\ n.pos = Here
                       /\ n.name \in es
      BY DEF Sym
    <3>2. \A x \in es : \A d \in decls : d.name = x => d.scope \notin Search(root, ctx, st)
      <4> SUFFICES ASSUME NEW x \in es
                   PROVE  \A d \in decls : d.name = x => d.scope \notin Search(root, ctx, st)
        OBVIOUS
      <4>1. ~Declared(st, x, "enum")  BY <1>2
      <4> QED  BY <4>1, Fresh
    <3> HIDE DEF N
    <3> QED  BY <2>3, <3>1, <3>2 DEF Added
  <2> HIDE DEF y, N
  <2> QED  BY <2>1, <2>2, <2>3, <2>4, ReadInv
<1> QED  BY <1>1, <1>2

(* Nothing is declared. *)
LEMMA AddNothing ==
  ASSUME NEW S \in 1 .. Len(root), NEW P
  PROVE  Added({}, decls, root, ctx, S, "none", P)
BY DEF Added

(* An expression statement, break, continue, goto and return. *)
LEMMA PlainInv ==
  ASSUME ScopeInv, NEW k \in {"expr", "return", "break", "continue", "goto"},
         NEW e \in Exprs \cup {<<>>}, NEW v \in BOOLEAN, ParsePlain(k, e, v)
  PROVE  ScopeInv'
<1> DEFINE y == [Stmt(k, e) EXCEPT !.value = v]
<1>1. Reading /\ decls' = decls \cup {} /\ Read(y)  BY DEF ParsePlain, More
<1>2. e \in Texts /\ k \in Plains  BY DEF Texts, Plains
<1>3. /\ Stmt(k, e) \in Statements /\ Stmt(k, e).k = k /\ Stmt(k, e).st = st
      /\ Stmt(k, e).body = 0 /\ Stmt(k, e).end = Here /\ Stmt(k, e).chain = Here
      /\ st \in 1 .. Len(root)
  BY <1>2, StmtIs
<1>4. /\ y \in Statements /\ y.k = k /\ y.st = st /\ y.body = 0 /\ y.end = Here /\ y.chain = Here
  BY <1>3 DEF Statements
<1>5. Added({}, decls, root, ctx, st, "none", Here)  BY <1>3, AddNothing
<1> HIDE DEF y
<1> QED  BY <1>1, <1>2, <1>4, <1>5, ReadInv

(* A function of another file. *)
LEMMA ExtFnInv ==
  ASSUME ScopeInv, NEW f, NEW pub \in BOOLEAN, ParseExtFn(f, pub)
  PROVE  ScopeInv'
<1>1. CASE Declared(st, f, "fn") \/ (pub /\ ctx[st] # "GLOBAL")
  BY <1>1, ThrowInv DEF ParseExtFn
<1>2. CASE ~(Declared(st, f, "fn") \/ (pub /\ ctx[st] # "GLOBAL"))
  <2> DEFINE y == [Stmt("ext_fn", <<>>) EXCEPT !.pub = pub]
             N == {Sym(st, f, "fn", 0, Here)}
  <2>1. Reading /\ decls' = decls \cup N /\ Read(y)  BY <1>2 DEF ParseExtFn, More
  <2>2. <<>> \in Texts /\ "ext_fn" \in Plains  BY DEF Texts, Plains
  <2>3. /\ Stmt("ext_fn", <<>>) \in Statements /\ Stmt("ext_fn", <<>>).k = "ext_fn"
        /\ Stmt("ext_fn", <<>>).st = st /\ Stmt("ext_fn", <<>>).body = 0
        /\ Stmt("ext_fn", <<>>).end = Here /\ Stmt("ext_fn", <<>>).chain = Here
        /\ st \in 1 .. Len(root)
    BY <2>2, StmtIs
  <2>4. /\ y \in Statements /\ y.k = "ext_fn" /\ y.st = st /\ y.body = 0 /\ y.end = Here
        /\ y.chain = Here
    BY <2>3 DEF Statements
  <2>5. Added(N, decls, root, ctx, st, "fn", Here)
    <3>1. \A n \in N : n.scope = st /\ n.ictx = "fn" /\ n.pos = Here /\ n.name = f  BY DEF Sym
    <3>2. \A d \in decls : d.name = f => d.scope \notin Search(root, ctx, st)  BY <1>2, Fresh
    <3> HIDE DEF N
    <3> QED  BY <2>3, <3>1, <3>2 DEF Added
  <2> HIDE DEF y, N
  <2> QED  BY <2>1, <2>2, <2>4, <2>5, ReadInv
<1> QED  BY <1>1, <1>2

(* A function up to its body. *)
LEMMA FnInv ==
  ASSUME ScopeInv, NEW f, NEW head \in Heads, ParseFn(f, head)
  PROVE  ScopeInv'
<1>1. CASE Declared(st, f, "fn") \/ (head.pub /\ ctx[st] # "GLOBAL")
  BY <1>1, ThrowInv DEF ParseFn
<1>2. CASE ~(Declared(st, f, "fn") \/ (head.pub /\ ctx[st] # "GLOBAL"))
  <2> DEFINE x == [Stmt("fn", <<>>) EXCEPT !.vars = head.params, !.value = head.value,
                                           !.pub = head.pub]
             y == [x EXCEPT !.body = Len(root) + 1]
             N == {Sym(st, f, "fn", 0, Here)}
  <2>1. Reading /\ decls' = decls \cup N /\ Enter(x, "FN")  BY <1>2 DEF ParseFn, More
  <2>2. <<>> \in Texts /\ "fn" \in Compound  BY DEF Texts, Compound
  <2>3. /\ Stmt("fn", <<>>) \in Statements /\ Stmt("fn", <<>>).k = "fn"
        /\ Stmt("fn", <<>>).st = st /\ Stmt("fn", <<>>).end = Here
        /\ Stmt("fn", <<>>).chain = Here /\ Here = Len(stmts) + 1 /\ st \in 1 .. Len(root)
    BY <2>2, StmtIs
  <2>4. /\ y \in Statements /\ y.k = "fn" /\ y.st = st /\ y.body = Len(root) + 1
        /\ y.end = Len(stmts) + 1 /\ y.chain = Len(stmts) + 1
    <3>1. Len(root) + 1 \in Nat  BY DEF ScopeInv, Shape, ScopesOK, Tree
    <3> QED  BY <2>3, <3>1 DEF Statements
  <2>5. Added(N, decls, root, ctx, st, "fn", Here)
    <3>1. \A n \in N : n.scope = st /\ n.ictx = "fn" /\ n.pos = Here /\ n.name = f  BY DEF Sym
    <3>2. \A d \in decls : d.name = f => d.scope \notin Search(root, ctx, st)  BY <1>2, Fresh
    <3> HIDE DEF N
    <3> QED  BY <2>3, <3>1, <3>2 DEF Added
  <2>6. Opens(root, stmts, st, y, "FN")
    <3> HIDE DEF y
    <3> QED  BY <2>4 DEF Opens, Contexts, Compound, Loops
  <2> HIDE DEF x, N
  <2> QED  BY <2>1, <2>5, <2>6, EnterInv
<1> QED  BY <1>1, <1>2

BlockCtx(k, c) ==
  \/ k = "namespace" /\ c = "NAMESPACE"
  \/ k = "if" /\ c = "IF"
  \/ k \in Loops /\ c = "LOOP"

(* A compound statement other than a function, up to its body. *)
LEMMA BlockInv ==
  ASSUME ScopeInv, Reading, NEW k, NEW c, NEW x, BlockCtx(k, c),
         x \in Statements, x.k = k, x.st = st, x.end = Here, x.chain = Here,
         k = "for" => DOMAIN x.vars \subseteq {1},
         Enter(x, c), decls' = decls
  PROVE  ScopeInv'
<1> DEFINE y == [x EXCEPT !.body = Len(root) + 1]
<1>1. Len(root) + 1 \in Nat /\ st \in 1 .. Len(root)  BY DEF ScopeInv, Shape, ScopesOK, Tree
<1>2. /\ y \in Statements /\ y.k = k /\ y.st = st /\ y.body = Len(root) + 1
      /\ y.end = Len(stmts) + 1 /\ y.chain = Len(stmts) + 1 /\ y.vars = x.vars
  BY <1>1 DEF Statements, Here
<1>3. Opens(root, stmts, st, y, c)
  <2> HIDE DEF y
  <2>1. /\ k \in Compound /\ k \notin {"elif", "else", "fn"} /\ c \in Contexts
        /\ c \notin {"GLOBAL", "FN"}
        /\ c = "NAMESPACE" <=> k = "namespace"
        /\ c = "LOOP" <=> k \in Loops
    BY DEF BlockCtx, Contexts, Compound, Loops, Branches
  <2> QED  BY <1>2, <2>1 DEF Opens
<1>4. Added({}, decls, root, ctx, st, "none", Here) /\ decls' = decls \cup {}
  BY <1>1, AddNothing
<1> QED  BY <1>3, <1>4, EnterInv

(* The brace that ends a function: its parameters are declared now. *)
LEMMA CloseFnInv ==
  ASSUME ScopeInv, CloseFn
  PROVE  ScopeInv'
<1> DEFINE params == stmts[Last].vars
           Late(i) == Declared(st, params[i], "param") \/ \E j \in 1 .. i - 1 : params[j] = params[i]
           bad == {i \in DOMAIN params : Late(i)}
           N == {Sym(st, params[i], "param", 0, Last) : i \in DOMAIN params \ bad}
<1>1. /\ Reading /\ open # <<>> /\ decls' = decls \cup N /\ erred' = (erred \/ bad # {})
      /\ stmts' = Closed(0) /\ Leave /\ phase' = phase
  BY DEF CloseFn
<1>2. erred' \in BOOLEAN
  <2> HIDE DEF bad
  <2> QED  BY <1>1
<1>3. Added(N, decls, root, ctx, st, "param", Last)
  <2>1. \A n \in N : n.scope = st /\ n.ictx = "param" /\ n.pos = Last  BY DEF Sym
  <2>2. \A n \in N : \E i \in DOMAIN params \ bad : n.name = params[i]  BY DEF Sym
  <2>3. \A n \in N : \A d \in decls : d.name = n.name => d.scope \notin Search(root, ctx, st)
    <3> SUFFICES ASSUME NEW n \in N
                 PROVE  \A d \in decls : d.name = n.name => d.scope \notin Search(root, ctx, st)
      OBVIOUS
    <3>1. PICK i \in DOMAIN params \ bad : n.name = params[i]  BY <2>2
    <3>2. ~Declared(st, n.name, "param")  BY <3>1
    <3> HIDE DEF N
    <3> QED  BY <3>2, Fresh
  <2>4. st \in 1 .. Len(root)  BY DEF ScopeInv, Shape, ScopesOK
  <2> HIDE DEF N
  <2> QED  BY <2>1, <2>3, <2>4 DEF Added
<1> HIDE DEF N, bad
<1> QED  BY <1>1, <1>2, <1>3, CloseInv

(* The brace that ends a namespace: its name is declared now, around it. *)
LEMMA CloseNamespaceInv ==
  ASSUME ScopeInv, CloseNamespace
  PROVE  ScopeInv'
<1> DEFINE n == stmts[Last].vars[1]
           N == {Sym(root[st], n, "np", st, Last)}
<1>1. CASE Declared(root[st], n, "np")  BY <1>1, ThrowInv DEF CloseNamespace
<1>2. CASE ~Declared(root[st], n, "np")
  <2>1. /\ Reading /\ open # <<>> /\ decls' = decls \cup N /\ erred' = erred
        /\ stmts' = Closed(0) /\ Leave /\ phase' = phase
    BY <1>2 DEF CloseNamespace
  <2>2. erred' \in BOOLEAN  BY <2>1 DEF ScopeInv, Passed
  <2>3. Added(N, decls, root, ctx, root[st], "np", Last)
    <3>1. \A m \in N : m.scope = root[st] /\ m.ictx = "np" /\ m.pos = Last /\ m.name = n
      BY DEF Sym
    <3>2. \A d \in decls : d.name = n => d.scope \notin Search(root, ctx, root[st])
      BY <1>2, Fresh
    <3>3. root[st] \in 1 .. Len(root)  BY <2>1, LastOpen
    <3> HIDE DEF N, n
    <3> QED  BY <3>1, <3>2, <3>3 DEF Added
  <2> HIDE DEF N
  <2> QED  BY <2>1, <2>2, <2>3, CloseInv
<1> QED  BY <1>1, <1>2

(* The brace that ends a for statement: its variable is declared now. *)
LEMMA CloseForInv ==
  ASSUME ScopeInv, CloseFor
  PROVE  ScopeInv'
<1> DEFINE v == stmts[Last].vars
           X == IF ctx[root[st]] \in {"GLOBAL", "NAMESPACE"} THEN "global" ELSE "local"
           N == {Sym(st, v[i], X, 0, Last) : i \in DOMAIN v}
<1>0. Reading /\ open # <<>> /\ stmts[Last].k = "for"  BY DEF CloseFor
<1>1. CASE v # <<>> /\ Declared(st, v[1], X)  BY <1>1, ThrowInv DEF CloseFor
<1>2. CASE ~(v # <<>> /\ Declared(st, v[1], X))
  <2>1. /\ decls' = decls \cup N /\ erred' = erred
        /\ stmts' = Closed(0) /\ Leave /\ phase' = phase
    BY <1>2 DEF CloseFor
  <2>2. erred' \in BOOLEAN  BY <2>1 DEF ScopeInv, Passed
  <2>3. Added(N, decls, root, ctx, st, X, Last)
    <3>1. \A m \in N : m.scope = st /\ m.ictx = X /\ m.pos = Last  BY DEF Sym
    <3>2. /\ Last \in Bodies(stmts) /\ Last \in 1 .. Len(stmts) /\ stmts[Last].body = st
          /\ st \in 2 .. Len(root)
      BY <1>0, LastOpen
    <3>3. X = "global" => GlobalPlace(root, ctx, st)
      <4>1. BodiesOK(root, ctx, stmts) /\ "for" \in Loops  BY DEF ScopeInv, Shape, Loops
      <4>2. ctx[st] = "LOOP"  BY <1>0, <3>2, <4>1 DEF BodiesOK
      <4> QED  BY <4>2 DEF GlobalPlace, OuterCtx
    <3>4. ASSUME NEW m \in N, NEW d \in decls, d.name = m.name
          PROVE  IF X = "global" THEN st \notin Up(root, d.scope)
                                 ELSE d.scope \notin Search(root, ctx, st)
      <4>1. v # <<>> /\ m.name = v[1]
        <5>1. PICK i \in DOMAIN v : m.name = v[i]  BY DEF Sym
        <5>2. DOMAIN v \subseteq {1}  BY <1>0, <3>2 DEF ScopeInv, Shape, ChainsOK, ChainOK
        <5>3. v # <<>>  BY <5>1
        <5> QED  BY <5>1, <5>2, <5>3
      <4>2. ~Declared(st, v[1], X)  BY <1>2, <4>1
      <4> HIDE DEF N, v, X
      <4> QED  BY <3>4, <4>1, <4>2, Fresh
    <3>5. st \in 1 .. Len(root)  BY DEF ScopeInv, Shape, ScopesOK
    <3> HIDE DEF N, v, X
    <3> QED  BY <3>1, <3>3, <3>4, <3>5 DEF Added
  <2> HIDE DEF N, v, X
  <2> QED  BY <1>0, <2>1, <2>2, <2>3, CloseInv
<1> QED  BY <1>1, <1>2

(* Every step of the parser. *)
LEMMA ParseInv == ScopeInv /\ Parse => ScopeInv'
<1> SUFFICES ASSUME ScopeInv, Parse PROVE ScopeInv'  OBVIOUS
<1>0. Exprs \subseteq Texts /\ <<>> \in Texts  BY DEF Texts
<1>k. {"namespace", "if", "while", "do", "for"} \subseteq Compound
  BY DEF Compound, Branches, Loops
<1>1. ASSUME NEW x \in Lets, NEW form \in LetForms, ParseLet(x, form) PROVE ScopeInv'
  BY <1>1, LetInv
<1>2. ASSUME NEW t \in Types, NEW es \in SUBSET Enums, ParseType(t, es) PROVE ScopeInv'
  BY <1>2, TypeInv
<1>3. ASSUME NEW e \in Exprs, ParsePlain("expr", e, FALSE) \/ ParsePlain("return", e, TRUE)
      PROVE  ScopeInv'
  <2>1. CASE ParsePlain("expr", e, FALSE)  BY <2>1, PlainInv
  <2>2. CASE ParsePlain("return", e, TRUE)  BY <2>2, PlainInv
  <2> QED  BY <1>3, <2>1, <2>2
<1>4. CASE ParsePlain("return", <<>>, FALSE)  BY <1>4, PlainInv
<1>5. ASSUME NEW k \in {"break", "continue", "goto"}, ParsePlain(k, <<>>, FALSE)
      PROVE  ScopeInv'
  BY <1>5, PlainInv
<1>6. ASSUME NEW f \in Fns, NEW head \in Heads, ParseFn(f, head) PROVE ScopeInv'
  BY <1>6, FnInv
<1>7. ASSUME NEW f \in Fns, NEW p \in BOOLEAN, ParseExtFn(f, p) PROVE ScopeInv'
  BY <1>7, ExtFnInv
<1>8. ASSUME NEW n \in Spaces, ParseNamespace(n) PROVE ScopeInv'
  <2> DEFINE x == [Stmt("namespace", <<>>) EXCEPT !.vars = <<n>>]
  <2>1. Reading /\ Enter(x, "NAMESPACE") /\ decls' = decls  BY <1>8 DEF ParseNamespace, More
  <2>2. /\ Stmt("namespace", <<>>) \in Statements /\ Stmt("namespace", <<>>).k = "namespace"
        /\ Stmt("namespace", <<>>).st = st /\ Stmt("namespace", <<>>).end = Here
        /\ Stmt("namespace", <<>>).chain = Here
    BY <1>0, <1>k, StmtIs
  <2>3. /\ x \in Statements /\ x.k = "namespace" /\ x.st = st /\ x.end = Here
        /\ x.chain = Here
    BY <2>2 DEF Statements
  <2>4. BlockCtx("namespace", "NAMESPACE")  BY DEF BlockCtx
  <2> HIDE DEF x
  <2> QED  BY <2>1, <2>3, <2>4, BlockInv
<1>9. ASSUME NEW k \in {"if", "while", "do"}, NEW c, Reading, BlockCtx(k, c),
             NEW u \in Texts, Enter(Stmt(k, u), c), decls' = decls
      PROVE  ScopeInv'
  <2>1. /\ Stmt(k, u) \in Statements /\ Stmt(k, u).k = k
        /\ Stmt(k, u).st = st /\ Stmt(k, u).end = Here /\ Stmt(k, u).chain = Here
    BY <1>k, StmtIs
  <2> QED  BY <1>9, <2>1, BlockInv
<1>10. ASSUME NEW e \in Exprs,
              ParseIf(e) \/ ParseWhile(e) \/ CloseDo(e) \/ NextBranch("elif", e)
       PROVE  ScopeInv'
  <2>0. BlockCtx("if", "IF") /\ BlockCtx("while", "LOOP")  BY DEF BlockCtx, Loops
  <2>1. CASE ParseIf(e)  BY <1>0, <1>9, <2>0, <2>1 DEF ParseIf, More
  <2>2. CASE ParseWhile(e)  BY <1>0, <1>9, <2>0, <2>2 DEF ParseWhile, More
  <2>3. CASE CloseDo(e)  BY <2>3, CloseDoInv
  <2>4. CASE NextBranch("elif", e)  BY <2>4, NextBranchInv
  <2> QED  BY <1>10, <2>1, <2>2, <2>3, <2>4
<1>11. ASSUME NEW vs, NEW i \in Texts, NEW e \in Exprs, vs \in {<<>>} \cup {<<x>> : x \in Lets},
              ParseFor(vs, i, e)
       PROVE  ScopeInv'
  <2> DEFINE x == [Stmt("for", e) EXCEPT !.vars = vs, !.init = i]
  <2>1. Reading /\ Enter(x, "LOOP") /\ decls' = decls  BY <1>11 DEF ParseFor, More
  <2>2. /\ Stmt("for", e) \in Statements /\ Stmt("for", e).k = "for"
        /\ Stmt("for", e).st = st /\ Stmt("for", e).end = Here /\ Stmt("for", e).chain = Here
    BY <1>0, <1>k, StmtIs
  <2>3. /\ x \in Statements /\ x.k = "for" /\ x.st = st /\ x.end = Here /\ x.chain = Here
        /\ x.vars = vs
    <3>1. vs \in {<<>>} \cup {head.params : head \in Heads} \cup {<<y>> : y \in Spaces \cup Lets}
      BY <1>11
    <3> QED  BY <2>2, <3>1 DEF Statements
  <2>4. DOMAIN vs \subseteq {1}  BY <1>11
  <2>5. BlockCtx("for", "LOOP")  BY DEF BlockCtx, Loops
  <2> HIDE DEF x
  <2> QED  BY <2>1, <2>3, <2>4, <2>5, BlockInv
<1>12. ASSUME NEW x \in Lets, NEW e \in Exprs, ParseFor(<<x>>, <<>>, e) \/ ParseFor(<<>>, e, e)
       PROVE  ScopeInv'
  <2>1. CASE ParseFor(<<x>>, <<>>, e)  BY <1>0, <1>11, <2>1
  <2>2. CASE ParseFor(<<>>, e, e)  BY <1>0, <1>11, <2>2
  <2> QED  BY <1>12, <2>1, <2>2
<1>13. CASE NextBranch("else", <<>>)  BY <1>13, NextBranchInv
<1>14. CASE ParseDo
  <2>1. BlockCtx("do", "LOOP")  BY DEF BlockCtx, Loops
  <2> QED  BY <1>0, <1>9, <1>14, <2>1 DEF ParseDo, More
<1>15. CASE CloseFn  BY <1>15, CloseFnInv
<1>16. CASE CloseNamespace  BY <1>16, CloseNamespaceInv
<1>17. CASE CloseFor  BY <1>17, CloseForInv
<1>18. CASE CloseBody
  <2>1. /\ Reading /\ open # <<>> /\ stmts' = Closed(0) /\ Leave /\ decls' = decls \cup {}
        /\ phase' = phase /\ erred' = erred
    BY <1>18 DEF CloseBody
  <2>2. st \in 1 .. Len(root) /\ erred \in BOOLEAN
    BY DEF ScopeInv, Shape, ScopesOK, Passed
  <2>3. Added({}, decls, root, ctx, st, "none", Last)  BY <2>2, AddNothing
  <2> QED  BY <2>1, <2>2, <2>3, CloseInv
<1>19. CASE SyntaxError  BY <1>19, ThrowInv DEF SyntaxError
<1>20. CASE ParseEnd
  <2>1. CASE erred  BY <1>20, <2>1, ThrowInv DEF ParseEnd
  <2>2. CASE ~erred
    <3>1. /\ phase = "parse" /\ open = <<>> /\ phase' = "resolve" /\ root' = root /\ ctx' = ctx
          /\ decls' = decls /\ st' = st /\ stmts' = stmts /\ open' = open /\ erred' = erred
          /\ at' = at /\ gen' = gen
      BY <1>20, <2>2 DEF ParseEnd, Reading, Tables
    <3>2. at = 1 /\ gen = {} /\ erred \in BOOLEAN  BY <3>1 DEF ScopeInv, Passed
    <3>3. ResolvedUpTo(at - 1)'
      <4>1. 1 .. at' - 1 = {}  BY <3>1, <3>2
      <4> QED  BY <4>1 DEF ResolvedUpTo
    <3>4. Passed'  BY <3>1, <3>2, <3>3 DEF Passed
    <3>5. Shape(root', ctx', stmts', st', open') /\ Names(decls', root', ctx', stmts')
      BY <3>1 DEF ScopeInv
    <3> QED  BY <3>4, <3>5 DEF ScopeInv
  <2> QED  BY <2>1, <2>2
<1> QED
  BY <1>1, <1>2, <1>3, <1>4, <1>5, <1>6, <1>7, <1>8, <1>10, <1>12, <1>13, <1>14, <1>15, <1>16,
     <1>17, <1>18, <1>19, <1>20 DEF Parse

(* The verdict of the resolver depends on the tables and statements only.   *)
LEMMA ResolveSame ==
  ASSUME UNCHANGED <<Tables, stmts>>
  PROVE  \A s : ResolveStmt(s)' = ResolveStmt(s)
BY DEF ResolveStmt, ResolveReturn, Tables, Integral, Ident, Get, Searched, Outwards, ResolveLet,
       ResolveFor, HasType, HasCtx, CanFold, ResolveExpr, ResolveFn, AtOuter

(* So does what was resolved so far. *)
LEMMA ResolvedSame ==
  ASSUME UNCHANGED <<Tables, stmts>>
  PROVE  \A n : ResolvedUpTo(n)' = ResolvedUpTo(n)
BY ResolveSame DEF ResolvedUpTo, Tables

(* The greatest of a nonempty set of bounded numbers. *)
LEMMA MaxIs ==
  ASSUME NEW n \in Nat, NEW S \in SUBSET (0 .. n), S # {}
  PROVE  Max(S) \in S /\ \A i \in S : i =< Max(S)
<1>1. PICK m \in S : \A i \in S : i =< m  BY Greatest
<1>2. \E x \in S : \A i \in S : x >= i  BY <1>1
<1>3. Max(S) \in S /\ \A i \in S : Max(S) >= i  BY <1>2 DEF Max
<1> QED  BY <1>3

(* The text begins with a statement of the global scope. *)
LEMMA FirstIsTop ==
  ASSUME ScopeInv, Len(stmts) >= 1
  PROVE  stmts[1].st = 1 /\ stmts[1].chain = 1
<1>0. /\ BodiesOK(root, ctx, stmts) /\ TextsOK(root, stmts, st) /\ ChainsOK(stmts) /\ Tree(root)
      /\ stmts \in Seq(Statements) /\ Len(root) \in Nat
  BY DEF ScopeInv, Shape, ChainsOK, ScopesOK, Tree
<1>1. 1 \in 1 .. Len(stmts)  BY <1>0
<1>2. stmts[1].chain = 1
  <2>1. ChainOK(stmts, 1)  BY <1>0, <1>1 DEF ChainsOK
  <2> QED  BY <2>1 DEF ChainOK
<1>3. stmts[1].st = 1
  <2> SUFFICES ASSUME stmts[1].st # 1 PROVE FALSE  OBVIOUS
  <2>1. stmts[1].st \in 1 .. Len(root)  BY <1>0, <1>1 DEF BodiesOK
  <2>2. stmts[1].st \in 2 .. Len(root)  BY <1>0, <2>1
  <2>3. PICK i \in Bodies(stmts) : stmts[i].body = stmts[1].st  BY <1>0, <2>2 DEF BodiesOK
  <2>4. Within(root, stmts, i, stmts[1].st)  BY <1>0, <2>1, <2>3, UpBound DEF Within
  <2>5. i < 1 /\ i \in 1 .. Len(stmts)  BY <1>0, <1>1, <2>4 DEF TextsOK, TextOK, Bodies
  <2> QED  BY <1>0, <2>5
<1> QED  BY <1>2, <1>3

(* A step of the second pass. *)
LEMMA Pass2Inv == ScopeInv /\ Pass2 => ScopeInv'
<1> SUFFICES ASSUME ScopeInv, Pass2 PROVE ScopeInv'  OBVIOUS
<1> DEFINE ok == ResolveStmt(stmts[at])
<1>1. /\ phase = "resolve" /\ at =< Len(stmts) /\ stmts[at].k # "goto"
      /\ at' = GoOn(ok) /\ erred' = (erred \/ ~ok)
      /\ gen' = IF ~erred' /\ at' > stmts[Top].end THEN gen \cup {Top} ELSE gen
      /\ UNCHANGED <<Tables, stmts>>
      /\ root' = root /\ ctx' = ctx /\ decls' = decls /\ stmts' = stmts /\ st' = st
      /\ open' = open /\ phase' = phase
  BY DEF Pass2, Tables
<1>2. /\ stmts \in Seq(Statements) /\ Len(stmts) \in Nat /\ at \in 1 .. Len(stmts)
      /\ erred \in BOOLEAN /\ open = <<>> /\ (~erred => ResolvedUpTo(at - 1))
  BY <1>1 DEF ScopeInv, Shape, ChainsOK, Passed
<1>3. at' \in Nat \ {0}
  <2>1. stmts[at].end \in Nat  BY <1>2, Fields
  <2> QED  BY <1>1, <1>2, <2>1 DEF GoOn
<1>4. erred' \in BOOLEAN  BY <1>1
<1>5. ASSUME ~erred' PROVE at' = at + 1 /\ ResolvedUpTo(at)
  <2>1. ~erred /\ ok  BY <1>1, <1>5
  <2>2. at' = at + 1  BY <1>1, <2>1 DEF GoOn
  <2>3. ASSUME NEW j \in 1 .. at
        PROVE  j =< Len(stmts) /\ stmts[j].k # "goto" /\ ResolveStmt(stmts[j])
    <3>1. CASE j = at  BY <1>1, <2>1, <3>1
    <3>2. CASE j \in 1 .. at - 1  BY <1>2, <2>1, <3>2 DEF ResolvedUpTo
    <3> QED  BY <1>2, <3>1, <3>2
  <2> QED  BY <2>2, <2>3 DEF ResolvedUpTo
<1>6. ~erred' => ResolvedUpTo(at - 1)'
  <2> SUFFICES ASSUME ~erred' PROVE ResolvedUpTo(at - 1)'  OBVIOUS
  <2>1. at' - 1 = at  BY <1>2, <1>5
  <2>2. ResolvedUpTo(at)  BY <1>5
  <2>3. \A n : ResolvedUpTo(n)' = ResolvedUpTo(n)  BY <1>1, ResolvedSame
  <2> QED  BY <2>1, <2>2, <2>3
<1>7. ASSUME NEW t \in gen'
      PROVE  /\ t \in 1 .. Len(stmts) /\ stmts[t].st = 1 /\ stmts[t].chain = t
             /\ ResolvedUpTo(stmts[t].end)
  <2>1. CASE t \in gen  BY <2>1 DEF ScopeInv, Passed
  <2>2. CASE t \notin gen
    <3>1. ~erred' /\ at' > stmts[Top].end /\ t = Top  BY <1>1, <1>7, <2>2
    <3> DEFINE S == {i \in 1 .. at : stmts[i].st = 1 /\ stmts[i].chain = i}
    <3>2. S \in SUBSET (0 .. at) /\ at \in Nat  BY <1>2
    <3>3. 1 \in S  BY <1>2, FirstIsTop
    <3>4. Top = Max(S)  BY DEF Top
    <3>5. Top \in S
      <4> HIDE DEF S
      <4> QED  BY <3>2, <3>3, <3>4, MaxIs
    <3>6. Top \in 1 .. Len(stmts)  BY <1>2, <3>5
    <3>7. stmts[Top].end \in Nat  BY <1>2, <3>6, Fields
    <3>8. stmts[Top].end =< at  BY <1>2, <1>5, <3>1, <3>7
    <3>9. ResolvedUpTo(stmts[Top].end)
      <4>1. \A j \in 1 .. stmts[Top].end : j \in 1 .. at  BY <1>2, <3>7, <3>8
      <4> QED  BY <1>5, <3>1, <4>1 DEF ResolvedUpTo
    <3> QED  BY <3>1, <3>5, <3>6, <3>9
  <2> QED  BY <2>1, <2>2
<1>8. Passed'
  <2>1. \A n : ResolvedUpTo(n)' = ResolvedUpTo(n)  BY <1>1, ResolvedSame
  <2>2. \A t \in gen' : /\ t \in 1 .. Len(stmts') /\ stmts'[t].st = 1 /\ stmts'[t].chain = t
                        /\ ResolvedUpTo(stmts[t].end)'
    BY <1>1, <1>7, <2>1
  <2> QED  BY <1>1, <1>2, <1>3, <1>4, <1>6, <2>2 DEF Passed
<1>9. Shape(root', ctx', stmts', st', open') /\ Names(decls', root', ctx', stmts')
  BY <1>1 DEF ScopeInv
<1> QED  BY <1>8, <1>9 DEF ScopeInv

(* A step that leaves all but the phase. *)
LEMMA SameInv ==
  ASSUME ScopeInv, UNCHANGED <<Tables, st, stmts, open, erred, at, gen>>,
         phase' = phase \/ (phase = "resolve" /\ phase' = "done")
  PROVE  ScopeInv'
<1>1. /\ root' = root /\ ctx' = ctx /\ decls' = decls /\ stmts' = stmts /\ st' = st
      /\ open' = open /\ erred' = erred /\ at' = at /\ gen' = gen /\ UNCHANGED <<Tables, stmts>>
  BY DEF Tables
<1>2. Shape(root', ctx', stmts', st', open') /\ Names(decls', root', ctx', stmts')
  BY <1>1 DEF ScopeInv
<1>3. \A n : ResolvedUpTo(n)' = ResolvedUpTo(n)  BY <1>1, ResolvedSame
<1>4. Passed  BY DEF ScopeInv
<1>5. Passed'
  <2>1. \A t \in gen' : /\ t \in 1 .. Len(stmts') /\ stmts'[t].st = 1 /\ stmts'[t].chain = t
                        /\ ResolvedUpTo(stmts[t].end)'
    BY <1>1, <1>3, <1>4 DEF Passed
  <2>2. ResolvedUpTo(at - 1)' = ResolvedUpTo(at - 1)  BY <1>1, <1>3
  <2> QED  BY <1>1, <1>4, <2>1, <2>2 DEF Passed
<1> QED  BY <1>2, <1>5 DEF ScopeInv

(* The parser and both passes keep the invariant. *)
LEMMA ScopeStep == ScopeInv /\ [Next]_vars => ScopeInv'
<1> SUFFICES ASSUME ScopeInv, [Next]_vars PROVE ScopeInv'  OBVIOUS
<1>1. CASE Parse  BY <1>1, ParseInv
<1>2. CASE Pass2  BY <1>2, Pass2Inv
<1>3. CASE Pass2Goto  BY <1>3, ThrowInv DEF Pass2Goto
<1>4. CASE Pass2End  BY <1>4, ThrowInv, SameInv DEF Pass2End
<1>5. CASE UNCHANGED vars  BY <1>5, SameInv DEF vars, Tables
<1> QED  BY <1>1, <1>2, <1>3, <1>4, <1>5 DEF Next, Finished

(* The invariant holds at the start. *)
LEMMA ScopeStart == Init => ScopeInv
<1> SUFFICES ASSUME Init PROVE ScopeInv  OBVIOUS
<1>1. Shape(root, ctx, stmts, st, open)  BY EmptyShape DEF Init
<1>2. Names(decls, root, ctx, stmts)  BY DEF Init, Names
<1>3. Passed
  <2>1. phase = "parse" /\ erred = FALSE /\ at = 1 /\ gen = {}  BY DEF Init
  <2>2. at \in Nat \ {0}  BY <2>1
  <2>3. erred \in BOOLEAN  BY <2>1
  <2> QED  BY <2>1, <2>2, <2>3 DEF Passed
<1> QED  BY <1>1, <1>2, <1>3 DEF ScopeInv

(* Scopes, statements, names and the passes are in order at every moment.   *)
THEOREM ScopeCorrect == Spec => []ScopeInv
<1>1. Init => ScopeInv  BY ScopeStart
<1>2. ScopeInv /\ [Next]_vars => ScopeInv'  BY ScopeStep
<1> QED  BY <1>1, <1>2, PTL DEF Spec

-----------------------------------------------------------------------------
(* What the invariant says of a program that code is generated for.         *)

(* What the resolver found out about a statement. *)
LEMMA Verdict ==
  ASSUME NEW s, ResolveStmt(s)
  PROVE  /\ s.k \in {"fn", "namespace"} => AtOuter(s)
         /\ s.k \in {"break", "continue"} => HasCtx(s.st, "LOOP")
         /\ s.k \in {"if", "while", "do", "for"} => HasCtx(s.st, "FN")
         /\ s.k = "return" => ResolveReturn(s)
<1>1. ASSUME s.k \in {"fn", "namespace"} PROVE AtOuter(s)
  BY <1>1 DEF ResolveStmt, ResolveFn
<1>2. ASSUME s.k \in {"break", "continue"} PROVE HasCtx(s.st, "LOOP")  BY <1>2 DEF ResolveStmt
<1>3. ASSUME s.k \in {"if", "while", "do", "for"} PROVE HasCtx(s.st, "FN")
  BY <1>3 DEF ResolveStmt, ResolveFor
<1>4. ASSUME s.k = "return" PROVE ResolveReturn(s)  BY <1>4 DEF ResolveStmt
<1> QED  BY <1>1, <1>2, <1>3, <1>4

(* One step inwards from a walk through t that does not start at t. *)
LEMMA UpStep ==
  ASSUME NEW r, Tree(r), NEW u \in 1 .. Len(r), NEW t \in Up(r, u), t # u
  PROVE  r[u] \in 1 .. u - 1 /\ r[u] \in 1 .. Len(r) /\ t \in Up(r, r[u])
<1>0. Len(r) \in Nat /\ r[u] \in 0 .. u - 1  BY DEF Tree
<1>1. Up(r, u) = {u} \cup (IF r[u] = 0 THEN {} ELSE Up(r, r[u]))  BY UpDef
<1>2. r[u] # 0 /\ t \in Up(r, r[u])  BY <1>1
<1> QED  BY <1>0, <1>2

(* A scope but the global one, and the statement whose body it is. *)
LEMMA OwnerOf ==
  ASSUME ScopeInv, NEW u \in 1 .. Len(root), ctx[u] # "GLOBAL"
  PROVE  \E j \in Bodies(stmts) :
           /\ stmts[j].body = u /\ j \in 1 .. Len(stmts) /\ stmts[j].st = root[u]
           /\ ctx[u] = "FN" <=> stmts[j].k = "fn"
           /\ ctx[u] = "NAMESPACE" <=> stmts[j].k = "namespace"
           /\ ctx[u] = "LOOP" <=> stmts[j].k \in Loops
<1>0. ScopesOK(root, ctx, st) /\ BodiesOK(root, ctx, stmts) /\ Len(root) \in Nat
  BY DEF ScopeInv, Shape, ScopesOK, Tree
<1>1. u # 1  BY <1>0 DEF ScopesOK
<1>2. u \in 2 .. Len(root)  BY <1>0, <1>1
<1>3. PICK j \in Bodies(stmts) : stmts[j].body = u  BY <1>0, <1>2 DEF BodiesOK
<1>4. j \in 1 .. Len(stmts)  BY DEF Bodies
<1> QED  BY <1>0, <1>3, <1>4 DEF BodiesOK

(* A function whose text is behind the second pass without an error. *)
PassedFn(i) ==
  i \in 1 .. Len(stmts) /\ stmts[i].k = "fn" /\ ResolvedUpTo(stmts[i].end) /\ open = <<>>

(* The body of such a function, and where its text is. *)
LEMMA FnBody ==
  ASSUME ScopeInv, NEW i, PassedFn(i)
  PROVE  /\ i \in Bodies(stmts) /\ stmts[i].body \in 2 .. Len(root)
         /\ stmts[i].body \in 1 .. Len(root) /\ ctx[stmts[i].body] = "FN"
         /\ root[stmts[i].body] = stmts[i].st /\ stmts[i].st \in 1 .. Len(root)
         /\ \A j \in 1 .. Len(stmts) :
              Within(root, stmts, i, stmts[j].st) <=> (i < j /\ j =< stmts[i].end)
<1>0. /\ BodiesOK(root, ctx, stmts) /\ OpenOK(stmts, st, open) /\ TextsOK(root, stmts, st)
      /\ Tree(root) /\ Len(root) \in Nat /\ i \in 1 .. Len(stmts) /\ stmts[i].k = "fn"
      /\ open = <<>> /\ st \in 1 .. Len(root)
  BY DEF ScopeInv, Shape, ScopesOK, Tree, PassedFn
<1>1. i \in Bodies(stmts)  BY <1>0 DEF BodiesOK, Bodies, Compound
<1>2. stmts[i].body \in 2 .. Len(root)  BY <1>0, <1>1 DEF BodiesOK
<1>3. st = 1  BY <1>0 DEF OpenOK
<1>4. ~Within(root, stmts, i, st)
  <2>1. Up(root, st) \subseteq 1 .. st  BY <1>0, UpBound
  <2> QED  BY <1>0, <1>2, <1>3, <2>1 DEF Within
<1>5. \A j \in 1 .. Len(stmts) :
        Within(root, stmts, i, stmts[j].st) <=> (i < j /\ j =< stmts[i].end)
  <2> SUFFICES ASSUME NEW j \in 1 .. Len(stmts)
               PROVE  Within(root, stmts, i, stmts[j].st) <=> (i < j /\ j =< stmts[i].end)
    OBVIOUS
  <2>1. TextOK(root, stmts, st, i, j)  BY <1>0, <1>1 DEF TextsOK
  <2>2. stmts[i].k \notin Branches  BY <1>0 DEF Branches
  <2> QED  BY <1>0, <1>4, <2>1, <2>2 DEF TextOK
<1>6. stmts[i].body \in 1 .. Len(root) /\ stmts[i].st \in 1 .. Len(root)
  BY <1>0, <1>2 DEF BodiesOK
<1> QED  BY <1>0, <1>1, <1>2, <1>5, <1>6 DEF BodiesOK

(* Inside its body there is no function, namespace or file. *)
LEMMA InsideFn ==
  ASSUME ScopeInv, NEW i, PassedFn(i)
  PROVE  \A u \in 1 .. Len(root) :
           Within(root, stmts, i, u) /\ u # stmts[i].body =>
             ctx[u] \notin {"GLOBAL", "NAMESPACE", "FN"}
<1> DEFINE b == stmts[i].body
           G == {u \in 1 .. Len(root) : b \in Up(root, u) /\ u # b =>
                   ctx[u] \notin {"GLOBAL", "NAMESPACE", "FN"}}
<1>0. ScopesOK(root, ctx, st) /\ Tree(root) /\ Len(root) \in Nat /\ stmts \in Seq(Statements)
  BY DEF ScopeInv, Shape, ScopesOK, Tree, ChainsOK
<1>1. b \in 2 .. Len(root) /\ ctx[b] = "FN"  BY FnBody
<1>2. \A u \in 1 .. Len(root) : (root[u] = 0 \/ root[u] \in G) => u \in G
  <2> SUFFICES ASSUME NEW u \in 1 .. Len(root), root[u] = 0 \/ root[u] \in G,
                      b \in Up(root, u), u # b
               PROVE  ctx[u] \notin {"GLOBAL", "NAMESPACE", "FN"}
    OBVIOUS
  <2> HIDE DEF b
  <2>1. root[u] \in 1 .. Len(root) /\ b \in Up(root, root[u]) /\ root[u] \in 1 .. u - 1
    BY <1>0, UpStep
  <2>2. u # 1  BY <1>0, <2>1
  <2>3. ctx[u] # "GLOBAL"  BY <1>0, <2>2 DEF ScopesOK
  <2>4. root[u] # b => ctx[root[u]] \notin {"GLOBAL", "NAMESPACE", "FN"}  BY <1>0, <2>1
  <2>5. ctx[root[u]] \notin {"GLOBAL", "NAMESPACE"}  BY <1>1, <2>4
  <2>6. PICK j \in 1 .. Len(stmts) :
          /\ stmts[j].st = root[u]
          /\ ctx[u] = "FN" <=> stmts[j].k = "fn"
          /\ ctx[u] = "NAMESPACE" <=> stmts[j].k = "namespace"
    BY <2>3, OwnerOf
  <2>7. j =< stmts[i].end
    <3>1. Within(root, stmts, i, stmts[j].st)  BY <2>1, <2>6 DEF Within, b
    <3> QED  BY <3>1, FnBody
  <2>8. ResolveStmt(stmts[j])
    <3>1. stmts[i].end \in Nat  BY <1>0, Fields DEF PassedFn
    <3>2. j \in 1 .. stmts[i].end  BY <1>0, <2>7, <3>1
    <3> QED  BY <3>2 DEF PassedFn, ResolvedUpTo
  <2>9. stmts[j].k \notin {"fn", "namespace"}
    <3>1. ~AtOuter(stmts[j])  BY <2>5, <2>6 DEF AtOuter
    <3> QED  BY <2>8, <3>1, Verdict
  <2> QED  BY <2>3, <2>6, <2>9
<1>3. \A u \in 1 .. Len(root) : u \in G
  <2> HIDE DEF G
  <2> QED  BY <1>0, <1>2, TreeInduction
<1> QED  BY <1>3 DEF Within

(* Each statement in the text of such a function is inside its body, in no  *)
(* outer scope, and was resolved.                                           *)
LEMMA FnText ==
  ASSUME ScopeInv, NEW i, PassedFn(i), NEW j \in 1 .. Len(stmts), i < j, j =< stmts[i].end
  PROVE  /\ stmts[j].st \in 1 .. Len(root) /\ stmts[i].body \in Up(root, stmts[j].st)
         /\ ctx[stmts[j].st] \notin {"GLOBAL", "NAMESPACE"}
         /\ ResolveStmt(stmts[j]) /\ stmts[j].k \notin {"fn", "namespace"}
<1>0. stmts \in Seq(Statements) /\ BodiesOK(root, ctx, stmts)
  BY DEF ScopeInv, Shape, ChainsOK
<1>1. stmts[j].st \in 1 .. Len(root)  BY <1>0 DEF BodiesOK
<1>2. Within(root, stmts, i, stmts[j].st)  BY FnBody
<1>3. ctx[stmts[j].st] \notin {"GLOBAL", "NAMESPACE"}
  <2>1. CASE stmts[j].st = stmts[i].body  BY <2>1, FnBody
  <2>2. CASE stmts[j].st # stmts[i].body  BY <1>1, <1>2, <2>2, InsideFn
  <2> QED  BY <2>1, <2>2
<1>4. ResolveStmt(stmts[j])
  <2>1. stmts[i].end \in Nat  BY <1>0, Fields DEF PassedFn
  <2>2. j \in 1 .. stmts[i].end  BY <1>0, <2>1
  <2> QED  BY <2>2 DEF PassedFn, ResolvedUpTo
<1>5. stmts[j].k \notin {"fn", "namespace"}
  <2>1. ~AtOuter(stmts[j])  BY <1>3 DEF AtOuter
  <2> QED  BY <1>4, <2>1, Verdict
<1> QED  BY <1>1, <1>2, <1>3, <1>4, <1>5 DEF Within

(* A function that code is generated for, at the top or in a namespace, is  *)
(* behind the second pass with all of its text.                             *)
LEMMA GenFnPassed ==
  ASSUME ScopeInv, NEW i \in GenFns
  PROVE  PassedFn(i)
<1>0. /\ stmts \in Seq(Statements) /\ Len(stmts) \in Nat /\ ChainsOK(stmts) /\ Tree(root)
      /\ BodiesOK(root, ctx, stmts) /\ TextsOK(root, stmts, st) /\ OpenOK(stmts, st, open)
      /\ ScopesOK(root, ctx, st) /\ Passed /\ Len(root) \in Nat
      /\ st \in 1 .. Len(root)
  BY DEF ScopeInv, Shape, ChainsOK, ScopesOK, Tree
<1>1. PICK t \in gen : i \in t .. stmts[t].end  BY DEF GenFns
<1>2. i \in 1 .. Len(stmts) /\ stmts[i].k = "fn"  BY <1>0 DEF GenFns
<1>3. /\ t \in 1 .. Len(stmts) /\ stmts[t].st = 1 /\ stmts[t].chain = t
      /\ ResolvedUpTo(stmts[t].end)
  BY <1>0 DEF Passed
<1>4. open = <<>> /\ st = 1
  <2>1. phase \notin {"parse", "failed"}  BY <1>0 DEF Passed
  <2>2. open = <<>>  BY <1>0, <2>1 DEF Passed
  <2> QED  BY <1>0, <2>2 DEF OpenOK
<1>5. stmts[t].end \in Nat /\ stmts[i].end \in Nat /\ stmts[i].end =< Len(stmts)
  BY <1>0, <1>2, <1>3, Fields DEF ChainsOK, ChainOK
<1>6. CASE i = t  BY <1>2, <1>3, <1>4, <1>6 DEF PassedFn
<1>7. CASE i # t
  <2>1. t < i /\ i =< stmts[t].end /\ t =< stmts[t].end  BY <1>1, <1>3, <1>5, <1>7
  <2>2. ResolveStmt(stmts[t]) /\ ResolveStmt(stmts[i])
    <3>1. t \in 1 .. stmts[t].end /\ i \in 1 .. stmts[t].end  BY <1>2, <1>3, <1>5, <2>1
    <3> QED  BY <1>3, <3>1 DEF ResolvedUpTo
  <2>3. stmts[t].k # "fn"
    <3> SUFFICES ASSUME stmts[t].k = "fn" PROVE FALSE  OBVIOUS
    <3>1. PassedFn(t)  BY <1>3, <1>4 DEF PassedFn
    <3> QED  BY <1>2, <2>1, <3>1, FnText
  <2>4. ChainOK(stmts, t)  BY <1>0, <1>3 DEF ChainsOK
  <2>5. stmts[t].k \notin Plains
    <3>1. stmts[t].end # t  BY <1>2, <1>3, <1>5, <2>1
    <3> QED  BY <2>4, <3>1 DEF ChainOK
  <2>6. stmts[t].k \notin {"elif", "else", "cond"}  BY <1>3, <2>4 DEF ChainOK
  <2>7. stmts[t].k \notin {"if", "while", "do", "for"}
    <3>1. 1 \in 1 .. Len(root)  BY <1>0, <1>4
    <3>2. root[1] = 0 /\ ctx[1] = "GLOBAL"  BY <1>0, <3>1 DEF ScopesOK
    <3>3. Up(root, 1) = {1}
      <4>1. Up(root, 1) = {1} \cup (IF root[1] = 0 THEN {} ELSE Up(root, root[1]))
        BY <1>0, <3>1, UpDef
      <4> QED  BY <3>2, <4>1
    <3>4. ~HasCtx(stmts[t].st, "FN")  BY <1>3, <3>2, <3>3, WalksAre DEF HasCtx
    <3> QED  BY <2>2, <3>4, Verdict
  <2>8. stmts[t].k = "namespace"
    <3>1. stmts[t].k \in Compound \cup Plains \cup {"cond"}  BY <1>0, <1>3, Fields
    <3> QED  BY <2>3, <2>5, <2>6, <2>7, <3>1 DEF Compound, Branches, Loops
  <2>9. t \in Bodies(stmts) /\ i \in Bodies(stmts)
    BY <1>0, <1>2, <1>3, <2>8 DEF Bodies, BodiesOK, Compound
  <2>10. ~Within(root, stmts, t, st) /\ ~Within(root, stmts, i, st)
    <3>1. stmts[t].body \in 2 .. Len(root) /\ stmts[i].body \in 2 .. Len(root)
      BY <1>0, <2>9 DEF BodiesOK
    <3>2. Up(root, st) \subseteq 1 .. st  BY <1>0, UpBound
    <3> QED  BY <1>4, <3>1, <3>2 DEF Within
  <2>11. Within(root, stmts, t, stmts[i].st)
    <3>1. TextOK(root, stmts, st, t, i)  BY <1>0, <1>2, <2>9 DEF TextsOK
    <3> QED  BY <2>1, <2>8, <2>10, <3>1 DEF TextOK
  <2>12. stmts[t].body \in Up(root, stmts[i].body)
    <3>1. stmts[i].body \in 2 .. Len(root) /\ root[stmts[i].body] = stmts[i].st
          /\ stmts[i].st \in 1 .. Len(root)
      BY <1>0, <1>2, <2>9 DEF BodiesOK
    <3>2. stmts[i].body \in 1 .. Len(root) /\ stmts[i].st # 0  BY <1>0, <3>1
    <3>3. Up(root, stmts[i].body) = {stmts[i].body} \cup Up(root, stmts[i].st)
      <4>1. Up(root, stmts[i].body) = {stmts[i].body} \cup
              (IF root[stmts[i].body] = 0 THEN {} ELSE Up(root, root[stmts[i].body]))
        BY <1>0, <3>2, UpDef
      <4> QED  BY <3>1, <3>2, <4>1
    <3> QED  BY <2>11, <3>3 DEF Within
  <2>13. stmts[i].end =< stmts[t].end
    <3>1. CASE stmts[i].end =< i  BY <1>2, <1>5, <2>1, <3>1
    <3>2. CASE i < stmts[i].end
      <4> DEFINE j == stmts[i].end
      <4>1. j \in 1 .. Len(stmts)  BY <1>2, <1>5, <3>2
      <4>2. Within(root, stmts, i, stmts[j].st)
        <5>1. TextOK(root, stmts, st, i, j)  BY <1>0, <2>9, <4>1 DEF TextsOK
        <5>2. j =< stmts[i].end  BY <1>5
        <5> QED  BY <1>2, <2>10, <3>2, <5>1, <5>2 DEF TextOK
      <4>3. stmts[j].st \in 1 .. Len(root)  BY <1>0, <4>1 DEF BodiesOK
      <4>4. Within(root, stmts, t, stmts[j].st)
        BY <1>0, <2>12, <4>2, <4>3, UpTrans DEF Within
      <4>5. TextOK(root, stmts, st, t, j)  BY <1>0, <2>9, <4>1 DEF TextsOK
      <4>6. stmts[t].k \notin Branches  BY <2>8 DEF Branches
      <4> QED  BY <2>10, <4>4, <4>5, <4>6 DEF TextOK
    <3> QED  BY <1>2, <1>5, <3>1, <3>2
  <2>14. ResolvedUpTo(stmts[i].end)
    <3>1. \A j \in 1 .. stmts[i].end : j \in 1 .. stmts[t].end  BY <1>5, <2>13
    <3> QED  BY <1>3, <3>1 DEF ResolvedUpTo
  <2> QED  BY <1>2, <1>4, <2>14 DEF PassedFn
<1> QED  BY <1>6, <1>7

(* Around a resolved function there is nothing but namespaces and the file. *)
LEMMA AroundFn ==
  ASSUME ScopeInv, NEW i, PassedFn(i), i =< stmts[i].end
  PROVE  \A u \in Up(root, stmts[i].st) : ctx[u] \in {"GLOBAL", "NAMESPACE"}
<1> DEFINE s == stmts[i].st
           G == {u \in 1 .. Len(root) :
                   u \in Up(root, s) /\ ctx[u] \in {"GLOBAL", "NAMESPACE"} =>
                     \A v \in Up(root, u) : ctx[v] \in {"GLOBAL", "NAMESPACE"}}
<1>0. /\ ScopesOK(root, ctx, st) /\ Tree(root) /\ Len(root) \in Nat /\ stmts \in Seq(Statements)
      /\ TextsOK(root, stmts, st) /\ i \in 1 .. Len(stmts) /\ stmts[i].k = "fn"
  BY DEF ScopeInv, Shape, ScopesOK, Tree, ChainsOK, PassedFn
<1>1. s \in 1 .. Len(root)  BY FnBody
<1>2. ASSUME NEW j \in 1 .. i PROVE ResolveStmt(stmts[j])
  <2>1. stmts[i].end \in Nat  BY <1>0, Fields
  <2>2. j \in 1 .. stmts[i].end  BY <1>0, <2>1
  <2> QED  BY <2>2 DEF PassedFn, ResolvedUpTo
<1>3. \A u \in 1 .. Len(root) : (root[u] = 0 \/ root[u] \in G) => u \in G
  <2> SUFFICES ASSUME NEW u \in 1 .. Len(root), root[u] = 0 \/ root[u] \in G, u \in Up(root, s),
                      ctx[u] \in {"GLOBAL", "NAMESPACE"}, NEW v \in Up(root, u)
               PROVE  ctx[v] \in {"GLOBAL", "NAMESPACE"}
    OBVIOUS
  <2> HIDE DEF s
  <2>1. CASE v = u  BY <2>1
  <2>2. CASE v # u
    <3>1. root[u] \in 1 .. Len(root) /\ v \in Up(root, root[u]) /\ root[u] \in 1 .. u - 1
      BY <1>0, <2>2, UpStep
    <3>2. root[u] \in Up(root, s)
      <4>1. root[u] \in Up(root, u)
        <5>1. Up(root, u) = {u} \cup (IF root[u] = 0 THEN {} ELSE Up(root, root[u]))
          BY <1>0, UpDef
        <5>2. root[u] \in Up(root, root[u])  BY <1>0, <3>1, UpBound
        <5> QED  BY <3>1, <5>1, <5>2
      <4> QED  BY <1>0, <1>1, <4>1, UpTrans
    <3>3. u # 1  BY <1>0, <3>1
    <3>4. ctx[u] # "GLOBAL"  BY <1>0, <3>3 DEF ScopesOK
    <3>5. PICK j \in Bodies(stmts) :
            /\ stmts[j].body = u /\ j \in 1 .. Len(stmts) /\ stmts[j].st = root[u]
            /\ ctx[u] = "NAMESPACE" <=> stmts[j].k = "namespace"
      BY <3>4, OwnerOf
    <3>6. j < i
      <4>1. Within(root, stmts, j, stmts[i].st)  BY <3>5 DEF Within, s
      <4> QED  BY <1>0, <4>1 DEF TextsOK, TextOK
    <3>7. ResolveStmt(stmts[j])
      <4>1. j \in 1 .. i  BY <1>0, <3>5, <3>6
      <4> QED  BY <1>2, <4>1
    <3>8. ctx[root[u]] \in {"GLOBAL", "NAMESPACE"}
      <4>1. AtOuter(stmts[j])  BY <3>4, <3>5, <3>7, Verdict
      <4> QED  BY <3>5, <4>1 DEF AtOuter
    <3> QED  BY <1>0, <3>1, <3>2, <3>8
  <2> QED  BY <2>1, <2>2
<1>4. \A u \in 1 .. Len(root) : u \in G
  <2> HIDE DEF G
  <2> QED  BY <1>0, <1>3, TreeInduction
<1>5. ctx[s] \in {"GLOBAL", "NAMESPACE"}
  <2>1. ResolveStmt(stmts[i])  BY <1>0, <1>2
  <2> QED  BY <1>0, <2>1, Verdict DEF AtOuter
<1>6. s \in Up(root, s)  BY <1>0, <1>1, UpBound
<1> HIDE DEF s
<1> QED  BY <1>1, <1>4, <1>5, <1>6 DEF s

(* A variable of a function never hides a global variable of the file or    *)
(* namespace it is in: no order of declarations gets past nnc_st_put_sym.   *)
THEOREM ScopeGlobalsNotHidden == Spec => []GlobalsNotHidden
<1>1. ScopeInv => GlobalsNotHidden
  BY WalksAre DEF ScopeInv, Names, GlobalsNotHidden
<1> QED  BY <1>1, ScopeCorrect, PTL

(* Variables of a generated function, one in the scope of the other, have   *)
(* different names, and so different places in the frame, whenever the      *)
(* outer one is that of a let statement.                                    *)
THEOREM ScopeLetOwnSlot == Spec => []LetOwnSlot
<1>1. ScopeInv => LetOwnSlot
  <2> SUFFICES ASSUME ScopeInv, NEW i \in GenFns, NEW p \in Nested(i),
                      stmts[p[1].pos].k = "let", p[1].name = p[2].name
               PROVE  FALSE
    BY DEF LetOwnSlot
  <2> DEFINE d == p[1]  e == p[2]  b == stmts[i].body
  <2>0. /\ Tree(root) /\ Len(root) \in Nat /\ Names(decls, root, ctx, stmts)
        /\ ScopesOK(root, ctx, st)
    BY DEF ScopeInv, Shape, ScopesOK, Tree
  <2>1. PassedFn(i)  BY GenFnPassed
  <2>2. b \in 2 .. Len(root) /\ b \in 1 .. Len(root) /\ ctx[b] = "FN"  BY <2>1, FnBody
  <2>3. /\ d \in decls /\ e \in decls /\ b \in Up(root, d.scope)
        /\ d.scope \in Up(root, e.scope) /\ d.pos < e.pos
    BY WalksAre DEF Nested
  <2>a. stmts[d.pos].k = "let" /\ d.name = e.name  OBVIOUS
  <2> HIDE DEF d, e
  <2>4. d.scope \in 1 .. Len(root) /\ e.scope \in 1 .. Len(root)  BY <2>0, <2>3 DEF Names
  <2>5. b \in Up(root, e.scope)  BY <2>0, <2>3, <2>4, UpTrans
  <2>6. \A u \in 1 .. Len(root) : b \in Up(root, u) =>
          ctx[u] \notin {"GLOBAL", "NAMESPACE"}
    BY <2>1, <2>2, InsideFn DEF Within
  <2>7. d.scope \in Search(root, ctx, e.scope)
    <3> SUFFICES ASSUME NEW u \in Up(root, e.scope), u > d.scope PROVE ctx[u] # "NAMESPACE"
      BY <2>3 DEF Search
    <3>1. u \in 1 .. Len(root)
      <4>1. u \in 1 .. e.scope  BY <2>0, <2>4, UpBound
      <4> QED  BY <2>0, <2>4, <4>1
    <3>2. b =< d.scope
      <4>1. b \in 1 .. d.scope  BY <2>0, <2>3, <2>4, UpBound
      <4> QED  BY <2>4, <4>1
    <3>3. b =< u  BY <2>2, <2>4, <3>1, <3>2
    <3>4. b \in Up(root, u)  BY <2>0, <2>4, <2>5, <3>3, UpLinear
    <3> QED  BY <2>6, <3>1, <3>4
  <2>8. e.ictx = "global"  BY <2>0, <2>3, <2>7, <2>a DEF Names
  <2>9. GlobalPlace(root, ctx, e.scope)  BY <2>0, <2>3, <2>8 DEF Names
  <2>10. ctx[e.scope] \notin OuterCtx  BY <2>4, <2>5, <2>6 DEF OuterCtx
  <2>11. ctx[e.scope] = "LOOP" /\ ctx[root[e.scope]] \in OuterCtx
    BY <2>9, <2>10 DEF GlobalPlace
  <2>12. e.scope # b  BY <2>2, <2>11
  <2>13. root[e.scope] \in 1 .. Len(root) /\ b \in Up(root, root[e.scope])
    BY <2>0, <2>4, <2>5, <2>12, UpStep
  <2> QED  BY <2>6, <2>11, <2>13 DEF OuterCtx
<1> QED  BY <1>1, ScopeCorrect, PTL

(* In a function that code is generated for, each break and continue is in  *)
(* a loop of that function and each return agrees with it, although the     *)
(* resolver's searches for LOOP and FN do not stop at a function: what they *)
(* would find beyond it was refused before.                                 *)
THEOREM ScopeControlHasTarget == Spec => []ControlHasTarget
<1>1. ScopeInv => ControlHasTarget
  <2> SUFFICES ASSUME ScopeInv, NEW i \in GenFns, NEW j \in i + 1 .. stmts[i].end
               PROVE  /\ OwnFn(j) = i
                      /\ stmts[j].k \in {"break", "continue"} =>
                           \E l \in i + 1 .. j - 1 :
                             stmts[l].k \in {"for", "while", "do"} /\ Inside(j, l)
                      /\ stmts[j].k = "return" => stmts[j].value = stmts[i].value
    BY DEF ControlHasTarget
  <2> DEFINE b == stmts[i].body
  <2>0. /\ Tree(root) /\ Len(root) \in Nat /\ ScopesOK(root, ctx, st) /\ BodiesOK(root, ctx, stmts)
        /\ stmts \in Seq(Statements) /\ Len(stmts) \in Nat /\ ChainsOK(stmts)
        /\ TextsOK(root, stmts, st) /\ OpenOK(stmts, st, open) /\ st \in 1 .. Len(root)
    BY DEF ScopeInv, Shape, ScopesOK, Tree, ChainsOK
  <2>1. PassedFn(i) /\ i \in 1 .. Len(stmts) /\ stmts[i].k = "fn"
    BY GenFnPassed DEF PassedFn
  <2>2. stmts[i].end \in Nat /\ stmts[i].end =< Len(stmts)
    BY <2>0, <2>1, Fields DEF ChainsOK, ChainOK
  <2>3. j \in 1 .. Len(stmts) /\ i < j /\ j =< stmts[i].end /\ i =< stmts[i].end
    BY <2>0, <2>1, <2>2
  <2>4. /\ stmts[j].st \in 1 .. Len(root) /\ b \in Up(root, stmts[j].st)
        /\ ResolveStmt(stmts[j])
    BY <2>1, <2>3, FnText
  <2>5. /\ i \in Bodies(stmts) /\ b \in 2 .. Len(root) /\ b \in 1 .. Len(root) /\ ctx[b] = "FN"
        /\ root[b] = stmts[i].st
    BY <2>1, FnBody
  <2>6. \A t \in Up(root, stmts[j].st) : t \in 1 .. Len(root)
    <3>1. Up(root, stmts[j].st) \subseteq 1 .. stmts[j].st  BY <2>0, <2>4, UpBound
    <3> QED  BY <2>0, <2>4, <3>1
  <2>7. OwnFn(j) = i
    <3> DEFINE S == {m \in DOMAIN stmts : stmts[m].k = "fn" /\ Inside(j, m)}
    <3>1. S \in SUBSET (0 .. Len(stmts)) /\ i \in S  BY <2>0, <2>1, <2>3 DEF Inside
    <3>2. OwnFn(j) = Max(S)  BY DEF OwnFn
    <3>3. Max(S) \in S /\ i =< Max(S)
      <4> HIDE DEF S
      <4> QED  BY <2>0, <3>1, MaxIs
    <3>4. ASSUME i < Max(S) PROVE FALSE
      <4> DEFINE m == Max(S)
      <4>1. m \in 1 .. Len(stmts) /\ stmts[m].k = "fn" /\ m < j  BY <2>0, <3>3 DEF Inside
      <4> HIDE DEF m
      <4>2. m =< stmts[i].end  BY <2>2, <2>3, <4>1
      <4>3. i < m  BY <3>4 DEF m
      <4> QED  BY <2>1, <4>1, <4>2, <4>3, FnText
    <3>5. Max(S) \in Nat /\ i \in Nat  BY <2>0, <2>1, <3>3
    <3> HIDE DEF S
    <3> QED  BY <3>2, <3>3, <3>4, <3>5
  <2>8. ASSUME stmts[j].k \in {"break", "continue"}
        PROVE  \E l \in i + 1 .. j - 1 : stmts[l].k \in {"for", "while", "do"} /\ Inside(j, l)
    <3>1. HasCtx(stmts[j].st, "LOOP")  BY <2>4, <2>8, Verdict
    <3>2. PICK t \in Up(root, stmts[j].st) : ctx[t] = "LOOP"  BY <3>1, WalksAre DEF HasCtx
    <3>3. t \in 1 .. Len(root) /\ t # b  BY <2>5, <2>6, <3>2
    <3>4. PICK l \in Bodies(stmts) : /\ stmts[l].body = t /\ l \in 1 .. Len(stmts)
                                     /\ stmts[l].st = root[t] /\ stmts[l].k \in Loops
      BY <3>2, <3>3, OwnerOf
    <3>5. b < t
      <4> SUFFICES ASSUME t < b PROVE FALSE  BY <2>5, <3>3
      <4>1. t \in Up(root, b)  BY <2>0, <2>4, <2>5, <3>2, <3>3, UpLinear
      <4>2. t \in Up(root, stmts[i].st)  BY <2>0, <2>5, <3>3, <4>1, UpStep
      <4>3. ctx[t] \in {"GLOBAL", "NAMESPACE"}  BY <2>1, <2>3, <4>2, AroundFn
      <4> QED  BY <3>2, <4>3
    <3>6. b \in Up(root, t)  BY <2>0, <2>4, <2>5, <3>2, <3>3, <3>5, UpLinear
    <3>7. b \in Up(root, stmts[l].st)  BY <2>0, <3>3, <3>4, <3>6, UpStep
    <3>8. i < l  BY <2>1, <3>4, <3>7, FnBody DEF Within
    <3>9. Within(root, stmts, l, stmts[j].st)  BY <3>2, <3>4 DEF Within
    <3>10. ~Within(root, stmts, l, st)
      <4>1. st = 1  BY <2>0, <2>1 DEF OpenOK, PassedFn
      <4>2. Up(root, st) \subseteq 1 .. st  BY <2>0, UpBound
      <4>3. stmts[l].body \in 2 .. Len(root)  BY <2>0, <3>4 DEF BodiesOK
      <4> QED  BY <4>1, <4>2, <4>3 DEF Within
    <3>11. TextOK(root, stmts, st, l, j)  BY <2>0, <2>3, <3>4 DEF TextsOK
    <3>12. stmts[l].k \notin Branches /\ stmts[l].k \in {"for", "while", "do"}
      BY <3>4 DEF Branches, Loops
    <3>13. l < j /\ j =< stmts[l].end  BY <3>9, <3>10, <3>11, <3>12 DEF TextOK
    <3>14. l \in i + 1 .. j - 1  BY <2>1, <2>3, <3>4, <3>8, <3>13
    <3> QED  BY <3>12, <3>13, <3>14 DEF Inside
  <2>9. ASSUME stmts[j].k = "return" PROVE stmts[j].value = stmts[i].value
    <3> DEFINE F == {t \in Up(root, stmts[j].st) : ctx[t] = "FN"}
    <3>1. ResolveReturn(stmts[j])  BY <2>4, <2>9, Verdict
    <3>2. Outwards(stmts[j].st) = Up(root, stmts[j].st)  BY WalksAre
    <3>3. \E m \in DOMAIN stmts : stmts[m].body = Max(F) /\ stmts[m].value = stmts[j].value
      BY <3>1, <3>2 DEF ResolveReturn
    <3>4. F \in SUBSET (0 .. Len(root)) /\ b \in F  BY <2>0, <2>4, <2>5, <2>6
    <3>5. Max(F) \in F /\ b =< Max(F)
      <4> HIDE DEF F, b
      <4> QED  BY <2>0, <3>4, MaxIs
    <3>6. Max(F) \in 1 .. Len(root)  BY <2>6, <3>5
    <3>7. Max(F) = b
      <4> SUFFICES ASSUME Max(F) # b PROVE FALSE  OBVIOUS
      <4> DEFINE t == Max(F)
      <4>1. t \in Up(root, stmts[j].st) /\ ctx[t] = "FN" /\ t \in 1 .. Len(root) /\ b =< t
            /\ t # b
        BY <3>5, <3>6
      <4> HIDE DEF t
      <4>2. b \in Up(root, t)  BY <2>0, <2>4, <4>1, UpLinear
      <4> QED  BY <2>1, <4>1, <4>2, InsideFn DEF Within
    <3> HIDE DEF F
    <3>8. PICK m \in DOMAIN stmts : stmts[m].body = b /\ stmts[m].value = stmts[j].value
      BY <3>3, <3>7
    <3>9. m \in Bodies(stmts)  BY <2>0, <2>5, <3>8 DEF Bodies
    <3>10. m = i  BY <2>0, <2>5, <3>8, <3>9 DEF BodiesOK
    <3> QED  BY <3>8, <3>10
  <2> QED  BY <2>7, <2>8, <2>9
<1> QED  BY <1>1, ScopeCorrect, PTL
=============================================================================
