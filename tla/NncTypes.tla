------------------------------ MODULE NncTypes ------------------------------
(***************************************************************************)
(* The type declarations of one source file and the heap of type objects   *)
(* that the resolver completes and sizes (nnc_type.c, the type part of     *)
(* nnc_parse.c and nnc_resolve.c, the casts of nnc_typecheck.c).           *)
(*                                                                         *)
(* Pass 1 builds one object per type expression and enters the aliases of  *)
(* `type ... as n` in the symbol table; names may be used before they are  *)
(* declared.  Pass 2 resolves the statements in order and lowers each one  *)
(* before it resolves the next: an object is completed by OVERWRITING it   *)
(* with the alias found in the table, and a struct gets its size when a    *)
(* walk reaches it.  A use is a function holding                           *)
(*     let v: T1;  let w: T2 = v;                                          *)
(* and accesses v[..], v.m of every shape in Paths.                        *)
(*                                                                         *)
(* A type expression is a record [k, n, sub]: kind, name, operands.  All   *)
(* arrays have the dimension 2 and every structure is packed, as the       *)
(* lowering assumes.                                                       *)
(***************************************************************************)
EXTENDS Integers, SequencesExt

CONSTANTS
  Names,      \* the names of `type` statements, in the order of declaration
  Bodies,     \* the type expressions a `type` statement may give a name
  Uses,       \* the pairs <<T1, T2>> a use may declare
  Paths,      \* the accesses of v: sequences over 0 (an index) and 1, 2 (a member)
  MaxDepth    \* the C stack: a walk that nests deeper does not come back

VARIABLES
  stmts,      \* the statements of the file, in order: [use, ids, exprs]
  o,          \* the type objects: [kind, repr, base, size, kids]
  types,      \* nnc_st.types: name -> its alias object
  erred,      \* has an error been reported
  at,         \* the next statement of pass 2
  phase       \* "parse", "resolve", "done", "crashed"

vars == <<stmts, o, types, erred, at, phase>>

NoName == "-"

Aggregates == {"struct", "union"}

-----------------------------------------------------------------------------
(* Pass 1: the objects of a type expression. *)

Object(kind, repr, base, size, kids) ==
  [kind |-> kind, repr |-> repr, base |-> base, size |-> size, kids |-> kids]

\* The static objects i8_type, i64_type and void_type, shared by every use.
PrimId == [i8 |-> 1, i64 |-> 2, void |-> 3]

PrimObjects ==
  << Object("i8", "i8", 0, 1, <<>>), Object("i64", "i64", 0, 8, <<>>),
     Object("void", "void", 0, 0, <<>>) >>

Numeric == {"i8", "i64", "enum"}

\* nnc_*_type_new: what an object holds before anything is resolved.
New(kind, n, kids) ==
  CASE kind = "name" -> Object("incomplete", n, 0, 0, <<>>)
    [] kind = "alias" -> Object("alias", n, kids[1], 0, <<>>)
    [] kind = "ptr" -> Object("ptr", NoName, kids[1], 8, <<>>)
    [] kind = "arr" -> Object("arr", NoName, kids[1], 0, <<>>)
    [] kind \in {"fn", "enum"} -> Object(kind, NoName, 0, 8, kids)
    [] kind \in Aggregates -> Object(kind, NoName, 0, 0, kids)

RECURSIVE Parse(_, _), ParseAll(_, _)

\* nnc_parse_type: the heap with the objects of t, and the one that stands for t.
Parse(heap, t) ==
  IF t.k = "prim" THEN [o |-> heap, id |-> PrimId[t.n]]
  ELSE LET subs == ParseAll(heap, t.sub) IN
       [o |-> Append(subs.o, New(t.k, t.n, subs.ids)), id |-> Len(subs.o) + 1]

ParseAll(heap, ts) ==
  IF ts = <<>> THEN [o |-> heap, ids |-> <<>>]
  ELSE LET one == Parse(heap, Head(ts))
           rest == ParseAll(one.o, Tail(ts))
       IN  [o |-> rest.o, ids |-> <<one.id>> \o rest.ids]

-----------------------------------------------------------------------------
(* Following an object; 0 is a walk that goes round in circles for ever. *)

RECURSIVE Through(_, _, _, _)
Through(heap, i, kinds, left) ==
  IF heap[i].kind \notin kinds THEN i
  ELSE IF left = 0 THEN 0
  ELSE Through(heap, heap[i].base, kinds, left - 1)

Strip(heap, i, kinds) == Through(heap, i, kinds, Len(heap))

\* nnc_unalias, and the kind the nnc_*_type predicates look at.
Unalias(heap, i) == Strip(heap, i, {"alias"})

KindOf(heap, i) ==
  LET r == Unalias(heap, i) IN IF r = 0 THEN "hang" ELSE heap[r].kind

\* nnc_sizeof; -1 is its assertion that the type is complete.
Sizeof(heap, i) ==
  IF KindOf(heap, i) \in {"void", "incomplete", "hang"} THEN -1
  ELSE heap[Unalias(heap, i)].size

-----------------------------------------------------------------------------
(* Pass 2 works on a record h: the heap o, whether an exception is on its  *)
(* way up (thrown), whether one was reported (erred), whether the compiler *)
(* died (fault), and the results of the Boolean functions (ok, found).     *)

Halted(h) == h.thrown \/ h.fault

Throw(h) == [h EXCEPT !.thrown = TRUE]

Fault(h) == [h EXCEPT !.fault = TRUE]

\* CATCHALL { NNC_SHOW_CATCHED }.
Catch(h) == [h EXCEPT !.thrown = FALSE, !.erred = @ \/ h.thrown]

\* nnc_complete_type: the incomplete object under arrays and pointers becomes a
\* copy of the alias its name stands for, and then the base it copied is completed.
RECURSIVE Complete(_, _)
Complete(h, i) ==
  LET j == Strip(h.o, i, {"arr", "ptr"})
      e == h.o[j]
  IN  IF e.kind # "incomplete" THEN h
      ELSE IF e.repr \notin DOMAIN types THEN Throw(h)
      ELSE LET a == h.o[types[e.repr]] IN Complete([h EXCEPT !.o[j] = a], a.base)

RECURSIVE HasCircularDep(_, _, _, _), ScanFrom(_, _, _, _)

\* nnc_struct_has_circular_dep: does the aggregate `to` hold, by value, the alias
\* `inside`?  The members are compared by name, so only that one name stops it.
HasCircularDep(h, inside, to, d) ==
  IF d = 0 \/ h.o[to].kind \notin Aggregates THEN Fault(h)
  ELSE ScanFrom(h, inside, h.o[to].kids, d)

ScanMember(c, inside, kid, d) ==
  LET m == c.o[Strip(c.o, kid, {"arr"})] IN
  IF Halted(c) \/ m.kind # "alias" THEN c
  ELSE IF m.repr = inside THEN [c EXCEPT !.found = TRUE]
  ELSE IF KindOf(c.o, m.base) = "hang" THEN Fault(c)
  ELSE IF KindOf(c.o, m.base) \in Aggregates THEN HasCircularDep(c, inside, m.base, d - 1)
  ELSE c

ScanFrom(h, inside, kids, d) ==
  IF kids = <<>> \/ Halted(h) \/ h.found THEN h
  ELSE ScanFrom(ScanMember(Complete(h, Head(kids)), inside, Head(kids), d),
                inside, Tail(kids), d)

\* The loop of nnc_resolve_aliased_struct over the members: whether a member leads
\* back to the name, and the exception if it does.
CheckMember(c, name, kid, d) ==
  LET m == Strip(c.o, kid, {"alias", "arr"}) IN
  IF Halted(c) THEN c
  ELSE IF m = 0 THEN Fault(c)
  ELSE IF c.o[m].kind \notin Aggregates THEN c
  ELSE HasCircularDep([c EXCEPT !.found = FALSE], name, m, d)

Refuse(f) == IF ~Halted(f) /\ f.found THEN Throw([f EXCEPT !.found = FALSE]) ELSE f

RECURSIVE CheckFrom(_, _, _, _)
CheckFrom(h, name, kids, d) ==
  IF kids = <<>> \/ Halted(h) THEN h
  ELSE CheckFrom(Refuse(CheckMember(Complete(h, Head(kids)), name, Head(kids), d)),
                 name, Tail(kids), d)

NeedsSize_NoArrays(e) == e.kind \in {"alias"} \cup Aggregates

\* nnc_type_needs_size_resolve: a pointer's size is known without its target.
NeedsSize(e) == e.kind \in {"alias", "arr"} \cup Aggregates

\* size += nnc_sizeof(member) of a struct, the maximum for a union.
AddSize(h, i, m) ==
  LET s == Sizeof(h.o, m) IN
  IF Halted(h) THEN h
  ELSE IF s = -1 THEN Fault(h)
  ELSE [h EXCEPT !.o[i].size = IF h.o[i].kind = "struct" THEN @ + s
                               ELSE IF s > @ THEN s ELSE @]

RECURSIVE ResolveType(_, _, _), AliasedType(_, _, _), MembersFrom(_, _, _, _),
          ResolveFn(_, _, _)

AliasedStruct_Unchecked(h, a, r, d) == ResolveType(h, r, d)

\* nnc_resolve_aliased_struct, which is also nnc_resolve_aliased_union.
AliasedStruct(h, a, r, d) ==
  LET c == CheckFrom(h, h.o[a].repr, h.o[r].kids, d) IN
  IF Halted(c) THEN c ELSE ResolveType(c, r, d)

\* nnc_resolve_aliased_type, nnc_resolve_alias.
AliasedType(h, a, d) ==
  LET r == Unalias(h.o, a) IN
  IF r = 0 THEN Fault(h)
  ELSE IF h.o[r].kind \in Aggregates THEN AliasedStruct(h, a, r, d)
  ELSE ResolveType(h, h.o[a].base, d)

\* nnc_resolve_struct and nnc_resolve_union: only a struct catches its members' errors.
ResolveMember(c, m, d) ==
  IF ~Halted(c) /\ NeedsSize(c.o[m]) THEN ResolveType(c, m, d - 1) ELSE c

MembersFrom(h, i, kids, d) ==
  IF kids = <<>> \/ Halted(h) THEN [h EXCEPT !.ok = TRUE]
  ELSE LET s == AddSize(ResolveMember(Complete(h, Head(kids)), Head(kids), d), i, Head(kids))
       IN  MembersFrom(IF h.o[i].kind = "struct" THEN Catch(s) ELSE s,
                       i, Tail(kids), d)

\* nnc_resolve_fn: the parameters up to the first that fails, then a return type
\* other than void.
ResolveFn(h, kids, d) ==
  IF kids = <<>> \/ Halted(h) \/ ~h.ok THEN h
  ELSE IF Len(kids) = 1 /\ h.o[kids[1]].kind = "void" THEN h
  ELSE ResolveFn(ResolveType(h, Head(kids), d - 1), Tail(kids), d)

\* nnc_resolve_array, after its base: 2 * nnc_sizeof(base).
SetArraySize(h, i) ==
  LET s == Sizeof(h.o, h.o[i].base) IN
  IF Halted(h) THEN h
  ELSE IF s = -1 THEN Fault(h)
  ELSE [h EXCEPT !.o[i].size = 2 * s, !.ok = TRUE]

\* nnc_resolve_type: completes the object, then goes by its kind.
Resolve(c, i, d) ==
  LET e == c.o[i] IN
  IF d = 0 \/ KindOf(c.o, i) = "hang" THEN Fault(c)
  ELSE IF Halted(c) THEN c
  ELSE IF KindOf(c.o, i) \in {"i8", "i64"} THEN [c EXCEPT !.ok = TRUE]
  ELSE CASE e.kind = "enum" -> [c EXCEPT !.ok = TRUE]
         [] e.kind = "alias" -> AliasedType(c, i, d - 1)
         [] e.kind = "arr" -> SetArraySize(ResolveType(c, e.base, d - 1), i)
         [] e.kind = "ptr" -> ResolveType(c, e.base, d - 1)
         [] e.kind \in Aggregates -> MembersFrom([c EXCEPT !.o[i].size = 0], i, e.kids, d)
         [] e.kind = "fn" -> ResolveFn([c EXCEPT !.ok = TRUE], e.kids, d)
         [] OTHER -> [c EXCEPT !.ok = FALSE]

ResolveType(h, i, d) == Resolve(Complete(h, i), i, d)

-----------------------------------------------------------------------------
(* Implicit casts. *)

Hierarchy == [i8 |-> 0, i64 |-> 6, enum |-> 6]

CanCastArith_SameKind(heap, from, to) ==
  \/ /\ KindOf(heap, from) \in Numeric /\ KindOf(heap, to) \in Numeric
     /\ Hierarchy[KindOf(heap, from)] <= Hierarchy[KindOf(heap, to)]
  \/ KindOf(heap, from) \in Aggregates /\ KindOf(heap, from) = KindOf(heap, to)

\* nnc_can_imp_cast_arith, nnc_same_types: aggregates are compared by address.
CanCastArith(heap, from, to) ==
  \/ /\ KindOf(heap, from) \in Numeric /\ KindOf(heap, to) \in Numeric
     /\ Hierarchy[KindOf(heap, from)] <= Hierarchy[KindOf(heap, to)]
  \/ /\ KindOf(heap, from) \in Aggregates /\ KindOf(heap, to) \in Aggregates
     /\ Unalias(heap, from) = Unalias(heap, to)

\* nnc_rank: an alias met below the first level is counted, and then its target.
RECURSIVE RankFrom(_, _)
RankFrom(heap, i) ==
  IF KindOf(heap, i) \in {"arr", "ptr"} THEN 1 + RankFrom(heap, heap[i].base) ELSE 0

Rank(heap, i) == RankFrom(heap, Unalias(heap, i))

\* nnc_can_imp_cast_ptrs.
CanCastPtrs(heap, from, to) ==
  LET f == Strip(heap, from, {"arr", "alias", "ptr"})
      t == Strip(heap, to, {"arr", "alias", "ptr"})
  IN  /\ Rank(heap, from) = Rank(heap, to)
      /\ "void" \in {heap[f].kind, heap[t].kind} \/ CanCastArith(heap, f, t)

\* nnc_can_imp_cast_assign, with nnc_can_imp_cast_fns.
RECURSIVE CanCastAssign(_, _, _)
CanCastAssign(heap, from, to) ==
  LET f == heap[Unalias(heap, from)]
      t == heap[Unalias(heap, to)]
  IN  CASE CanCastArith(heap, from, to) -> TRUE
        [] t.kind = "fn" /\ f.kind = "fn"
             -> /\ Len(t.kids) = Len(f.kids)
                /\ \A k \in DOMAIN t.kids : CanCastAssign(heap, f.kids[k], t.kids[k])
        [] t.kind = "fn" /\ f.kind = "ptr" -> TRUE
        [] t.kind = "ptr" /\ f.kind \in {"arr", "ptr"}
             -> CanCastPtrs(heap, Unalias(heap, from), Unalias(heap, to))
        [] OTHER -> FALSE

-----------------------------------------------------------------------------
(* Lowering an access: the constants it puts in the code.  -2 ends an       *)
(* access the resolver rejects, -1 is the assertion of nnc_sizeof.          *)

Rejects == -2

\* nnc_resolve_index_expr, nnc_resolve_dot_expr; nnc_lval_index_to_3a scales by the
\* size of the element, nnc_lval_dot_to_3a adds the sizes of the members before.
RECURSIVE Access(_, _, _)
Access(heap, i, path) ==
  LET e == heap[Unalias(heap, i)]
      a == IF e.kind = "ptr" THEN heap[Unalias(heap, e.base)] ELSE e
      j == Head(path)
      before == {Sizeof(heap, a.kids[k]) : k \in 1 .. j - 1}
      offset == IF -1 \in before THEN -1
                ELSE FoldLeft(LAMBDA s, k : s + Sizeof(heap, k), 0, SubSeq(a.kids, 1, j - 1))
  IN  IF path = <<>> THEN <<Sizeof(heap, i)>>
      ELSE IF j = 0
      THEN IF e.kind \notin {"arr", "ptr"} THEN <<Rejects>>
           ELSE <<Sizeof(heap, e.base)>> \o Access(heap, e.base, Tail(path))
      ELSE IF a.kind \notin Aggregates \/ j > Len(a.kids) THEN <<Rejects>>
      ELSE <<IF a.kind = "union" THEN 0 ELSE offset>>
           \o Access(heap, a.kids[j], Tail(path))

-----------------------------------------------------------------------------
(* The specification. *)

Init ==
  /\ stmts = <<>> /\ o = PrimObjects /\ types = <<>>
  /\ erred = FALSE /\ at = 1 /\ phase = "parse"

\* nnc_parse_type_stmt; nnc_st_put_type.
ParseType(body) ==
  LET n == Names[Cardinality(DOMAIN types) + 1]
      p == Parse(o, body)
      a == Len(p.o) + 1
  IN  /\ phase = "parse" /\ Cardinality(DOMAIN types) < Len(Names)
      /\ o' = Append(p.o, New("alias", n, <<p.id>>))
      /\ types' = [m \in DOMAIN types \cup {n} |-> IF m = n THEN a ELSE types[m]]
      /\ stmts' = Append(stmts, [use |-> FALSE, ids |-> <<a>>, exprs |-> <<body>>])
      /\ UNCHANGED <<erred, at, phase>>

\* nnc_parse_let_stmt, twice, in the body of a function.  One use per file.
ParseUse(use) ==
  LET p == ParseAll(o, use) IN
  /\ phase = "parse" /\ \A k \in DOMAIN stmts : ~stmts[k].use
  /\ o' = p.o
  /\ stmts' = Append(stmts, [use |-> TRUE, ids |-> p.ids, exprs |-> use])
  /\ UNCHANGED <<types, erred, at, phase>>

EndParse ==
  /\ phase = "parse" /\ stmts # <<>>
  /\ phase' = "resolve"
  /\ UNCHANGED <<stmts, o, types, erred, at>>

Start ==
  [o |-> o, thrown |-> FALSE, fault |-> FALSE, erred |-> erred,
   ok |-> TRUE, found |-> FALSE]

\* nnc_compile_pass2 around one statement.
Settle(h) ==
  LET c == Catch(h) IN
  /\ o' = c.o /\ erred' = c.erred
  /\ phase' = IF c.fault THEN "crashed" ELSE phase
  /\ at' = at + 1
  /\ UNCHANGED <<stmts, types>>

\* nnc_resolve_type_stmt.
ResolveTypeStmt ==
  /\ phase = "resolve" /\ at <= Len(stmts) /\ ~stmts[at].use
  /\ Settle(AliasedType(Start, stmts[at].ids[1], MaxDepth))

\* nnc_resolve_let_stmt: the declared type, then the initializer's.
CheckInit(r, id, init) ==
  IF Halted(r) \/ init = 0 THEN r
  ELSE IF ~CanCastAssign(r.o, init, id) \/ KindOf(r.o, init) \in Aggregates
  THEN Throw(r)
  ELSE r

LetStmt(h, id, init) == CheckInit(ResolveType(h, id, MaxDepth), id, init)

\* nnc_resolve_compound_stmt over the two lets.
ResolveUse ==
  /\ phase = "resolve" /\ at <= Len(stmts) /\ stmts[at].use
  /\ \E v \in {Catch(LetStmt(Start, stmts[at].ids[1], 0))} :
       Settle(IF v.fault THEN v ELSE LetStmt(v, stmts[at].ids[2], stmts[at].ids[1]))

Finish ==
  /\ phase = "resolve" /\ at > Len(stmts)
  /\ phase' = "done"
  /\ UNCHANGED <<stmts, o, types, erred, at>>

Ended == phase \in {"done", "crashed"} /\ UNCHANGED vars

Next ==
  \/ \E body \in Bodies : ParseType(body)
  \/ \E use \in Uses : ParseUse(use)
  \/ EndParse \/ ResolveTypeStmt \/ ResolveUse \/ Finish \/ Ended

Spec == Init /\ [][Next]_vars

-----------------------------------------------------------------------------
(* What the declarations mean, read off the type expressions. *)

Decl == [n \in DOMAIN types |-> stmts[CHOOSE k \in DOMAIN stmts :
                                        stmts[k].ids = <<types[n]>>].exprs[1]]

\* The names t mentions; those whose layout is part of t's; those the resolver walks
\* into from t: it stops at a member that is itself a pointer or a function.
RECURSIVE AllNames(_), ByValue(_), Walks(_)
AllNames(t) ==
  IF t.k = "name" THEN {t.n} ELSE UNION {AllNames(t.sub[k]) : k \in DOMAIN t.sub}

ByValue(t) ==
  IF t.k = "name" THEN {t.n}
  ELSE IF t.k \in {"ptr", "fn"} THEN {}
  ELSE UNION {ByValue(t.sub[k]) : k \in DOMAIN t.sub}

Walks(t) ==
  IF t.k = "name" THEN {t.n}
  ELSE UNION {IF t.k \in Aggregates /\ t.sub[k].k \in {"ptr", "fn"} THEN {}
              ELSE Walks(t.sub[k]) : k \in DOMAIN t.sub}

AllEdges == [n \in DOMAIN types |-> AllNames(Decl[n])]
ByValueEdges == [n \in DOMAIN types |-> ByValue(Decl[n])]
WalkEdges == [n \in DOMAIN types |-> Walks(Decl[n])]

\* What the names in ns lead to.
RECURSIVE Reach(_, _)
Reach(ns, edges) ==
  LET more == ns \cup UNION {edges[n] : n \in ns \cap DOMAIN edges}
  IN  IF more = ns THEN ns ELSE Reach(more, edges)

OnCycle(edges) == {n \in DOMAIN edges : n \in Reach(edges[n], edges)}

\* The expression a chain of names stands for.
RECURSIVE Plain(_)
Plain(t) == IF t.k = "name" THEN Plain(Decl[t.n]) ELSE t

RECURSIVE RefSize(_)
RefSize(t) ==
  CASE t.k = "prim" -> PrimObjects[PrimId[t.n]].size
    [] t.k = "name" -> RefSize(Decl[t.n])
    [] t.k \in {"ptr", "fn", "enum"} -> 8
    [] t.k = "arr" -> 2 * RefSize(t.sub[1])
    [] t.k = "struct" -> FoldLeft(LAMBDA s, m : s + RefSize(m), 0, t.sub)
    [] t.k = "union" -> Max({RefSize(t.sub[k]) : k \in DOMAIN t.sub})

RECURSIVE RefAccess(_, _)
RefAccess(t, path) ==
  LET e == Plain(t)
      a == IF e.k = "ptr" THEN Plain(e.sub[1]) ELSE e
      j == Head(path)
  IN  IF path = <<>> THEN <<RefSize(t)>>
      ELSE IF j = 0
      THEN IF e.k \notin {"arr", "ptr"} THEN <<Rejects>>
           ELSE <<RefSize(e.sub[1])>> \o RefAccess(e.sub[1], Tail(path))
      ELSE IF a.k \notin Aggregates \/ j > Len(a.sub) THEN <<Rejects>>
      ELSE <<IF a.k = "union" THEN 0
             ELSE FoldLeft(LAMBDA s, m : s + RefSize(m), 0, SubSeq(a.sub, 1, j - 1))>>
           \o RefAccess(a.sub[j], Tail(path))

\* Is a value of type f accepted where t is declared: numbers that do not narrow,
\* functions by their parts, any pointer for a function, and pointers of one depth to
\* void, to numbers that do not narrow, or to the same declared aggregate.
RECURSIVE RefAssign(_, _), Depth(_), Target(_)
Depth(t) == IF Plain(t).k \in {"arr", "ptr"} THEN 1 + Depth(Plain(t).sub[1]) ELSE 0

\* The aggregate, number or function below all pointers, and the name that declares it.
Target(t) ==
  IF t.k \in {"arr", "ptr"} THEN Target(t.sub[1])
  ELSE IF t.k = "name" /\ Decl[t.n].k \in {"name", "arr", "ptr"} THEN Target(Decl[t.n])
  ELSE t

RefWidth(t) == IF t.k = "prim" /\ t.n = "i8" THEN 0 ELSE 6

RefNumber(t) == t.k = "enum" \/ (t.k = "prim" /\ t.n # "void")

RefAssign(f, t) ==
  LET pf == Plain(f)  pt == Plain(t)
      gf == Target(f)  gt == Target(t)
  IN  \/ RefNumber(pf) /\ RefNumber(pt) /\ RefWidth(pf) <= RefWidth(pt)
      \/ pf.k \in Aggregates /\ pt.k \in Aggregates /\ gf = gt
      \/ /\ pf.k = "fn" /\ pt.k = "fn" /\ Len(pf.sub) = Len(pt.sub)
         /\ \A k \in DOMAIN pt.sub : RefAssign(pf.sub[k], pt.sub[k])
      \/ pf.k = "ptr" /\ pt.k = "fn"
      \/ /\ pf.k \in {"arr", "ptr"} /\ pt.k = "ptr" /\ Depth(f) = Depth(t)
         /\ \/ "void" \in {gf.n, gt.n}
            \/ RefNumber(Plain(gf)) /\ RefNumber(Plain(gt))
                 /\ RefWidth(Plain(gf)) <= RefWidth(Plain(gt))
            \/ gf = gt /\ Plain(gf).k \in Aggregates

\* Does a pointer lead, through a name, to another pointer or an array?
RECURSIVE PtrToNamedPtr(_)
PtrToNamedPtr(t) ==
  LET e == Plain(t) IN
  /\ e.k \in {"arr", "ptr"}
  /\ \/ e.sub[1].k = "name" /\ Plain(e.sub[1]).k \in {"arr", "ptr"}
     \/ PtrToNamedPtr(e.sub[1])

-----------------------------------------------------------------------------
(* Properties. *)

Mentioned ==
  UNION {UNION {AllNames(stmts[k].exprs[l]) : l \in DOMAIN stmts[k].exprs} : k \in DOMAIN stmts}

\* The files the compiler is known not to come back from.
\* A walk that goes round through a pointer, a function, an array or bare names:
RoundPointer ==
  \/ ~(OnCycle(WalkEdges) \subseteq OnCycle(ByValueEdges))
  \/ \E n \in OnCycle(ByValueEdges) : Decl[n].k \notin Aggregates

\* a type that contains a circle of aggregates without being in it:
CircleBelow ==
  \E n \in DOMAIN types \ OnCycle(ByValueEdges) :
    Reach(ByValueEdges[n], ByValueEdges) \cap OnCycle(ByValueEdges) # {}

\* a circle through a member that is an aggregate written in place:
CircleInPlace ==
  \E n \in OnCycle(ByValueEdges) :
    \E k \in DOMAIN Decl[n].sub : Decl[n].sub[k].k \in Aggregates

\* a member whose type is another name of a declared aggregate.
RenamedMember ==
  \E n \in DOMAIN types :
    /\ Decl[n].k = "name"
    /\ \E m \in DOMAIN types : Decl[m].k \in Aggregates /\ n \in ByValue(Decl[m])

\* The compiler comes back from every other file, and says so when a declaration
\* contains itself: a circular declaration is found by comparing names on the way
\* down, before the same walk is repeated to add up the sizes
\* (nnc_struct_has_circular_dep before nnc_resolve_struct).
Returns ==
  phase = "crashed" => RoundPointer \/ CircleBelow \/ CircleInPlace \/ RenamedMember

\* A file that is resolved to the end is rejected exactly when it names an undeclared
\* type, when a declaration contains itself by value, or when the initializer of w does
\* not fit: completing a name by copying the alias over it keeps the identity of the
\* aggregate, whichever statement completes it first, so two spellings of one struct
\* stay assignable and two structs never are (nnc_complete_type, nnc_same_types).
\* Nothing is claimed of pointers to named pointers, whose rank is counted twice.
AcceptsExactly ==
  phase = "done" =>
    (erred <=> \/ Mentioned \ DOMAIN types # {}
               \/ OnCycle(ByValueEdges) # {}
               \/ \E k \in DOMAIN stmts :
                    /\ stmts[k].use
                    /\ IF \E l \in {1, 2} : PtrToNamedPtr(stmts[k].exprs[l]) THEN erred
                       ELSE \/ ~RefAssign(stmts[k].exprs[1], stmts[k].exprs[2])
                            \/ Plain(stmts[k].exprs[1]).k \in Aggregates)

Declared(k) == {n \in DOMAIN types : \E l \in 1 .. k - 1 : stmts[l].ids = <<types[n]>>}

\* Every size and offset the lowering writes into the code for an access is the one of
\* the declared types, for all the ways the walks of earlier statements may have
\* completed and sized the objects: a use lowered once the types it mentions have been
\* resolved never reads a size that is still 0 or stale, and never meets the assertion
\* of nnc_sizeof (nnc_lval_dot_to_3a, nnc_lval_index_to_3a).
ReadsExact ==
  LET k == at - 1
      t == stmts[k].exprs[1]
  IN  phase = "resolve" /\ k > 0 /\ ~erred /\ stmts[k].use
        /\ Reach(AllNames(t), AllEdges) \subseteq Declared(k)
      => \A p \in Paths :
           Access(o, stmts[k].ids[1], p) = RefAccess(t, p)

=============================================================================
