---------------------------- MODULE NncInduction ----------------------------
(***************************************************************************)
(* Induction over the natural numbers in a form that speaks of sets, which *)
(* the proofs about recursive definitions cite: no predicate has to be     *)
(* substituted for a parameter.                                            *)
(***************************************************************************)
EXTENDS Integers, WellFoundedInduction, TLAPS

(* A set of natural numbers has a least element. *)
LEMMA WellOrder ==
  ASSUME NEW S \in SUBSET Nat, S # {}
  PROVE  \E m \in S : \A n \in S : m =< n
<1>1. PICK R : IsWellFoundedOn(R, Nat) /\ \A x, y \in Nat : x < y => <<x, y>> \in R
  <2> DEFINE R == OpToRel(<, Nat)
  <2>1. IsWellFoundedOn(R, Nat)  BY NatLessThanWellFounded
  <2>2. \A x, y \in Nat : x < y => <<x, y>> \in R  BY DEF OpToRel
  <2> HIDE DEF R
  <2> QED  BY <2>1, <2>2
<1>2. IsWellFoundedOn(R, Nat) /\ S \subseteq Nat /\ S # {}  BY <1>1
<1>3. PICK m \in S : \A n \in S : ~ (<<n, m>> \in R)  BY ONLY <1>2, WFMin, Zenon
<1>4. ASSUME NEW n \in S PROVE m =< n
  <2>1. m \in Nat /\ n \in Nat /\ ~ (n < m)  BY <1>1, <1>3
  <2> QED  BY <2>1
<1> QED  BY <1>4

(* A set of the numbers up to n that has an element as soon as it has all   *)
(* smaller ones is the whole interval.                                      *)
LEMMA Induction ==
  ASSUME NEW n \in Nat, NEW a \in Nat, NEW G,
         \A k \in a .. n : (\A j \in a .. k - 1 : j \in G) => k \in G
  PROVE  \A k \in a .. n : k \in G
<1> DEFINE Bad == {k \in a .. n : k \notin G}
<1> SUFFICES ASSUME Bad # {} PROVE FALSE  OBVIOUS
<1>1. PICK m \in Bad : \A k \in Bad : m =< k
  <2>1. Bad \in SUBSET Nat  OBVIOUS
  <2> HIDE DEF Bad
  <2> QED  BY <2>1, WellOrder
<1>2. \A j \in a .. m - 1 : j \in G
  <2> SUFFICES ASSUME NEW j \in a .. m - 1 PROVE j \in G  OBVIOUS
  <2>1. m \in a .. n /\ j \in a .. n /\ ~(m =< j)  OBVIOUS
  <2> QED  BY <1>1, <2>1
<1> QED  BY <1>2

(* A set of numbers with an upper bound has a greatest element. *)
LEMMA Greatest ==
  ASSUME NEW n \in Nat, NEW S \in SUBSET (0 .. n), S # {}
  PROVE  \E m \in S : \A k \in S : k =< m
<1> DEFINE D == {n - k : k \in S}
<1>1. PICK d \in D : \A c \in D : d =< c
  <2>0. \A k \in S : n - k \in Nat  OBVIOUS
  <2>1. D \in SUBSET Nat /\ D # {}  BY <2>0
  <2> HIDE DEF D
  <2> QED  BY <2>1, WellOrder
<1>2. PICK m \in S : d = n - m  OBVIOUS
<1>3. ASSUME NEW k \in S PROVE k =< m
  <2>1. n - k \in D  OBVIOUS
  <2>2. d =< n - k  BY <1>1, <2>1
  <2>3. m \in 0 .. n /\ k \in 0 .. n  OBVIOUS
  <2> QED  BY <1>2, <2>2, <2>3
<1> QED  BY <1>3

(* A loop: as long as x is in D go on with step[x], then give out[x].       *)
IsLoop(f, X, D, step, out) == f = [x \in X |-> IF x \in D THEN f[step[x]] ELSE out[x]]

(* Whether the loop ends or not, a function solves its equation: what the   *)
(* points that it can reach outside of D give.                              *)
LEMMA LoopSolved ==
  ASSUME NEW X, NEW D \in SUBSET X, NEW step \in [D -> X], NEW out
  PROVE  \E f : IsLoop(f, X, D, step, out)
<1> DEFINE Closed(S) == \A z \in S : z \in D => step[z] \in S
           Reach(x) == {y \in X : \A S \in SUBSET X : x \in S /\ Closed(S) => y \in S}
           Ends(x) == {y \in Reach(x) : y \notin D}
           f == [x \in X |-> CHOOSE v : \E y \in Ends(x) : v = out[y]]
<1>1. ASSUME NEW x \in X, x \notin D PROVE Ends(x) = {x}
  <2>1. {x} \in SUBSET X /\ Closed({x})  BY <1>1
  <2>2. \A y \in Reach(x) : y \in {x}  BY <2>1
  <2>3. x \in Reach(x)  OBVIOUS
  <2> QED  BY <1>1, <2>2, <2>3
<1>2. ASSUME NEW x \in D PROVE Ends(x) = Ends(step[x])
  <2>1. ASSUME NEW y \in Reach(step[x]) PROVE y \in Reach(x)
    <3>1. ASSUME NEW S \in SUBSET X, x \in S, Closed(S) PROVE step[x] \in S  BY <3>1
    <3> QED  BY <2>1, <3>1
  <2>2. ASSUME NEW y \in Reach(x), y \notin D PROVE y \in Reach(step[x])
    <3> DEFINE S == {x} \cup Reach(step[x])
    <3>1. S \in SUBSET X  OBVIOUS
    <3>2. Closed(S)
      <4>1. ASSUME NEW z \in Reach(step[x]), z \in D PROVE step[z] \in Reach(step[x])  BY <4>1
      <4>2. step[x] \in Reach(step[x])  OBVIOUS
      <4> QED  BY <4>1, <4>2
    <3>3. x \in S  OBVIOUS
    <3>4. y \in S  BY <3>1, <3>2, <3>3
    <3> QED  BY <2>2, <3>4
  <2> QED  BY <2>1, <2>2
<1>3. ASSUME NEW x \in X PROVE f[x] = IF x \in D THEN f[step[x]] ELSE out[x]
  <2>1. CASE x \in D
    <3>1. step[x] \in X  BY <2>1
    <3>2. Ends(x) = Ends(step[x])  BY <1>2, <2>1
    <3> HIDE DEF Ends
    <3> QED  BY <2>1, <3>1, <3>2
  <2>2. CASE x \notin D
    <3>1. Ends(x) = {x}  BY <1>1, <2>2
    <3> HIDE DEF Ends
    <3>2. f[x] = CHOOSE v : \E y \in {x} : v = out[y]  BY <3>1
    <3> QED  BY <2>2, <3>2
  <2> QED  BY <2>1, <2>2
<1>4. f = [x \in X |-> f[x]]  OBVIOUS
<1> HIDE DEF f
<1>5. IsLoop(f, X, D, step, out)  BY <1>3, <1>4, Zenon DEF IsLoop
<1> QED  BY <1>5

(* A loop that keeps to I and counts down ends in I, outside of D. *)
LEMMA LoopEnds ==
  ASSUME NEW X, NEW D \in SUBSET X, NEW step \in [D -> X], NEW out, NEW f, IsLoop(f, X, D, step, out),
         NEW m \in [X -> Nat], NEW I \in SUBSET X,
         \A x \in I \cap D : step[x] \in I /\ m[step[x]] < m[x]
  PROVE  \A x \in I : \E y \in I \ D : f[x] = out[y]
<1> DEFINE Good(x) == \E y \in I \ D : f[x] = out[y]
           G == {n \in Nat : \A x \in I : m[x] = n => Good(x)}
<1>1. ASSUME NEW x \in X PROVE f[x] = IF x \in D THEN f[step[x]] ELSE out[x]
  BY <1>1 DEF IsLoop
<1>2. ASSUME NEW k \in Nat, \A j \in 0 .. k - 1 : j \in G PROVE k \in G
  <2> SUFFICES ASSUME NEW x \in I, m[x] = k PROVE Good(x)  OBVIOUS
  <2>1. x \in X  OBVIOUS
  <2>2. CASE x \notin D
    <3>1. f[x] = out[x]  BY <1>1, <2>1, <2>2
    <3> QED  BY <2>2, <3>1
  <2>3. CASE x \in D
    <3>1. step[x] \in I /\ m[step[x]] < k /\ step[x] \in X  BY <2>3
    <3>2. m[step[x]] \in 0 .. k - 1  BY <3>1
    <3>3. m[step[x]] \in G  BY <1>2, <3>2
    <3>4. Good(step[x])  BY <3>1, <3>3
    <3>5. f[x] = f[step[x]]  BY <1>1, <2>1, <2>3
    <3> QED  BY <3>4, <3>5
  <2> QED  BY <2>2, <2>3
<1>3. ASSUME NEW x \in I PROVE Good(x)
  <2>1. PICK n \in Nat : n = m[x]  OBVIOUS
  <2>2. \A k \in 0 .. n : k \in G
    <3> HIDE DEF G
    <3>1. \A k \in 0 .. n : (\A j \in 0 .. k - 1 : j \in G) => k \in G  BY <1>2
    <3>2. 0 \in Nat  OBVIOUS
    <3> QED  BY <3>1, <3>2, Induction
  <2>3. n \in G  BY <2>2
  <2> QED  BY <2>1, <2>3
<1> QED  BY <1>3
=============================================================================
