---------------------------- MODULE NncMapProofs ----------------------------
(***************************************************************************)
(* Proofs about NncMap, for any keys, hash functions and capacities: the   *)
(* chains stay well formed through nested rehashes and rewrites, the map   *)
(* counts its entries and its nodes up to those that rewrites cut off, and *)
(* it implements the dictionary that loses keys at a rewrite only.         *)
(***************************************************************************)
EXTENDS NncMap, NncInduction, FiniteSetTheorems

-----------------------------------------------------------------------------
(* Chains. *)

Distinct(s) == \A j, n \in 1 .. Len(s) : s[j].key = s[n].key => j = n

(* The search of a key stops at an entry of it, or the chain has none. *)
LEMMA FindKey ==
  ASSUME NEW c \in Seq(Entry), NEW k
  PROVE  \/ Find(c, k) = 0 /\ \A j \in 1 .. Len(c) : c[j].key # k
         \/ Find(c, k) \in 1 .. Len(c) /\ c[Find(c, k)].key = k
<1> DEFINE I == {i \in 1 .. Len(c) : c[i].key = k}
<1>1. Find(c, k) = IF I # {} THEN Min(I) ELSE 0  BY DEF Find, SelectInSeq
<1>2. CASE I = {}  BY <1>1, <1>2
<1>3. CASE I # {}
  <2>1. I \in SUBSET Nat  OBVIOUS
  <2>2. PICK m \in I : \A n \in I : m =< n
    <3> HIDE DEF I
    <3> QED  BY <1>3, <2>1, WellOrder
  <2>3. Min(I) \in I
    <3> HIDE DEF I
    <3> QED  BY <2>2 DEF Min
  <2> QED  BY <1>1, <1>3, <2>3
<1> QED  BY <1>2, <1>3

(* A new entry at the end of a chain. *)
LEMMA ChainAppend ==
  ASSUME NEW c \in Seq(Entry), NEW e \in Entry, Distinct(c),
         \A j \in 1 .. Len(c) : c[j].key # e.key
  PROVE  /\ Append(c, e) \in Seq(Entry)
         /\ Len(Append(c, e)) = Len(c) + 1
         /\ Distinct(Append(c, e))
         /\ ToSet(Append(c, e)) = ToSet(c) \cup {e}
<1>1. Append(c, e) \in Seq(Entry) /\ Len(Append(c, e)) = Len(c) + 1 /\ Len(c) \in Nat  OBVIOUS
<1>2. \A j \in 1 .. Len(c) + 1 : Append(c, e)[j] = IF j = Len(c) + 1 THEN e ELSE c[j]  OBVIOUS
<1>3. Distinct(Append(c, e))  BY <1>1, <1>2 DEF Distinct
<1>4. ToSet(Append(c, e)) = ToSet(c) \cup {e}
  <2>1. DOMAIN Append(c, e) = 1 .. Len(c) + 1 /\ DOMAIN c = 1 .. Len(c)  BY <1>1
  <2>2. ASSUME NEW x \in ToSet(Append(c, e)) PROVE x \in ToSet(c) \cup {e}
    BY <1>2, <2>1 DEF ToSet
  <2>3. e \in ToSet(Append(c, e))
    <3>1. Len(c) + 1 \in DOMAIN Append(c, e) /\ Append(c, e)[Len(c) + 1] = e  BY <1>1, <1>2, <2>1
    <3> QED  BY <3>1 DEF ToSet
  <2>4. ASSUME NEW x \in ToSet(c) PROVE x \in ToSet(Append(c, e))
    <3>1. PICK j \in 1 .. Len(c) : x = c[j]  BY <2>1 DEF ToSet
    <3>2. j \in DOMAIN Append(c, e) /\ Append(c, e)[j] = x  BY <1>1, <1>2, <2>1, <3>1
    <3> QED  BY <3>2 DEF ToSet
  <2> QED  BY <2>2, <2>3, <2>4
<1> QED  BY <1>1, <1>3, <1>4

(* The part of a chain before an entry. *)
LEMMA ChainCut ==
  ASSUME NEW c \in Seq(Entry), Distinct(c), NEW p \in 1 .. Len(c)
  PROVE  /\ SubSeq(c, 1, p - 1) \in Seq(Entry)
         /\ Len(SubSeq(c, 1, p - 1)) = p - 1
         /\ Distinct(SubSeq(c, 1, p - 1))
         /\ ToSet(SubSeq(c, 1, p - 1)) \subseteq ToSet(c)
         /\ \A j \in 1 .. Len(SubSeq(c, 1, p - 1)) : SubSeq(c, 1, p - 1)[j].key # c[p].key
<1>1. SubSeq(c, 1, p - 1) = [j \in 1 .. p - 1 |-> c[j]]  OBVIOUS
<1> DEFINE d == [j \in 1 .. p - 1 |-> c[j]]
<1>2. d \in Seq(Entry) /\ Len(d) = p - 1 /\ \A j \in 1 .. p - 1 : d[j] = c[j]  OBVIOUS
<1>3. DOMAIN d = 1 .. p - 1 /\ DOMAIN c = 1 .. Len(c) /\ Len(c) \in Nat  OBVIOUS
<1> HIDE DEF d
<1>4. Distinct(d)  BY <1>2, <1>3 DEF Distinct
<1>5. ToSet(d) \subseteq ToSet(c)  BY <1>2, <1>3 DEF ToSet
<1>6. \A j \in 1 .. Len(d) : d[j].key # c[p].key  BY <1>2, <1>3 DEF Distinct
<1>7. SubSeq(c, 1, p - 1) = d  BY <1>1 DEF d
<1> QED  BY <1>2, <1>4, <1>5, <1>6, <1>7

(* A chain without the entry at a position. *)
LEMMA ChainRemove ==
  ASSUME NEW c \in Seq(Entry), Distinct(c), NEW p \in 1 .. Len(c)
  PROVE  /\ RemoveAt(c, p) \in Seq(Entry)
         /\ Len(RemoveAt(c, p)) = Len(c) - 1
         /\ Distinct(RemoveAt(c, p))
         /\ ToSet(RemoveAt(c, p)) = ToSet(c) \ {c[p]}
<1>1. PICK n \in Nat : n = Len(c)  OBVIOUS
<1>0. p \in 1 .. n  BY <1>1
<1> DEFINE a == SubSeq(c, 1, p - 1)
           b == SubSeq(c, p + 1, n)
           d == RemoveAt(c, p)
<1>2. a \in Seq(Entry) /\ Len(a) = p - 1 /\ \A j \in 1 .. p - 1 : a[j] = c[j]
  BY <1>0, <1>1
<1>3. b \in Seq(Entry) /\ Len(b) = n - p /\ \A j \in 1 .. n - p : b[j] = c[p + j]
  BY <1>0, <1>1
<1>4. d = a \o b  BY <1>1 DEF RemoveAt
<1> HIDE DEF a, b, d
<1>5. d \in Seq(Entry) /\ Len(d) = n - 1 /\ DOMAIN d = 1 .. n - 1
  BY <1>0, <1>2, <1>3, <1>4
<1>6. \A j \in 1 .. n - 1 : d[j] = IF j < p THEN c[j] ELSE c[j + 1]
  BY <1>0, <1>2, <1>3, <1>4
<1>7. Distinct(d)
  <2>1. \A i, j \in 1 .. n : c[i].key = c[j].key => i = j  BY <1>1 DEF Distinct
  <2>2. ASSUME NEW i \in 1 .. n - 1, NEW j \in 1 .. n - 1, d[i].key = d[j].key PROVE i = j
    <3>1. PICK x \in 1 .. n : d[i] = c[x] /\ (IF i < p THEN x = i ELSE x = i + 1)  BY <1>0, <1>6
    <3>2. PICK y \in 1 .. n : d[j] = c[y] /\ (IF j < p THEN y = j ELSE y = j + 1)  BY <1>0, <1>6
    <3>3. x = y  BY <2>1, <2>2, <3>1, <3>2
    <3> QED  BY <1>0, <3>1, <3>2, <3>3
  <2> QED  BY <1>5, <2>2 DEF Distinct
<1>8. ToSet(d) = ToSet(c) \ {c[p]}
  <2>0. DOMAIN c = 1 .. n  BY <1>1
  <2>1. ASSUME NEW x \in ToSet(d) PROVE x \in ToSet(c) /\ x # c[p]
    <3>1. PICK j \in 1 .. n - 1 : x = d[j]  BY <1>5 DEF ToSet
    <3>2. PICK i \in 1 .. n : i # p /\ x = c[i]  BY <1>0, <1>6, <3>1
    <3>3. x # c[p]  BY <1>0, <1>1, <3>2 DEF Distinct
    <3> QED  BY <2>0, <3>2, <3>3 DEF ToSet
  <2>2. ASSUME NEW x \in ToSet(c), x # c[p] PROVE x \in ToSet(d)
    <3>1. PICK i \in 1 .. n : x = c[i]  BY <2>0 DEF ToSet
    <3>2. PICK j \in 1 .. n - 1 : x = d[j]
      <4>1. CASE i < p  BY <1>0, <1>6, <3>1, <4>1
      <4>2. CASE i > p
        <5>1. i - 1 \in 1 .. n - 1 /\ ~(i - 1 < p) /\ (i - 1) + 1 = i  BY <1>0, <4>2
        <5> QED  BY <1>6, <3>1, <5>1
      <4> QED  BY <1>0, <2>2, <3>1, <4>1, <4>2
    <3> QED  BY <1>5, <3>2 DEF ToSet
  <2> QED  BY <2>1, <2>2
<1>9. RemoveAt(c, p) = d  BY DEF d
<1> QED  BY <1>1, <1>5, <1>7, <1>8, <1>9

(* A sequence of entries with distinct keys is as long as the set of them. *)
LEMMA DistinctCount ==
  ASSUME NEW s \in Seq(Entry), Distinct(s)
  PROVE  IsFiniteSet(ToSet(s)) /\ Cardinality(ToSet(s)) = Len(s)
<1>0. Len(s) \in Nat /\ DOMAIN s = 1 .. Len(s)  OBVIOUS
<1>1. s \in Bijection(1 .. Len(s), ToSet(s))
  <2>1. s \in [1 .. Len(s) -> ToSet(s)]  BY <1>0 DEF ToSet
  <2>2. \A i, j \in 1 .. Len(s) : s[i] = s[j] => i = j  BY DEF Distinct
  <2>3. \A x \in ToSet(s) : \E i \in 1 .. Len(s) : s[i] = x  BY <1>0 DEF ToSet
  <2> QED  BY <2>1, <2>2, <2>3 DEF Bijection, Injection, Surjection, IsInjective
<1>2. ExistsBijection(1 .. Len(s), ToSet(s))  BY <1>1 DEF ExistsBijection
<1>3. IsFiniteSet(ToSet(s))  BY <1>0, <1>2, FS_NatBijection
<1> QED  BY <1>0, <1>2, <1>3, FS_CountingElements

(* The entries of a sequence are not more than its length. *)
LEMMA ToSetBound ==
  ASSUME NEW s \in Seq(Entry)
  PROVE  IsFiniteSet(ToSet(s)) /\ Cardinality(ToSet(s)) =< Len(s)
<1>0. Len(s) \in Nat /\ DOMAIN s = 1 .. Len(s)  OBVIOUS
<1>1. s \in Surjection(1 .. Len(s), ToSet(s))
  <2>1. s \in [1 .. Len(s) -> ToSet(s)]  BY <1>0 DEF ToSet
  <2>3. \A x \in ToSet(s) : \E i \in 1 .. Len(s) : s[i] = x  BY <1>0 DEF ToSet
  <2> QED  BY <2>1, <2>3 DEF Surjection
<1>2. ExistsSurjection(1 .. Len(s), ToSet(s))  BY <1>1 DEF ExistsSurjection
<1> QED  BY <1>0, <1>2, FS_NatSurjection, FS_SurjCardinalityBound

-----------------------------------------------------------------------------
(* Maps. *)

Record(m) ==
  m = [cap |-> m.cap, len |-> m.len, nodes |-> m.nodes, cut |-> m.cut, leak |-> m.leak, buckets |-> m.buckets]

(* Every entry is in the chain its key hashes to, and alone with its key. *)
Placed(m) ==
  /\ Record(m) /\ m.cap \in Nat \ {0}
  /\ m.buckets \in [0 .. m.cap - 1 -> Seq(Entry)]
  /\ \A i \in 0 .. m.cap - 1 :
       /\ \A j \in 1 .. Len(m.buckets[i]) : Idx(m, m.buckets[i][j].key) = i
       /\ Distinct(m.buckets[i])

(* len and nodes are what is there and what rewrites cut off. *)
Counted(m) ==
  /\ IsFiniteSet(EntrySet(m)) /\ m.cut \in Nat /\ m.len = Cardinality(EntrySet(m)) + m.cut
  /\ IsFiniteSet(ChainNodes(m)) /\ m.leak \in Nat /\ m.nodes = Cardinality(ChainNodes(m)) + m.leak

HashOK == hash \in [Keys -> Nat]

(* The bucket of a key. *)
LEMMA IdxIn ==
  ASSUME HashOK, NEW m, Placed(m), NEW k \in Keys
  PROVE  Idx(m, k) \in 0 .. m.cap - 1 /\ Chain(m, k) = m.buckets[Idx(m, k)]
         /\ Chain(m, k) \in Seq(Entry) /\ Distinct(Chain(m, k))
<1>1. hash[k] \in Nat /\ m.cap \in Nat \ {0}  BY DEF HashOK, Placed
<1>2. PICK h \in Nat, c \in Nat \ {0} : h = hash[k] /\ c = m.cap  BY <1>1
<1>3. h % c \in 0 .. c - 1  OBVIOUS
<1>4. Idx(m, k) \in 0 .. m.cap - 1  BY <1>2, <1>3 DEF Idx
<1> QED  BY <1>4 DEF Chain, Placed

(* An entry of the map is in the chain of its key. *)
LEMMA EntryIn ==
  ASSUME HashOK, NEW m, Placed(m)
  PROVE  /\ \A e : e \in EntrySet(m) <=>
              \E i \in 0 .. m.cap - 1 : \E j \in 1 .. Len(m.buckets[i]) : e = m.buckets[i][j]
         /\ EntrySet(m) \subseteq Entry
         /\ \A e \in EntrySet(m) : e \in Entry /\ e.key \in Keys /\ e.val \in Vals
         /\ \A e \in EntrySet(m) : e \in ToSet(Chain(m, e.key))
         /\ \A e, f \in EntrySet(m) : e.key = f.key => e = f
<1>1. \A i \in 0 .. m.cap - 1 : m.buckets[i] \in Seq(Entry)  BY DEF Placed
<1>2. \A i \in 0 .. m.cap - 1 : DOMAIN m.buckets[i] = 1 .. Len(m.buckets[i])  BY <1>1
<1>3. \A e : e \in EntrySet(m) <=>
        \E i \in 0 .. m.cap - 1 : \E j \in 1 .. Len(m.buckets[i]) : e = m.buckets[i][j]
  BY <1>2 DEF EntrySet, ToSet
<1>4. ASSUME NEW e \in EntrySet(m)
      PROVE  /\ e \in Entry /\ e.key \in Keys /\ e.val \in Vals
             /\ \E j \in 1 .. Len(Chain(m, e.key)) : e = Chain(m, e.key)[j]
  <2>0. PICK i \in 0 .. m.cap - 1 : \E j \in 1 .. Len(m.buckets[i]) : e = m.buckets[i][j]  BY <1>3
  <2>1. PICK j \in 1 .. Len(m.buckets[i]) : e = m.buckets[i][j]  BY <2>0
  <2>2. e \in Entry  BY <1>1, <2>1
  <2>3. Idx(m, e.key) = i  BY <2>1 DEF Placed
  <2>4. e.key \in Keys /\ e.val \in Vals  BY <2>2 DEF Entry
  <2> QED  BY <2>1, <2>2, <2>3, <2>4 DEF Chain
<1>5. ASSUME NEW e \in EntrySet(m) PROVE e \in ToSet(Chain(m, e.key))
  <2>1. Chain(m, e.key) \in Seq(Entry)  BY <1>4, <1>5, IdxIn
  <2>2. DOMAIN Chain(m, e.key) = 1 .. Len(Chain(m, e.key))  BY <2>1
  <2> QED  BY <1>4, <1>5, <2>2 DEF ToSet
<1>6. ASSUME NEW e \in EntrySet(m), NEW f \in EntrySet(m), e.key = f.key PROVE e = f
  <2>1. e.key \in Keys  BY <1>4
  <2>2. Distinct(Chain(m, e.key))  BY <2>1, IdxIn
  <2>3. PICK i \in 1 .. Len(Chain(m, e.key)) : e = Chain(m, e.key)[i]  BY <1>4
  <2>4. PICK j \in 1 .. Len(Chain(m, e.key)) : f = Chain(m, e.key)[j]  BY <1>4, <1>6
  <2> QED  BY <1>6, <2>2, <2>3, <2>4 DEF Distinct
<1> QED  BY <1>3, <1>4, <1>5, <1>6

(* nncmap_has looks for the key in the whole map. *)
LEMMA HasIs ==
  ASSUME HashOK, NEW m, Placed(m), NEW k \in Keys
  PROVE  /\ NncmapHas(m, k) <=> k \in KeysOf(m)
         /\ ~NncmapHas(m, k) => Find(Chain(m, k), k) = 0 /\ \A j \in 1 .. Len(Chain(m, k)) : Chain(m, k)[j].key # k
         /\ NncmapHas(m, k) => /\ Find(Chain(m, k), k) \in 1 .. Len(Chain(m, k))
                               /\ Chain(m, k)[Find(Chain(m, k), k)].key = k
                               /\ Chain(m, k)[Find(Chain(m, k), k)] \in EntrySet(m)
<1> DEFINE c == Chain(m, k)
<1>1. c \in Seq(Entry) /\ Idx(m, k) \in 0 .. m.cap - 1 /\ c = m.buckets[Idx(m, k)]  BY IdxIn
<1>2. DOMAIN c = 1 .. Len(c) /\ Len(c) \in Nat  BY <1>1
<1>3. NncmapHas(m, k) <=> Find(c, k) # 0  BY DEF NncmapHas
<1> HIDE DEF c
<1>4. \/ Find(c, k) = 0 /\ \A j \in 1 .. Len(c) : c[j].key # k
      \/ Find(c, k) \in 1 .. Len(c) /\ c[Find(c, k)].key = k  BY <1>1, FindKey
<1>5. CASE Find(c, k) = 0
  <2>1. \A j \in 1 .. Len(c) : c[j].key # k  BY <1>2, <1>4, <1>5
  <2>2. ASSUME NEW e \in EntrySet(m), e.key = k PROVE FALSE
    <3>1. e \in ToSet(c)  BY <2>2, EntryIn DEF c
    <3> QED  BY <1>2, <2>1, <2>2, <3>1 DEF ToSet
  <2> QED  BY <1>3, <1>5, <2>1, <2>2 DEF KeysOf, c
<1>6. CASE Find(c, k) # 0
  <2>1. Find(c, k) \in 1 .. Len(c) /\ c[Find(c, k)].key = k  BY <1>4, <1>6
  <2>2. c[Find(c, k)] \in EntrySet(m)  BY <1>1, <2>1, EntryIn
  <2> QED  BY <1>3, <1>6, <2>1, <2>2 DEF KeysOf, c
<1> QED  BY <1>5, <1>6

(* A map with another chain in one bucket. *)
LEMMA ChainSwap ==
  ASSUME HashOK, NEW m, Placed(m), NEW i \in 0 .. m.cap - 1, NEW d \in Seq(Entry), Distinct(d),
         \A x \in ToSet(d) : Idx(m, x.key) = i,
         NEW n, Record(n), n.cap = m.cap, n.buckets = [m.buckets EXCEPT ![i] = d]
  PROVE  /\ Placed(n)
         /\ \A x : x \in EntrySet(n) <=> x \in ToSet(d) \/ (x \in EntrySet(m) /\ Idx(m, x.key) # i)
<1>1. m.cap \in Nat \ {0} /\ m.buckets \in [0 .. m.cap - 1 -> Seq(Entry)]  BY DEF Placed
<1>2. n.buckets \in [0 .. n.cap - 1 -> Seq(Entry)]  BY <1>1
<1>3. n.buckets[i] = d /\ \A a \in 0 .. m.cap - 1 : a # i => n.buckets[a] = m.buckets[a]  BY <1>1
<1>4. \A k : Idx(n, k) = Idx(m, k)  BY DEF Idx
<1>5. DOMAIN d = 1 .. Len(d)  OBVIOUS
<1>6. \A j \in 1 .. Len(d) : d[j] \in ToSet(d)  BY <1>5 DEF ToSet
<1>7. Placed(n)
  <2>1. ASSUME NEW a \in 0 .. n.cap - 1
        PROVE  /\ \A j \in 1 .. Len(n.buckets[a]) : Idx(n, n.buckets[a][j].key) = a
               /\ Distinct(n.buckets[a])
    <3>1. CASE a = i  BY <1>3, <1>4, <1>6, <3>1
    <3>2. CASE a # i  BY <1>3, <1>4, <3>2 DEF Placed
    <3> QED  BY <3>1, <3>2
  <2> QED  BY <1>1, <1>2, <2>1 DEF Placed
<1>8. ASSUME NEW x \in EntrySet(n) PROVE x \in ToSet(d) \/ (x \in EntrySet(m) /\ Idx(m, x.key) # i)
  <2>1. PICK a \in 0 .. n.cap - 1 : \E j \in 1 .. Len(n.buckets[a]) : x = n.buckets[a][j]  BY <1>7, EntryIn
  <2>2. CASE a = i  BY <1>3, <1>6, <2>1, <2>2
  <2>3. CASE a # i
    <3>1. \E j \in 1 .. Len(m.buckets[a]) : x = m.buckets[a][j]  BY <1>3, <2>1, <2>3
    <3>2. x \in EntrySet(m)  BY <3>1, EntryIn
    <3>3. Idx(m, x.key) = a  BY <3>1 DEF Placed
    <3> QED  BY <2>3, <3>2, <3>3
  <2> QED  BY <2>2, <2>3
<1>9. ASSUME NEW x \in ToSet(d) PROVE x \in EntrySet(n)
  <2>1. PICK j \in 1 .. Len(d) : x = d[j]  BY <1>5 DEF ToSet
  <2> QED  BY <1>3, <1>7, <2>1, EntryIn
<1>10. ASSUME NEW x \in EntrySet(m), Idx(m, x.key) # i PROVE x \in EntrySet(n)
  <2>1. PICK a \in 0 .. m.cap - 1 : \E j \in 1 .. Len(m.buckets[a]) : x = m.buckets[a][j]  BY EntryIn
  <2>2. Idx(m, x.key) = a  BY <2>1 DEF Placed
  <2>3. \E j \in 1 .. Len(n.buckets[a]) : x = n.buckets[a][j]  BY <1>3, <1>10, <2>1, <2>2
  <2> QED  BY <1>7, <2>3, EntryIn
<1> QED  BY <1>7, <1>8, <1>9, <1>10

(* The nodes of a map with a longer chain in one bucket. *)
LEMMA NodesGrow ==
  ASSUME NEW m, Placed(m), NEW i \in 0 .. m.cap - 1, NEW d \in Seq(Entry),
         NEW n, n.cap = m.cap, n.buckets = [m.buckets EXCEPT ![i] = d], Len(d) = Len(m.buckets[i]) + 1
  PROVE  ChainNodes(n) = IF Len(m.buckets[i]) = 0 THEN ChainNodes(m) ELSE ChainNodes(m) \cup {<<i, Len(d)>>}
<1>1. m.cap \in Nat \ {0} /\ m.buckets \in [0 .. m.cap - 1 -> Seq(Entry)]  BY DEF Placed
<1>2. n.buckets[i] = d /\ \A a \in 0 .. m.cap - 1 : a # i => n.buckets[a] = m.buckets[a]  BY <1>1
<1>0. m.buckets[i] \in Seq(Entry)  BY <1>1
<1>3. PICK l \in Nat : l = Len(m.buckets[i])  BY <1>0
<1>4. \A x : x \in ChainNodes(m) <=> \E a \in 0 .. m.cap - 1 : \E b \in 2 .. Len(m.buckets[a]) : x = <<a, b>>
  BY DEF ChainNodes
<1>5. \A x : x \in ChainNodes(n) <=> \E a \in 0 .. m.cap - 1 : \E b \in 2 .. Len(n.buckets[a]) : x = <<a, b>>
  BY DEF ChainNodes
<1>6. 2 .. Len(d) = IF l = 0 THEN 2 .. l ELSE (2 .. l) \cup {Len(d)}
  <2>1. Len(d) = l + 1  BY <1>3
  <2>2. \A b : b \in 2 .. l + 1 <=> IF l = 0 THEN b \in 2 .. l ELSE b \in 2 .. l \/ b = l + 1  OBVIOUS
  <2>3. CASE l = 0  BY <2>1, <2>2, <2>3
  <2>4. CASE l # 0
    <3>1. 2 .. l + 1 = (2 .. l) \cup {l + 1}  BY <2>2, <2>4
    <3> QED  BY <2>1, <2>4, <3>1
  <2> QED  BY <2>3, <2>4
<1>7. ASSUME NEW x \in ChainNodes(n) PROVE x \in ChainNodes(m) \/ (l # 0 /\ x = <<i, Len(d)>>)
  <2>1. PICK a \in 0 .. m.cap - 1 : \E b \in 2 .. Len(n.buckets[a]) : x = <<a, b>>  BY <1>5
  <2>2. CASE a # i  BY <1>2, <1>4, <2>1, <2>2
  <2>3. CASE a = i
    <3>1. PICK b \in 2 .. Len(d) : x = <<i, b>>  BY <1>2, <2>1, <2>3
    <3>2. b \in 2 .. l \/ (l # 0 /\ b = Len(d))  BY <1>6, <3>1
    <3> QED  BY <1>3, <1>4, <3>1, <3>2
  <2> QED  BY <2>2, <2>3
<1>8. ASSUME NEW x \in ChainNodes(m) PROVE x \in ChainNodes(n)
  <2>1. PICK a \in 0 .. m.cap - 1 : \E b \in 2 .. Len(m.buckets[a]) : x = <<a, b>>  BY <1>4
  <2>2. CASE a # i  BY <1>2, <1>5, <2>1, <2>2
  <2>3. CASE a = i  BY <1>2, <1>3, <1>5, <1>6, <2>1, <2>3
  <2> QED  BY <2>2, <2>3
<1>9. l # 0 => <<i, Len(d)>> \in ChainNodes(n)  BY <1>2, <1>5, <1>6
<1> QED  BY <1>3, <1>7, <1>8, <1>9

(* ... and the position added is not one of the old nodes. *)
LEMMA NodeIsNew ==
  ASSUME NEW m, Placed(m), NEW i \in 0 .. m.cap - 1
  PROVE  <<i, Len(m.buckets[i]) + 1>> \notin ChainNodes(m)
<1>1. m.buckets[i] \in Seq(Entry)  BY DEF Placed
<1>2. PICK l \in Nat : l = Len(m.buckets[i])  BY <1>1
<1>3. ASSUME NEW a \in 0 .. m.cap - 1, NEW b \in 2 .. Len(m.buckets[a]), <<i, l + 1>> = <<a, b>> PROVE FALSE
  <2>1. a = i /\ b = l + 1  BY <1>3
  <2>2. b \in 2 .. l  BY <1>2, <2>1
  <2> QED  BY <2>1, <2>2
<1> QED  BY <1>2, <1>3 DEF ChainNodes

(* What nncmap_put does to the fields of the map it has found room in. *)
Fields(m, k, v, n, c, p) ==
  /\ Record(n) /\ n.cap = m.cap
  /\ n.buckets = [m.buckets EXCEPT ![Idx(m, k)] =
                    Append(IF p = 0 THEN c ELSE SubSeq(c, 1, p - 1), [key |-> k, val |-> v])]
  /\ n.len = (IF p = 0 THEN m.len + 1 ELSE m.len)
  /\ n.nodes = (IF p = 0 /\ c # <<>> THEN m.nodes + 1 ELSE m.nodes)
  /\ n.cut = m.cut + (IF p = 0 THEN 0 ELSE Len(c) - p)
  /\ n.leak = m.leak + (IF p = 0 THEN 0 ELSE Len(c) - p)

LEMMA PutFields ==
  ASSUME NEW m, Record(m), NEW k, NEW v
  PROVE  Fields(m, k, v, PutInChain(m, k, v), Chain(m, k), Find(Chain(m, k), k))
<1>1. m = [cap |-> m.cap, len |-> m.len, nodes |-> m.nodes, cut |-> m.cut, leak |-> m.leak, buckets |-> m.buckets]  BY DEF Record
<1>2. ASSUME NEW n, n = PutInChain(m, k, v), NEW c, c = Chain(m, k), NEW p, p = Find(c, k)
      PROVE  Fields(m, k, v, n, c, p)
  BY <1>1, <1>2 DEF PutInChain, Record, Fields
<1> QED  BY <1>2

(* A put keeps the map well formed, and adds nothing but its entry. *)
LEMMA PutPlaced ==
  ASSUME HashOK, NEW m, Placed(m), NEW k \in Keys, NEW v \in Vals
  PROVE  /\ Placed(PutInChain(m, k, v))
         /\ EntrySet(PutInChain(m, k, v)) \subseteq EntrySet(m) \cup {[key |-> k, val |-> v]}
<1> DEFINE n == PutInChain(m, k, v)
           c == Chain(m, k)
           p == Find(c, k)
           e == [key |-> k, val |-> v]
           d == Append(IF p = 0 THEN c ELSE SubSeq(c, 1, p - 1), e)
           i == Idx(m, k)
<1>1. Record(n) /\ n.cap = m.cap /\ n.buckets = [m.buckets EXCEPT ![i] = d]
  <2>1. Fields(m, k, v, n, c, p)  BY PutFields DEF Placed
  <2> QED  BY <2>1 DEF Fields
<1>2. i \in 0 .. m.cap - 1 /\ c = m.buckets[i] /\ c \in Seq(Entry) /\ Distinct(c)  BY IdxIn
<1>3. e \in Entry /\ e.key = k  BY DEF Entry
<1>4. d \in Seq(Entry) /\ Distinct(d) /\ ToSet(d) \subseteq ToSet(c) \cup {e}
  <2>1. \/ p = 0 /\ \A j \in 1 .. Len(c) : c[j].key # k
        \/ p \in 1 .. Len(c) /\ c[p].key = k  BY <1>2, FindKey
  <2>2. CASE p = 0
    <3>1. d = Append(c, e)  BY <2>2
    <3>2. \A j \in 1 .. Len(c) : c[j].key # e.key  BY <1>2, <1>3, <2>1, <2>2
    <3> HIDE DEF c, p, e, d
    <3> QED  BY <1>2, <1>3, <3>1, <3>2, ChainAppend
  <2>3. CASE p # 0
    <3>0. p \in 1 .. Len(c) /\ c[p].key = k  BY <2>1, <2>3
    <3> DEFINE b == SubSeq(c, 1, p - 1)
    <3>1. d = Append(b, e)  BY <2>3
    <3> HIDE DEF c, p, e, d
    <3>2. b \in Seq(Entry) /\ Distinct(b) /\ ToSet(b) \subseteq ToSet(c)
          /\ \A j \in 1 .. Len(b) : b[j].key # e.key
      <4> HIDE DEF i
      <4>1. /\ SubSeq(c, 1, p - 1) \in Seq(Entry) /\ Distinct(SubSeq(c, 1, p - 1))
            /\ ToSet(SubSeq(c, 1, p - 1)) \subseteq ToSet(c)
            /\ \A j \in 1 .. Len(SubSeq(c, 1, p - 1)) : SubSeq(c, 1, p - 1)[j].key # c[p].key
        BY <1>2, <3>0, ChainCut, Zenon
      <4>2. c[p].key = e.key  BY <1>3, <3>0
      <4>3. b = SubSeq(c, 1, p - 1)  OBVIOUS
      <4> HIDE DEF b
      <4> QED  BY <4>1, <4>2, <4>3, Zenon
    <3> HIDE DEF b
    <3>3. d \in Seq(Entry) /\ Distinct(d) /\ ToSet(d) = ToSet(b) \cup {e}  BY <1>3, <3>1, <3>2, ChainAppend
    <3> QED  BY <3>2, <3>3
  <2> QED  BY <2>2, <2>3
<1>5. \A x \in ToSet(c) : Idx(m, x.key) = i /\ x \in EntrySet(m)
  <2>1. DOMAIN c = 1 .. Len(c)  BY <1>2
  <2> SUFFICES ASSUME NEW j \in 1 .. Len(c) PROVE Idx(m, c[j].key) = i /\ c[j] \in EntrySet(m)
    BY <2>1 DEF ToSet
  <2> HIDE DEF c, i
  <2>2. Idx(m, c[j].key) = i  BY <1>2 DEF Placed
  <2>3. c[j] \in EntrySet(m)  BY <1>2, EntryIn
  <2> QED  BY <2>2, <2>3
<1>6. Idx(m, e.key) = i  BY <1>3
<1> HIDE DEF n, c, p, e, d, i
<1>7. \A x \in ToSet(d) : Idx(m, x.key) = i  BY <1>4, <1>5, <1>6
<1>8. /\ Placed(n)
      /\ \A x : x \in EntrySet(n) <=> x \in ToSet(d) \/ (x \in EntrySet(m) /\ Idx(m, x.key) # i)
  BY <1>1, <1>2, <1>4, <1>7, ChainSwap
<1>9. EntrySet(n) \subseteq EntrySet(m) \cup {e}  BY <1>4, <1>5, <1>8
<1> QED  BY <1>8, <1>9 DEF n, e

(* A put of a key that is not in the map adds its entry and counts it. *)
LEMMA PutNew ==
  ASSUME HashOK, NEW m, Placed(m), NEW k \in Keys, NEW v \in Vals, k \notin KeysOf(m)
  PROVE  /\ EntrySet(PutInChain(m, k, v)) = EntrySet(m) \cup {[key |-> k, val |-> v]}
         /\ Counted(m) => Counted(PutInChain(m, k, v))
<1> DEFINE n == PutInChain(m, k, v)
           c == Chain(m, k)
           p == Find(c, k)
           e == [key |-> k, val |-> v]
           d == Append(c, e)
           i == Idx(m, k)
<1>1. p = 0 /\ \A j \in 1 .. Len(c) : c[j].key # k  BY HasIs
<1>2. /\ Record(n) /\ n.cap = m.cap /\ n.buckets = [m.buckets EXCEPT ![i] = d]
      /\ n.len = m.len + 1 /\ n.nodes = (IF c # <<>> THEN m.nodes + 1 ELSE m.nodes)
      /\ n.cut = m.cut + 0 /\ n.leak = m.leak + 0
  <2> HIDE DEF n, p, c, e, i, d
  <2>2. /\ Record(n) /\ n.cap = m.cap
        /\ n.buckets = [m.buckets EXCEPT ![i] = Append(IF p = 0 THEN c ELSE SubSeq(c, 1, p - 1), e)]
        /\ n.len = (IF p = 0 THEN m.len + 1 ELSE m.len)
        /\ n.nodes = (IF p = 0 /\ c # <<>> THEN m.nodes + 1 ELSE m.nodes)
        /\ n.cut = m.cut + (IF p = 0 THEN 0 ELSE Len(c) - p)
        /\ n.leak = m.leak + (IF p = 0 THEN 0 ELSE Len(c) - p)
    <3>1. Fields(m, k, v, n, c, p)  BY PutFields DEF Placed, n, p, c
    <3> QED  BY <3>1 DEF Fields, e, i
  <2>3. d = Append(IF p = 0 THEN c ELSE SubSeq(c, 1, p - 1), e)  BY <1>1 DEF d
  <2> QED  BY <1>1, <2>2, <2>3
<1>3. i \in 0 .. m.cap - 1 /\ c = m.buckets[i] /\ c \in Seq(Entry) /\ Distinct(c)  BY IdxIn
<1>4. e \in Entry /\ e.key = k  BY DEF Entry
<1>5. d \in Seq(Entry) /\ Len(d) = Len(c) + 1 /\ Distinct(d) /\ ToSet(d) = ToSet(c) \cup {e}
  <2>1. \A j \in 1 .. Len(c) : c[j].key # e.key  BY <1>1, <1>4
  <2> HIDE DEF c, e
  <2> QED  BY <1>3, <1>4, <2>1, ChainAppend
<1>6. \A x \in ToSet(c) : Idx(m, x.key) = i /\ x \in EntrySet(m)
  <2>1. DOMAIN c = 1 .. Len(c)  BY <1>3
  <2> SUFFICES ASSUME NEW j \in 1 .. Len(c) PROVE Idx(m, c[j].key) = i /\ c[j] \in EntrySet(m)
    BY <2>1 DEF ToSet
  <2> HIDE DEF c, i
  <2>2. Idx(m, c[j].key) = i  BY <1>3 DEF Placed
  <2>3. c[j] \in EntrySet(m)  BY <1>3, EntryIn
  <2> QED  BY <2>2, <2>3
<1>7. \A x \in EntrySet(m) : Idx(m, x.key) = i => x \in ToSet(c)
  <2> SUFFICES ASSUME NEW x \in EntrySet(m), Idx(m, x.key) = i PROVE x \in ToSet(c)  OBVIOUS
  <2>1. x \in ToSet(Chain(m, x.key))  BY EntryIn
  <2>2. Chain(m, x.key) = c  BY DEF Chain
  <2> QED  BY <2>1, <2>2
<1>8. Idx(m, e.key) = i  BY <1>4
<1>9. e \notin EntrySet(m)  BY <1>4 DEF KeysOf
<1> HIDE DEF n, c, p, e, d, i
<1>10. EntrySet(n) = EntrySet(m) \cup {e}
  <2>1. \A x \in ToSet(d) : Idx(m, x.key) = i  BY <1>5, <1>6, <1>8
  <2>2. \A x : x \in EntrySet(n) <=> x \in ToSet(d) \/ (x \in EntrySet(m) /\ Idx(m, x.key) # i)
    BY <1>2, <1>3, <1>5, <2>1, ChainSwap
  <2> QED  BY <1>5, <1>6, <1>7, <2>2
<1>11. ASSUME Counted(m) PROVE Counted(n)
  <2>0. n.cut = m.cut /\ n.leak = m.leak /\ n.cut \in Nat /\ n.leak \in Nat  BY <1>2, <1>11 DEF Counted
  <2>1. IsFiniteSet(EntrySet(n)) /\ n.len = Cardinality(EntrySet(n)) + n.cut
    <3>1. IsFiniteSet(EntrySet(n)) /\ Cardinality(EntrySet(n)) = Cardinality(EntrySet(m)) + 1
      BY <1>9, <1>10, <1>11, FS_AddElement DEF Counted
    <3>2. Cardinality(EntrySet(m)) \in Nat  BY <1>11, FS_CardinalityType DEF Counted
    <3> QED  BY <1>2, <1>11, <2>0, <3>1, <3>2 DEF Counted
  <2>2. ChainNodes(n) = IF Len(m.buckets[i]) = 0 THEN ChainNodes(m) ELSE ChainNodes(m) \cup {<<i, Len(d)>>}
    BY <1>2, <1>3, <1>5, NodesGrow
  <2>3. <<i, Len(d)>> \notin ChainNodes(m)  BY <1>3, <1>5, NodeIsNew
  <2>4. Len(m.buckets[i]) = 0 <=> c = <<>>  BY <1>3
  <2>5. CASE c = <<>>  BY <1>2, <1>11, <2>0, <2>1, <2>2, <2>4, <2>5 DEF Counted
  <2>6. CASE c # <<>>
    <3> DEFINE x == <<i, Len(d)>>
    <3>1. ChainNodes(n) = ChainNodes(m) \cup {x} /\ x \notin ChainNodes(m)  BY <2>2, <2>3, <2>4, <2>6
    <3> HIDE DEF x
    <3>2. IsFiniteSet(ChainNodes(n)) /\ Cardinality(ChainNodes(n)) = Cardinality(ChainNodes(m)) + 1
      BY <1>11, <3>1, FS_AddElement DEF Counted
    <3>3. Cardinality(ChainNodes(m)) \in Nat  BY <1>11, FS_CardinalityType DEF Counted
    <3>4. n.nodes = Cardinality(ChainNodes(n)) + n.leak  BY <1>2, <1>11, <2>0, <2>6, <3>2, <3>3 DEF Counted
    <3> QED  BY <2>0, <2>1, <3>2, <3>4 DEF Counted
  <2> QED  BY <2>5, <2>6
<1> QED  BY <1>10, <1>11 DEF n, e

(* Taking away a subset. *)
LEMMA CountLess ==
  ASSUME NEW S, IsFiniteSet(S), NEW T, T \subseteq S
  PROVE  IsFiniteSet(S \ T) /\ Cardinality(S \ T) = Cardinality(S) - Cardinality(T)
<1>1. IsFiniteSet(S \ T) /\ Cardinality(S \ T) = Cardinality(S) - Cardinality(S \cap T)  BY FS_Difference, Zenon
<1>2. S \cap T = T  OBVIOUS
<1> QED  BY <1>1, <1>2, Zenon

(* n is m with a chain d of length p in bucket i, where l entries were. *)
CutAt(m, i, d, p, l, n) ==
  /\ i \in 0 .. m.cap - 1 /\ d \in Seq(Entry) /\ Len(d) = p
  /\ l \in Nat /\ l = Len(m.buckets[i]) /\ p \in 1 .. l
  /\ n.cap = m.cap /\ n.buckets = [m.buckets EXCEPT ![i] = d]

(* The nodes of a map whose chain in one bucket ends at position p. *)
LEMMA NodesCut ==
  ASSUME NEW m, Placed(m), NEW i, NEW d, NEW p, NEW l, NEW n, CutAt(m, i, d, p, l, n),
         IsFiniteSet(ChainNodes(m))
  PROVE  /\ IsFiniteSet(ChainNodes(n))
         /\ Cardinality(ChainNodes(m)) = Cardinality(ChainNodes(n)) + (l - p)
<1> /\ i \in 0 .. m.cap - 1 /\ d \in Seq(Entry) /\ Len(d) = p
    /\ l \in Nat /\ l = Len(m.buckets[i]) /\ p \in 1 .. l
    /\ n.cap = m.cap /\ n.buckets = [m.buckets EXCEPT ![i] = d]
  BY DEF CutAt
<1>1. m.cap \in Nat \ {0} /\ m.buckets \in [0 .. m.cap - 1 -> Seq(Entry)]  BY DEF Placed
<1>2. n.buckets[i] = d /\ \A a \in 0 .. m.cap - 1 : a # i => n.buckets[a] = m.buckets[a]  BY <1>1
<1>3. l \in Nat /\ l = Len(m.buckets[i])  OBVIOUS
<1>4. \A x : x \in ChainNodes(m) <=> \E a \in 0 .. m.cap - 1 : \E b \in 2 .. Len(m.buckets[a]) : x = <<a, b>>
  BY DEF ChainNodes
<1>5. \A x : x \in ChainNodes(n) <=> \E a \in 0 .. m.cap - 1 : \E b \in 2 .. Len(n.buckets[a]) : x = <<a, b>>
  BY DEF ChainNodes
<1>6. p \in 1 .. l  OBVIOUS
<1> DEFINE T == {i} \X (p + 1 .. l)
<1>7. \A x : x \in T <=> \E b \in p + 1 .. l : x = <<i, b>>  OBVIOUS
<1>8. IsFiniteSet(T) /\ Cardinality(T) = l - p
  <2>1. IsFiniteSet(p + 1 .. l) /\ Cardinality(p + 1 .. l) = l - p
    <3>1. p + 1 \in Int /\ l \in Int  BY <1>6
    <3>2. /\ IsFiniteSet(p + 1 .. l)
          /\ Cardinality(p + 1 .. l) = IF p + 1 > l THEN 0 ELSE l - (p + 1) + 1  BY <3>1, FS_Interval
    <3> QED  BY <1>6, <3>2
  <2>2. IsFiniteSet({i}) /\ Cardinality({i}) = 1  BY FS_Singleton
  <2>3. IsFiniteSet(T) /\ Cardinality(T) = Cardinality({i}) * Cardinality(p + 1 .. l)  BY <2>1, <2>2, FS_Product
  <2>4. l - p \in Nat  BY <1>6
  <2> QED  BY <2>1, <2>2, <2>3, <2>4
<1> HIDE DEF T
<1>9. \A x \in T : x \in ChainNodes(m)
  <2>1. \A b \in p + 1 .. l : b \in 2 .. Len(m.buckets[i])  BY <1>3, <1>6
  <2> QED  BY <1>4, <1>7, <2>1
<1>10. ChainNodes(n) = ChainNodes(m) \ T
  <2>1. ASSUME NEW x \in ChainNodes(n) PROVE x \in ChainNodes(m) /\ x \notin T
    <3>1. PICK a \in 0 .. m.cap - 1 : \E b \in 2 .. Len(n.buckets[a]) : x = <<a, b>>  BY <1>5
    <3>2. CASE a # i  BY <1>2, <1>4, <1>7, <3>1, <3>2
    <3>3. CASE a = i
      <4>1. PICK b \in 2 .. p : x = <<i, b>>  BY <1>2, <3>1, <3>3
      <4>2. b \in 2 .. Len(m.buckets[i]) /\ b \notin p + 1 .. l  BY <1>3, <1>6
      <4> QED  BY <1>4, <1>7, <4>1, <4>2
    <3> QED  BY <3>2, <3>3
  <2>2. ASSUME NEW x \in ChainNodes(m), x \notin T PROVE x \in ChainNodes(n)
    <3>1. PICK a \in 0 .. m.cap - 1 : \E b \in 2 .. Len(m.buckets[a]) : x = <<a, b>>  BY <1>4
    <3>2. CASE a # i  BY <1>2, <1>5, <3>1, <3>2
    <3>3. CASE a = i
      <4>1. PICK b \in 2 .. l : x = <<i, b>>  BY <1>3, <3>1, <3>3
      <4>2. b \notin p + 1 .. l  BY <1>7, <2>2, <4>1
      <4>3. b \in 2 .. Len(n.buckets[i])  BY <1>2, <1>6, <4>1, <4>2
      <4> QED  BY <1>5, <4>1, <4>3
    <3> QED  BY <3>2, <3>3
  <2> QED  BY <2>1, <2>2
<1>11. IsFiniteSet(ChainNodes(n)) /\ Cardinality(ChainNodes(n)) = Cardinality(ChainNodes(m)) - (l - p)
  <2>1. T \subseteq ChainNodes(m)  BY <1>9
  <2>2. /\ IsFiniteSet(ChainNodes(m) \ T)
        /\ Cardinality(ChainNodes(m) \ T) = Cardinality(ChainNodes(m)) - Cardinality(T)
    BY <2>1, CountLess, Zenon
  <2> QED  BY <1>8, <1>10, <2>2
<1>12. Cardinality(ChainNodes(m)) \in Nat /\ l - p \in Nat  BY <1>6, FS_CardinalityType
<1> QED  BY <1>3, <1>11, <1>12

(* A put of a key that is in the map rewrites its entry, adds no other, and *)
(* counts what it cuts off.                                                 *)
LEMMA PutOld ==
  ASSUME HashOK, NEW m, Placed(m), NEW k \in Keys, NEW v \in Vals, k \in KeysOf(m)
  PROVE  /\ [key |-> k, val |-> v] \in EntrySet(PutInChain(m, k, v))
         /\ Counted(m) => Counted(PutInChain(m, k, v))
<1> DEFINE n == PutInChain(m, k, v)
           c == Chain(m, k)
           p == Find(c, k)
           e == [key |-> k, val |-> v]
           b == SubSeq(c, 1, p - 1)
           d == Append(b, e)
           i == Idx(m, k)
<1>1. p \in 1 .. Len(c) /\ c[p].key = k  BY HasIs
<1>3. i \in 0 .. m.cap - 1 /\ c = m.buckets[i] /\ c \in Seq(Entry) /\ Distinct(c)  BY IdxIn
<1>4. e \in Entry /\ e.key = k  BY DEF Entry
<1>0. PICK l \in Nat : l = Len(c) /\ p \in 1 .. l  BY <1>1, <1>3
<1>2. /\ Record(n) /\ n.cap = m.cap /\ n.buckets = [m.buckets EXCEPT ![i] = d]
      /\ n.len = m.len /\ n.nodes = m.nodes
      /\ n.cut = m.cut + (l - p) /\ n.leak = m.leak + (l - p)
  <2> HIDE DEF n, p, c, e, i, d
  <2>2. /\ Record(n) /\ n.cap = m.cap
        /\ n.buckets = [m.buckets EXCEPT ![i] = Append(IF p = 0 THEN c ELSE b, e)]
        /\ n.len = (IF p = 0 THEN m.len + 1 ELSE m.len)
        /\ n.nodes = (IF p = 0 /\ c # <<>> THEN m.nodes + 1 ELSE m.nodes)
        /\ n.cut = m.cut + (IF p = 0 THEN 0 ELSE Len(c) - p)
        /\ n.leak = m.leak + (IF p = 0 THEN 0 ELSE Len(c) - p)
    <3>1. Fields(m, k, v, n, c, p)  BY PutFields DEF Placed, n, p, c
    <3> QED  BY <3>1 DEF Fields, e, i
  <2>3. p # 0  BY <1>0
  <2>4. d = Append(IF p = 0 THEN c ELSE b, e)  BY <2>3 DEF d
  <2> HIDE DEF b
  <2> QED  BY <1>0, <2>2, <2>3, <2>4
<1>5. b \in Seq(Entry) /\ Len(b) = p - 1 /\ Distinct(b) /\ ToSet(b) \subseteq ToSet(c)
      /\ \A j \in 1 .. Len(b) : b[j].key # e.key
  <2>1. c[p].key = e.key  BY <1>1, <1>4
  <2> HIDE DEF c, p, e, i, b
  <2>2. /\ SubSeq(c, 1, p - 1) \in Seq(Entry) /\ Len(SubSeq(c, 1, p - 1)) = p - 1
        /\ Distinct(SubSeq(c, 1, p - 1)) /\ ToSet(SubSeq(c, 1, p - 1)) \subseteq ToSet(c)
        /\ \A j \in 1 .. Len(SubSeq(c, 1, p - 1)) : SubSeq(c, 1, p - 1)[j].key # c[p].key
    BY <1>1, <1>3, ChainCut, Zenon
  <2>3. b = SubSeq(c, 1, p - 1)  BY DEF b
  <2> QED  BY <2>1, <2>2, <2>3, Zenon
<1>6. d \in Seq(Entry) /\ Len(d) = p /\ Distinct(d) /\ ToSet(d) = ToSet(b) \cup {e}
  <2> HIDE DEF c, p, e, i, b
  <2>1. d \in Seq(Entry) /\ Len(d) = Len(b) + 1 /\ Distinct(d) /\ ToSet(d) = ToSet(b) \cup {e}
    BY <1>4, <1>5, ChainAppend
  <2> HIDE DEF d
  <2> QED  BY <1>0, <1>5, <2>1
<1>7. \A x \in ToSet(c) : Idx(m, x.key) = i /\ x \in EntrySet(m)
  <2>1. DOMAIN c = 1 .. Len(c)  BY <1>3
  <2> SUFFICES ASSUME NEW j \in 1 .. Len(c) PROVE Idx(m, c[j].key) = i /\ c[j] \in EntrySet(m)
    BY <2>1 DEF ToSet
  <2> HIDE DEF c, i
  <2>2. Idx(m, c[j].key) = i  BY <1>3 DEF Placed
  <2>3. c[j] \in EntrySet(m)  BY <1>3, EntryIn
  <2> QED  BY <2>2, <2>3
<1>8. \A x \in EntrySet(m) : Idx(m, x.key) = i => x \in ToSet(c)
  <2> SUFFICES ASSUME NEW x \in EntrySet(m), Idx(m, x.key) = i PROVE x \in ToSet(c)  OBVIOUS
  <2>1. x \in ToSet(Chain(m, x.key))  BY EntryIn
  <2>2. Chain(m, x.key) = c  BY DEF Chain
  <2> QED  BY <2>1, <2>2
<1>9. Idx(m, e.key) = i  BY <1>4
<1> HIDE DEF n, c, p, e, d, i, b
<1>10. EntrySet(n) = (EntrySet(m) \ ToSet(c)) \cup ToSet(d) /\ (EntrySet(m) \ ToSet(c)) \cap ToSet(d) = {}
  <2>1. \A x \in ToSet(d) : Idx(m, x.key) = i  BY <1>5, <1>6, <1>7, <1>9
  <2>2. \A x : x \in EntrySet(n) <=> x \in ToSet(d) \/ (x \in EntrySet(m) /\ Idx(m, x.key) # i)
    BY <1>2, <1>3, <1>6, <2>1, ChainSwap
  <2>3. \A x \in EntrySet(m) : x \in ToSet(c) <=> Idx(m, x.key) = i  BY <1>7, <1>8
  <2> QED  BY <2>1, <2>2, <2>3
<1>11. ASSUME Counted(m) PROVE Counted(n)
  <2>0. l - p \in Nat /\ n.cut \in Nat /\ n.leak \in Nat  BY <1>0, <1>2, <1>11 DEF Counted
  <2>1. IsFiniteSet(EntrySet(n)) /\ Cardinality(EntrySet(m)) = Cardinality(EntrySet(n)) + (l - p)
    <3>1. IsFiniteSet(ToSet(c)) /\ Cardinality(ToSet(c)) = l  BY <1>0, <1>3, DistinctCount
    <3>2. IsFiniteSet(ToSet(d)) /\ Cardinality(ToSet(d)) = p  BY <1>6, DistinctCount
    <3>3. PICK R : R = EntrySet(m) \ ToSet(c)  OBVIOUS
    <3>4. ToSet(c) \subseteq EntrySet(m) /\ IsFiniteSet(EntrySet(m))  BY <1>7, <1>11 DEF Counted
    <3>5. IsFiniteSet(R) /\ Cardinality(R) = Cardinality(EntrySet(m)) - l
      <4>1. /\ IsFiniteSet(EntrySet(m) \ ToSet(c))
            /\ Cardinality(EntrySet(m) \ ToSet(c)) = Cardinality(EntrySet(m)) - Cardinality(ToSet(c))
        BY <3>4, CountLess, Zenon
      <4> QED  BY <3>1, <3>3, <4>1
    <3>6. EntrySet(n) = R \cup ToSet(d) /\ R \cap ToSet(d) = {}  BY <1>10, <3>3
    <3>7. /\ IsFiniteSet(EntrySet(n))
          /\ Cardinality(EntrySet(n)) = Cardinality(R) + Cardinality(ToSet(d)) - Cardinality({})
      BY <3>2, <3>5, <3>6, FS_Union
    <3>8. Cardinality({}) = 0  BY FS_EmptySet
    <3>9. Cardinality(EntrySet(m)) \in Nat  BY <1>11, FS_CardinalityType DEF Counted
    <3> QED  BY <1>0, <3>2, <3>5, <3>7, <3>8, <3>9
  <2>2. IsFiniteSet(ChainNodes(n)) /\ Cardinality(ChainNodes(m)) = Cardinality(ChainNodes(n)) + (l - p)
    <3>1. p \in 1 .. Len(m.buckets[i]) /\ l = Len(m.buckets[i])  BY <1>0, <1>3
    <3>2. IsFiniteSet(ChainNodes(m))  BY <1>11 DEF Counted
    <3>3. CutAt(m, i, d, p, l, n)  BY <1>0, <1>2, <1>3, <1>6, <3>1 DEF CutAt
    <3> QED  BY <3>2, <3>3, NodesCut
  <2>3. PICK x \in Nat, y \in Nat : x = Cardinality(EntrySet(n)) /\ y = Cardinality(ChainNodes(n))
    BY <2>1, <2>2, FS_CardinalityType
  <2>4. n.len = x + n.cut /\ n.nodes = y + n.leak  BY <1>2, <1>11, <2>0, <2>1, <2>2, <2>3 DEF Counted
  <2> QED  BY <2>0, <2>1, <2>2, <2>3, <2>4 DEF Counted
<1>12. e \in EntrySet(n)  BY <1>6, <1>10
<1> QED  BY <1>11, <1>12 DEF n, e

(* A pop of a key that is in the map removes its entry and no other. *)
LEMMA PopEntry ==
  ASSUME HashOK, NEW m, Placed(m), NEW k \in Keys, k \in KeysOf(m)
  PROVE  /\ Placed(NncmapPop(m, k))
         /\ EntrySet(NncmapPop(m, k)) = {e \in EntrySet(m) : e.key # k}
         /\ Counted(m) => Counted(NncmapPop(m, k))
<1> DEFINE n == NncmapPop(m, k)
           c == Chain(m, k)
           p == Find(c, k)
           d == RemoveAt(c, p)
           i == Idx(m, k)
           e == c[p]
<1>1. p \in 1 .. Len(c) /\ e.key = k /\ e \in EntrySet(m)  BY HasIs
<1>2. /\ Record(n) /\ n.cap = m.cap /\ n.buckets = [m.buckets EXCEPT ![i] = d]
      /\ n.len = m.len - 1 /\ n.nodes = (IF Len(c) > 1 THEN m.nodes - 1 ELSE m.nodes)
      /\ n.cut = m.cut /\ n.leak = m.leak
  <2>1. m = [cap |-> m.cap, len |-> m.len, nodes |-> m.nodes, cut |-> m.cut, leak |-> m.leak, buckets |-> m.buckets]  BY DEF Placed, Record
  <2>2. n = [m EXCEPT !.buckets[i] = d, !.len = @ - 1, !.nodes = IF Len(c) > 1 THEN @ - 1 ELSE @]
    BY DEF NncmapPop
  <2> HIDE DEF n, c, p, d, i, e
  <2> QED  BY <2>1, <2>2 DEF Record
<1>3. i \in 0 .. m.cap - 1 /\ c = m.buckets[i] /\ c \in Seq(Entry) /\ Distinct(c)  BY IdxIn
<1>4. m.cap \in Nat \ {0} /\ m.buckets \in [0 .. m.cap - 1 -> Seq(Entry)]  BY DEF Placed
<1>5. \A x \in ToSet(c) : Idx(m, x.key) = i /\ x \in EntrySet(m)
  <2>1. DOMAIN c = 1 .. Len(c)  BY <1>3
  <2> SUFFICES ASSUME NEW j \in 1 .. Len(c) PROVE Idx(m, c[j].key) = i /\ c[j] \in EntrySet(m)
    BY <2>1 DEF ToSet
  <2> HIDE DEF c, i
  <2>2. Idx(m, c[j].key) = i  BY <1>3 DEF Placed
  <2>3. c[j] \in EntrySet(m)  BY <1>3, EntryIn
  <2> QED  BY <2>2, <2>3
<1>6. \A x \in EntrySet(m) : Idx(m, x.key) = i => x \in ToSet(c)
  <2> SUFFICES ASSUME NEW x \in EntrySet(m), Idx(m, x.key) = i PROVE x \in ToSet(c)  OBVIOUS
  <2>1. x \in ToSet(Chain(m, x.key))  BY EntryIn
  <2>2. Chain(m, x.key) = c  BY DEF Chain
  <2> QED  BY <2>1, <2>2
<1>7. Idx(m, e.key) = i  BY <1>1
<1> HIDE DEF n, c, p, d, i
<1>8. d \in Seq(Entry) /\ Len(d) = Len(c) - 1 /\ Distinct(d) /\ ToSet(d) = ToSet(c) \ {e}
  BY <1>1, <1>3, ChainRemove DEF d
<1>9. /\ Placed(n)
      /\ \A x : x \in EntrySet(n) <=> x \in ToSet(d) \/ (x \in EntrySet(m) /\ Idx(m, x.key) # i)
  <2>1. \A x \in ToSet(d) : Idx(m, x.key) = i  BY <1>5, <1>8
  <2> QED  BY <1>2, <1>3, <1>8, <2>1, ChainSwap
<1> HIDE DEF e
<1>10. EntrySet(n) = EntrySet(m) \ {e}  BY <1>1, <1>5, <1>6, <1>7, <1>8, <1>9
<1>11. EntrySet(n) = {x \in EntrySet(m) : x.key # k}
  <2>1. \A x \in EntrySet(m) : x.key = k => x = e  BY <1>1, EntryIn
  <2> QED  BY <1>1, <1>10, <2>1
<1>12. ASSUME Counted(m) PROVE Counted(n)
  <2>0. n.cut = m.cut /\ n.leak = m.leak /\ n.cut \in Nat /\ n.leak \in Nat  BY <1>2, <1>12 DEF Counted
  <2>1. IsFiniteSet(EntrySet(n)) /\ n.len = Cardinality(EntrySet(n)) + n.cut
    <3>1. IsFiniteSet(EntrySet(n)) /\ Cardinality(EntrySet(n)) = Cardinality(EntrySet(m)) - 1
      BY <1>1, <1>10, <1>12, FS_RemoveElement DEF Counted
    <3>2. Cardinality(EntrySet(m)) \in Nat  BY <1>12, FS_CardinalityType DEF Counted
    <3> QED  BY <1>2, <1>12, <2>0, <3>1, <3>2 DEF Counted
  <2>2. n.buckets[i] = d  BY <1>2, <1>3, <1>4
  <2>3. m.buckets = [n.buckets EXCEPT ![i] = c]
    <3> DEFINE b == m.buckets
    <3>1. b \in [0 .. m.cap - 1 -> Seq(Entry)] /\ b[i] = c /\ n.buckets = [b EXCEPT ![i] = d]  BY <1>2, <1>3, <1>4
    <3> HIDE DEF b
    <3>2. [[b EXCEPT ![i] = d] EXCEPT ![i] = c] = b  BY <3>1
    <3> QED  BY <3>1, <3>2 DEF b
  <2>4. PICK l \in Nat : l = Len(d) /\ l + 1 = Len(c)  BY <1>3, <1>8
  <2>5. ChainNodes(m) = IF Len(n.buckets[i]) = 0 THEN ChainNodes(n) ELSE ChainNodes(n) \cup {<<i, Len(c)>>}
    <3>1. i \in 0 .. n.cap - 1 /\ m.cap = n.cap /\ Len(c) = Len(n.buckets[i]) + 1  BY <1>2, <1>3, <2>2, <2>4
    <3>2. Placed(n) /\ c \in Seq(Entry)  BY <1>3, <1>9
    <3> QED  BY ONLY <2>3, <3>1, <3>2, NodesGrow
  <2>6. <<i, Len(n.buckets[i]) + 1>> \notin ChainNodes(n)  BY <1>2, <1>3, <1>9, NodeIsNew
  <2>7. CASE l = 0
    <3>1. ChainNodes(m) = ChainNodes(n)  BY <2>2, <2>4, <2>5, <2>7
    <3>00. Len(c) = 1  BY <2>4, <2>7
    <3>0. ~(Len(c) > 1)  BY <3>00
    <3>2. n.nodes = m.nodes  BY <1>2, <3>0
    <3> QED  BY <1>12, <2>0, <2>1, <3>1, <3>2 DEF Counted
  <2>8. CASE l # 0
    <3> DEFINE x == <<i, Len(c)>>
    <3>1. x = <<i, Len(n.buckets[i]) + 1>>  BY <2>2, <2>4
    <3>2. ChainNodes(m) = ChainNodes(n) \cup {x} /\ x \notin ChainNodes(n)  BY <2>2, <2>4, <2>5, <2>6, <2>8, <3>1
    <3> HIDE DEF x
    <3>3. ChainNodes(n) = ChainNodes(m) \ {x} /\ x \in ChainNodes(m)  BY <3>2
    <3>4. IsFiniteSet(ChainNodes(n)) /\ Cardinality(ChainNodes(n)) = Cardinality(ChainNodes(m)) - 1
      BY <1>12, <3>3, FS_RemoveElement DEF Counted
    <3>0. Len(c) > 1  BY <2>4, <2>8
    <3>5. n.nodes = m.nodes - 1  BY <1>2, <3>0
    <3>6. Cardinality(ChainNodes(m)) \in Nat  BY <1>12, FS_CardinalityType DEF Counted
    <3>7. n.nodes = Cardinality(ChainNodes(n)) + n.leak  BY <1>12, <2>0, <3>4, <3>5, <3>6 DEF Counted
    <3> QED  BY <2>0, <2>1, <3>4, <3>7 DEF Counted
  <2> QED  BY <2>7, <2>8
<1> QED  BY <1>9, <1>11, <1>12 DEF n

(* A map without entries. *)
LEMMA EmptyMap ==
  ASSUME NEW cap \in Nat \ {0}, NEW nodes, NEW leak
  PROVE  /\ Placed(Empty(cap, nodes, leak)) /\ EntrySet(Empty(cap, nodes, leak)) = {}
         /\ nodes = leak /\ leak \in Nat => Counted(Empty(cap, nodes, leak))
<1> DEFINE m == Empty(cap, nodes, leak)
<1>1. m = [cap |-> cap, len |-> 0, nodes |-> nodes, cut |-> 0, leak |-> leak,
           buckets |-> [i \in 0 .. cap - 1 |-> <<>>]]  BY DEF Empty
<1>2. /\ m.cap = cap /\ m.len = 0 /\ m.nodes = nodes /\ m.cut = 0 /\ m.leak = leak
      /\ m.buckets = [i \in 0 .. cap - 1 |-> <<>>]  BY <1>1
<1>3. Record(m)  BY <1>1 DEF Record
<1> HIDE DEF m
<1>4. <<>> \in Seq(Entry) /\ Len(<<>>) = 0 /\ DOMAIN <<>> = {}  OBVIOUS
<1>5. \A i \in 0 .. cap - 1 : m.buckets[i] = <<>>  BY <1>2
<1>6. m.buckets \in [0 .. cap - 1 -> Seq(Entry)]  BY <1>2, <1>4
<1>7. Placed(m)  BY <1>2, <1>3, <1>4, <1>5, <1>6 DEF Placed, Distinct
<1>8. EntrySet(m) = {}
  <2>1. \A i \in 0 .. cap - 1 : ToSet(m.buckets[i]) = {}  BY <1>4, <1>5 DEF ToSet
  <2> QED  BY <1>2, <2>1 DEF EntrySet
<1>9. ChainNodes(m) = {}
  <2>1. \A i \in 0 .. cap - 1 : 2 .. Len(m.buckets[i]) = {}  BY <1>4, <1>5
  <2> QED  BY <1>2, <2>1 DEF ChainNodes
<1>10. nodes = leak /\ leak \in Nat => Counted(m)  BY <1>2, <1>8, <1>9, FS_EmptySet DEF Counted
<1> QED  BY <1>7, <1>8, <1>10 DEF m

-----------------------------------------------------------------------------
(* The entries in the order of the rehash. *)

(* Two sequences of entries one after the other. *)
LEMMA ChainConcat ==
  ASSUME NEW a \in Seq(Entry), NEW b \in Seq(Entry), Distinct(a), Distinct(b),
         \A x \in ToSet(a), y \in ToSet(b) : x.key # y.key
  PROVE  a \o b \in Seq(Entry) /\ Distinct(a \o b) /\ ToSet(a \o b) = ToSet(a) \cup ToSet(b)
<1>1. PICK p \in Nat, q \in Nat : p = Len(a) /\ q = Len(b)  OBVIOUS
<1> DEFINE d == a \o b
<1>2. d \in Seq(Entry) /\ Len(d) = p + q /\ DOMAIN d = 1 .. p + q  BY <1>1
<1>3. \A j \in 1 .. p + q : d[j] = IF j =< p THEN a[j] ELSE b[j - p]  BY <1>1
<1>4. DOMAIN a = 1 .. p /\ DOMAIN b = 1 .. q  BY <1>1
<1> HIDE DEF d
<1>5. \A j \in 1 .. p : a[j] \in ToSet(a)  BY <1>4 DEF ToSet
<1>6. \A j \in 1 .. q : b[j] \in ToSet(b)  BY <1>4 DEF ToSet
<1>7. \A j \in 1 .. p + q : \/ j \in 1 .. p /\ d[j] = a[j]
                            \/ j - p \in 1 .. q /\ j > p /\ d[j] = b[j - p]
  BY <1>3
<1>8. Distinct(d)
  <2>1. \A i, j \in 1 .. p : a[i].key = a[j].key => i = j  BY <1>1 DEF Distinct
  <2>2. \A i, j \in 1 .. q : b[i].key = b[j].key => i = j  BY <1>1 DEF Distinct
  <2>3. \A i \in 1 .. p, j \in 1 .. q : a[i].key # b[j].key  BY <1>5, <1>6
  <2>4. ASSUME NEW i \in 1 .. p + q, NEW j \in 1 .. p + q, d[i].key = d[j].key PROVE i = j
    <3>1. CASE i \in 1 .. p /\ d[i] = a[i] /\ j \in 1 .. p /\ d[j] = a[j]  BY <2>1, <2>4, <3>1
    <3>2. CASE i \in 1 .. p /\ d[i] = a[i] /\ j - p \in 1 .. q /\ d[j] = b[j - p]  BY <2>3, <2>4, <3>2
    <3>3. CASE j \in 1 .. p /\ d[j] = a[j] /\ i - p \in 1 .. q /\ d[i] = b[i - p]  BY <2>3, <2>4, <3>3
    <3>4. CASE i - p \in 1 .. q /\ d[i] = b[i - p] /\ j - p \in 1 .. q /\ d[j] = b[j - p]
      <4>1. i - p = j - p  BY <2>2, <2>4, <3>4
      <4> QED  BY <4>1
    <3> QED  BY <1>7, <3>1, <3>2, <3>3, <3>4
  <2> QED  BY <1>2, <2>4 DEF Distinct
<1>9. ToSet(d) = ToSet(a) \cup ToSet(b)
  <2>1. ASSUME NEW x \in ToSet(d) PROVE x \in ToSet(a) \cup ToSet(b)
    <3>1. PICK j \in 1 .. p + q : x = d[j]  BY <1>2 DEF ToSet
    <3> QED  BY <1>5, <1>6, <1>7, <3>1
  <2>2. \A j \in 1 .. p + q : d[j] \in ToSet(d)  BY <1>2 DEF ToSet
  <2>3. ASSUME NEW x \in ToSet(a) PROVE x \in ToSet(d)
    <3>1. PICK j \in 1 .. p : x = a[j]  BY <1>4 DEF ToSet
    <3>2. j \in 1 .. p + q /\ d[j] = x  BY <1>3, <3>1
    <3> QED  BY <2>2, <3>2
  <2>4. ASSUME NEW x \in ToSet(b) PROVE x \in ToSet(d)
    <3>1. PICK j \in 1 .. q : x = b[j]  BY <1>4 DEF ToSet
    <3>2. p + j \in 1 .. p + q /\ ~(p + j =< p) /\ (p + j) - p = j  OBVIOUS
    <3>3. d[p + j] = x  BY <1>3, <3>1, <3>2
    <3> QED  BY <2>2, <3>2, <3>3
  <2> QED  BY <2>1, <2>3, <2>4
<1>10. d = a \o b  BY DEF d
<1> QED  BY <1>2, <1>8, <1>9, <1>10

(* The loop of FlattenSeq up to n. *)
Flat(q, n, f) == f = [i \in 1 .. n |-> IF i = 1 THEN q[i] ELSE f[i - 1] \o q[i]]

LEMMA FlatExists ==
  ASSUME NEW q, NEW l \in Nat
  PROVE  \E f : Flat(q, l, f)
<1> DEFINE G == {k \in 0 .. l : \E f : Flat(q, k, f)}
<1>1. ASSUME NEW m \in 0 .. l, \A j \in 0 .. m - 1 : j \in G PROVE m \in G
  <2>1. CASE m = 0
    <3>1. Flat(q, 0, [i \in 1 .. 0 |-> {}])  BY DEF Flat
    <3> QED  BY <2>1, <3>1
  <2>2. CASE m # 0
    <3>1. m \in 1 .. l /\ m - 1 \in 0 .. m - 1  BY <2>2
    <3>2. PICK f : Flat(q, m - 1, f)  BY <1>1, <3>1
    <3> DEFINE g == [i \in 1 .. m |-> IF i = 1 THEN q[i] ELSE f[i - 1] \o q[i]]
    <3>3. \A i \in 1 .. m - 1 : g[i] = f[i]
      <4>1. \A i \in 1 .. m - 1 : f[i] = IF i = 1 THEN q[i] ELSE f[i - 1] \o q[i]
        BY <3>2 DEF Flat
      <4>2. \A i \in 1 .. m - 1 : i \in 1 .. m  BY <3>1
      <4>3. \A i \in 1 .. m : g[i] = IF i = 1 THEN q[i] ELSE f[i - 1] \o q[i]  OBVIOUS
      <4> HIDE DEF g
      <4> QED  BY <4>1, <4>2, <4>3
    <3>4. \A i \in 1 .. m : i # 1 => i - 1 \in 1 .. m - 1  BY <3>1
    <3>5. g = [i \in 1 .. m |-> IF i = 1 THEN q[i] ELSE g[i - 1] \o q[i]]
      <4>1. \A i \in 1 .. m : i # 1 => g[i - 1] = f[i - 1]  BY <3>3, <3>4
      <4>2. \A i \in 1 .. m : (IF i = 1 THEN q[i] ELSE f[i - 1] \o q[i]) = (IF i = 1 THEN q[i] ELSE g[i - 1] \o q[i])
        <5> HIDE DEF g
        <5> QED  BY <4>1
      <4>3. g = [i \in 1 .. m |-> IF i = 1 THEN q[i] ELSE f[i - 1] \o q[i]]  OBVIOUS
      <4> HIDE DEF g
      <4> QED  BY <4>2, <4>3, Zenon
    <3>6. Flat(q, m, g)  BY <3>5 DEF Flat
    <3> QED  BY <3>6
  <2> QED  BY <2>1, <2>2
<1> HIDE DEF G
<1>2. \A k \in 0 .. l : (\A j \in 0 .. k - 1 : j \in G) => k \in G  BY <1>1
<1>3. \A k \in 0 .. l : k \in G  BY <1>2, Induction
<1>4. l \in G  BY <1>3
<1> QED  BY <1>4 DEF G

(* FlattenSeq of chains with no key in common: their entries, once each. *)
LEMMA FlattenChains ==
  ASSUME NEW q \in Seq(Seq(Entry)), Len(q) # 0,
         \A i \in 1 .. Len(q) : Distinct(q[i]),
         \A i, j \in 1 .. Len(q) : i # j => \A x \in ToSet(q[i]), y \in ToSet(q[j]) : x.key # y.key
  PROVE  /\ FlattenSeq(q) \in Seq(Entry) /\ Distinct(FlattenSeq(q))
         /\ \A x : x \in ToSet(FlattenSeq(q)) <=> \E i \in 1 .. Len(q) : x \in ToSet(q[i])
<1>1. PICK l \in Nat : l = Len(q) /\ l # 0  OBVIOUS
<1> DEFINE f == CHOOSE g : Flat(q, l, g)
<1>2. Flat(q, l, f)  BY FlatExists
<1>3. FlattenSeq(q) = f[l]  BY <1>1, Zenon DEF FlattenSeq, Flat
<1> HIDE DEF f
<1>4. \A i \in 1 .. l : f[i] = IF i = 1 THEN q[i] ELSE f[i - 1] \o q[i]  BY <1>2 DEF Flat
<1>5. \A i \in 1 .. l : q[i] \in Seq(Entry) /\ Distinct(q[i])  BY <1>1
<1> DEFINE P(i) == /\ f[i] \in Seq(Entry) /\ Distinct(f[i])
                   /\ \A x : x \in ToSet(f[i]) <=> \E j \in 1 .. i : x \in ToSet(q[j])
           G == {i \in 1 .. l : P(i)}
<1>6. ASSUME NEW i \in 1 .. l, \A j \in 1 .. i - 1 : j \in G PROVE i \in G
  <2>1. CASE i = 1
    <3>1. f[i] = q[i] /\ \A j : j \in 1 .. i <=> j = i  BY <1>4, <2>1
    <3> QED  BY <1>5, <3>1
  <2>2. CASE i # 1
    <3>1. i - 1 \in 1 .. l /\ i - 1 \in 1 .. i - 1  BY <2>2
    <3>2. P(i - 1)  BY <1>6, <3>1
    <3>3. f[i] = f[i - 1] \o q[i]  BY <1>4, <2>2
    <3>4. \A j \in 1 .. i - 1 : j \in 1 .. Len(q) /\ j # i  BY <1>1
    <3>5. \A x \in ToSet(f[i - 1]), y \in ToSet(q[i]) : x.key # y.key
      <4> SUFFICES ASSUME NEW x \in ToSet(f[i - 1]), NEW y \in ToSet(q[i]) PROVE x.key # y.key  OBVIOUS
      <4>1. PICK j \in 1 .. i - 1 : x \in ToSet(q[j])  BY <3>2
      <4> QED  BY <1>1, <3>4, <4>1
    <3>6. PICK a : a = f[i - 1]  OBVIOUS
    <3>7. f[i] \in Seq(Entry) /\ Distinct(f[i]) /\ ToSet(f[i]) = ToSet(a) \cup ToSet(q[i])
      BY <1>5, <3>2, <3>3, <3>5, <3>6, ChainConcat
    <3>8. \A j : j \in 1 .. i <=> j \in 1 .. i - 1 \/ j = i  BY <3>1
    <3>9. \A x : x \in ToSet(f[i]) <=> \E j \in 1 .. i : x \in ToSet(q[j])  BY <3>2, <3>6, <3>7, <3>8
    <3> QED  BY <3>7, <3>9
  <2> QED  BY <2>1, <2>2
<1> HIDE DEF G
<1>7. \A i \in 1 .. l : i \in G
  <2>1. \A k \in 1 .. l : (\A j \in 1 .. k - 1 : j \in G) => k \in G  BY <1>6
  <2> QED  BY <2>1, Induction
<1>8. P(l)
  <2>1. l \in G  BY <1>1, <1>7
  <2> HIDE DEF P
  <2> QED  BY <2>1 DEF G
<1> QED  BY <1>1, <1>3, <1>8

(* nncmap_rehash visits every entry of the map once. *)
LEMMA EntriesOf ==
  ASSUME HashOK, NEW m, Placed(m)
  PROVE  /\ Entries(m) \in Seq(Entry) /\ Distinct(Entries(m)) /\ ToSet(Entries(m)) = EntrySet(m)
         /\ IsFiniteSet(EntrySet(m)) /\ Len(Entries(m)) = Cardinality(EntrySet(m))
<1>1. m.cap \in Nat \ {0} /\ m.buckets \in [0 .. m.cap - 1 -> Seq(Entry)]  BY DEF Placed
<1>0. PICK c \in Nat \ {0} : c = m.cap  BY <1>1
<1>2. PICK b \in [0 .. c - 1 -> Seq(Entry)] : c = m.cap /\ b = m.buckets  BY <1>0, <1>1
<1> DEFINE q == [i \in 1 .. c |-> b[i - 1]]
<1>3. q \in Seq(Seq(Entry)) /\ Len(q) = c
  <2>1. \A i \in 1 .. c : i - 1 \in 0 .. c - 1  OBVIOUS
  <2>2. q \in [1 .. c -> Seq(Entry)]  BY <2>1
  <2> HIDE DEF q
  <2>3. c \in Nat  OBVIOUS
  <2> QED  BY <2>2, <2>3
<1>4. Entries(m) = FlattenSeq(q)  BY <1>2 DEF Entries
<1>5. \A i \in 1 .. c : q[i] = b[i - 1] /\ i - 1 \in 0 .. c - 1  OBVIOUS
<1>6. \A i \in 0 .. c - 1 : i + 1 \in 1 .. c /\ q[i + 1] = b[i]
  <2> SUFFICES ASSUME NEW i \in 0 .. c - 1 PROVE i + 1 \in 1 .. c /\ q[i + 1] = b[i]  OBVIOUS
  <2>1. i + 1 \in 1 .. c /\ (i + 1) - 1 = i  OBVIOUS
  <2> HIDE DEF q
  <2> QED  BY <1>5, <2>1
<1> HIDE DEF q
<1>7. \A i \in 1 .. c : Distinct(q[i])  BY <1>2, <1>5 DEF Placed
<1>8. ASSUME NEW i \in 1 .. c, NEW x \in ToSet(q[i]) PROVE Idx(m, x.key) = i - 1
  <2>1. q[i] = m.buckets[i - 1] /\ i - 1 \in 0 .. m.cap - 1  BY <1>2, <1>5
  <2>2. m.buckets[i - 1] \in Seq(Entry)  BY <1>1, <2>1
  <2>3. PICK j \in 1 .. Len(m.buckets[i - 1]) : x = m.buckets[i - 1][j]  BY <1>8, <2>1, <2>2 DEF ToSet
  <2> QED  BY <2>1, <2>3 DEF Placed
<1>9. ASSUME NEW i \in 1 .. c, NEW j \in 1 .. c, i # j, NEW x \in ToSet(q[i]), NEW y \in ToSet(q[j])
      PROVE  x.key # y.key
  <2>1. Idx(m, x.key) = i - 1 /\ Idx(m, y.key) = j - 1  BY <1>8, <1>9
  <2> QED  BY <1>9, <2>1
<1>10. /\ FlattenSeq(q) \in Seq(Entry) /\ Distinct(FlattenSeq(q))
       /\ \A x : x \in ToSet(FlattenSeq(q)) <=> \E i \in 1 .. c : x \in ToSet(q[i])
  <2>1. Len(q) # 0  BY <1>3
  <2> QED  BY <1>3, <1>7, <1>9, <2>1, FlattenChains
<1>11. \A x : x \in EntrySet(m) <=> \E i \in 1 .. c : x \in ToSet(q[i])
  <2>1. \A x : x \in EntrySet(m) <=> \E i \in 0 .. c - 1 : x \in ToSet(b[i])  BY <1>2 DEF EntrySet
  <2> QED  BY <1>5, <1>6, <2>1
<1>12. ToSet(Entries(m)) = EntrySet(m)  BY <1>4, <1>10, <1>11
<1> QED  BY <1>4, <1>10, <1>12, DistinctCount

-----------------------------------------------------------------------------
(* The rehash.  F is any function that refills as far as it is consulted.   *)

Caps == Nat \ {0}

(* What the loop of nncmap_rehash makes of the entries of s. *)
Filled(m, s) ==
  /\ Placed(m) /\ EntrySet(m) \subseteq ToSet(s)
  /\ Distinct(s) => EntrySet(m) = ToSet(s) /\ Counted(m)

FilledBy(g, s) == \A cap \in Caps : Filled(g[cap], s)

(* One more entry, as in the definition of Refilled. *)
Body(F, s) ==
  [cap \in Nat \ {0} |->
     IF s = <<>> THEN Empty(cap, 0, 0)
                 ELSE PutEntry(F, F[Front(s)][cap], Last(s))]

(* The array has room after it was scaled. *)
LEMMA ScaledCap ==
  ASSUME NEW cap \in Caps
  PROVE  Scaled(cap) \in Caps
<1>1. PICK n \in Nat, d \in Nat \ {0} : n = ScaleNum /\ d = ScaleDen /\ n >= d  BY ScaleAssumption
<1>2. cap \in Nat \ {0}  BY DEF Caps
<1>3. cap * n \in Nat /\ cap * n >= d  BY <1>1, <1>2
<1>4. PICK x \in Nat : x = cap * n /\ x >= d  BY <1>3
<1>5. x \div d \in Nat \ {0}  BY <1>4
<1> QED  BY <1>1, <1>4, <1>5 DEF Scaled, Caps

(* A rehash whose refilling works loses no entry and no node. *)
LEMMA RehashKeeps ==
  ASSUME HashOK, NEW F, NEW m, Placed(m), FilledBy(F[Entries(m)], Entries(m))
  PROVE  /\ Placed(NncmapRehash(F, m))
         /\ EntrySet(NncmapRehash(F, m)) = EntrySet(m)
         /\ Counted(m) => Counted(NncmapRehash(F, m))
<1> DEFINE f == F[Entries(m)][Scaled(m.cap)]
           n == NncmapRehash(F, m)
<1>1. Scaled(m.cap) \in Caps  BY ScaledCap DEF Placed, Caps
<1>2. Filled(f, Entries(m))  BY <1>1 DEF FilledBy
<1>3. Distinct(Entries(m)) /\ ToSet(Entries(m)) = EntrySet(m)  BY EntriesOf
<1>4. Placed(f) /\ EntrySet(f) = EntrySet(m) /\ Counted(f)  BY <1>2, <1>3 DEF Filled
<1>5. n = [f EXCEPT !.nodes = m.nodes + @ - Cardinality(ChainNodes(m)), !.leak = m.leak + @]
  BY DEF NncmapRehash
<1> HIDE DEF f, n
<1>6. f = [cap |-> f.cap, len |-> f.len, nodes |-> f.nodes, cut |-> f.cut, leak |-> f.leak, buckets |-> f.buckets]  BY <1>4 DEF Placed, Record
<1>7. /\ Record(n) /\ n.cap = f.cap /\ n.len = f.len /\ n.buckets = f.buckets
      /\ n.cut = f.cut /\ n.leak = m.leak + f.leak
      /\ n.nodes = m.nodes + f.nodes - Cardinality(ChainNodes(m))  BY <1>5, <1>6 DEF Record
<1>8. EntrySet(n) = EntrySet(f) /\ ChainNodes(n) = ChainNodes(f)  BY <1>7 DEF EntrySet, ChainNodes
<1>9. Placed(n)  BY <1>4, <1>7 DEF Placed, Idx
<1>10. ASSUME Counted(m) PROVE Counted(n)
  <2>1. PICK a \in Nat, b \in Nat : Cardinality(ChainNodes(m)) = a /\ Cardinality(ChainNodes(f)) = b
    BY <1>4, <1>10, FS_CardinalityType DEF Counted
  <2>2. PICK x \in Nat, y \in Nat : m.leak = x /\ f.leak = y /\ m.nodes = a + x /\ f.nodes = b + y
    BY <1>4, <1>10, <2>1 DEF Counted
  <2>3. n.leak \in Nat /\ n.nodes = b + n.leak  BY <1>7, <2>1, <2>2
  <2> QED  BY <1>4, <1>7, <1>8, <2>1, <2>3 DEF Counted
<1> QED  BY <1>4, <1>8, <1>9, <1>10 DEF n

(* nncmap_put of a map, with or without a rehash. *)
LEMMA PutEntryKeeps ==
  ASSUME HashOK, NEW F, NEW m, Placed(m), FilledBy(F[Entries(m)], Entries(m)), NEW e \in Entry
  PROVE  /\ Placed(PutEntry(F, m, e))
         /\ EntrySet(PutEntry(F, m, e)) \subseteq EntrySet(m) \cup {e}
         /\ e \in EntrySet(PutEntry(F, m, e))
         /\ e.key \notin KeysOf(m) => EntrySet(PutEntry(F, m, e)) = EntrySet(m) \cup {e}
         /\ Counted(m) => Counted(PutEntry(F, m, e))
<1> DEFINE n == IF NeedsRehash(m) THEN NncmapRehash(F, m) ELSE m
<1>1. Placed(n) /\ EntrySet(n) = EntrySet(m) /\ (Counted(m) => Counted(n))  BY RehashKeeps
<1>2. PutEntry(F, m, e) = PutInChain(n, e.key, e.val)  BY DEF PutEntry
<1>3. e.key \in Keys /\ e.val \in Vals /\ e = [key |-> e.key, val |-> e.val]  BY DEF Entry
<1> HIDE DEF n
<1>4. PICK k \in Keys, v \in Vals : k = e.key /\ v = e.val /\ e = [key |-> k, val |-> v]  BY <1>3
<1>5. /\ Placed(PutInChain(n, k, v)) /\ EntrySet(PutInChain(n, k, v)) \subseteq EntrySet(n) \cup {e}
  BY <1>1, <1>4, PutPlaced
<1>6. KeysOf(n) = KeysOf(m)  BY <1>1 DEF KeysOf
<1>7. ASSUME k \notin KeysOf(n)
      PROVE  /\ EntrySet(PutInChain(n, k, v)) = EntrySet(n) \cup {e}
             /\ Counted(n) => Counted(PutInChain(n, k, v))
  BY <1>1, <1>4, <1>7, PutNew
<1>8. ASSUME k \in KeysOf(n)
      PROVE  /\ e \in EntrySet(PutInChain(n, k, v))
             /\ Counted(n) => Counted(PutInChain(n, k, v))
  BY <1>1, <1>4, <1>8, PutOld
<1> QED  BY <1>1, <1>2, <1>4, <1>5, <1>6, <1>7, <1>8

(* A sequence that is not empty, its last entry and the ones before. *)
LEMMA FrontLast ==
  ASSUME NEW s \in Seq(Entry), s # <<>>
  PROVE  /\ Front(s) \in Seq(Entry) /\ Len(Front(s)) = Len(s) - 1 /\ Len(s) \in Nat \ {0}
         /\ Last(s) \in Entry /\ ToSet(s) = ToSet(Front(s)) \cup {Last(s)}
         /\ Distinct(s) => Distinct(Front(s)) /\ \A x \in ToSet(Front(s)) : x.key # Last(s).key
<1>1. PICK n \in Nat \ {0} : n = Len(s)  OBVIOUS
<1> DEFINE f == Front(s)
           e == Last(s)
<1>2. f \in Seq(Entry) /\ Len(f) = n - 1 /\ DOMAIN f = 1 .. n - 1 /\ \A j \in 1 .. n - 1 : f[j] = s[j]
  BY <1>1 DEF Front
<1>3. e = s[n] /\ e \in Entry /\ DOMAIN s = 1 .. n  BY <1>1 DEF Last
<1> HIDE DEF f, e
<1>4. \A j : j \in 1 .. n <=> j \in 1 .. n - 1 \/ j = n  OBVIOUS
<1>5. ToSet(s) = ToSet(f) \cup {e}
  <2>1. ToSet(s) = {s[j] : j \in 1 .. n} /\ ToSet(f) = {f[j] : j \in 1 .. n - 1}  BY <1>2, <1>3 DEF ToSet
  <2>2. \A x : x \in ToSet(s) <=> x \in ToSet(f) \/ x = e  BY <1>2, <1>3, <1>4, <2>1
  <2> QED  BY <2>2
<1>6. ASSUME Distinct(s) PROVE Distinct(f) /\ \A x \in ToSet(f) : x.key # e.key
  <2>1. \A i, j \in 1 .. n : s[i].key = s[j].key => i = j  BY <1>1, <1>6 DEF Distinct
  <2>2. Distinct(f)  BY <1>2, <1>4, <2>1 DEF Distinct
  <2>3. ASSUME NEW x \in ToSet(f), x.key = e.key PROVE FALSE
    <3>1. PICK j \in 1 .. n - 1 : x = s[j]  BY <1>2 DEF ToSet
    <3>2. j \in 1 .. n /\ n \in 1 .. n /\ j # n  OBVIOUS
    <3> QED  BY <1>3, <2>1, <2>3, <3>1, <3>2
  <2> QED  BY <2>2, <2>3
<1> QED  BY <1>1, <1>2, <1>3, <1>5, <1>6 DEF f, e

(* A refilled map has no more entries than it was filled from. *)
LEMMA FilledBound ==
  ASSUME HashOK, NEW m, NEW s \in Seq(Entry), Filled(m, s)
  PROVE  Entries(m) \in Seq(Entry) /\ Len(Entries(m)) =< Len(s)
<1>1. Placed(m) /\ EntrySet(m) \in SUBSET ToSet(s)  BY DEF Filled
<1>2. Entries(m) \in Seq(Entry) /\ Len(Entries(m)) = Cardinality(EntrySet(m)) /\ IsFiniteSet(EntrySet(m))
  BY <1>1, EntriesOf
<1>3. IsFiniteSet(ToSet(s)) /\ Cardinality(ToSet(s)) =< Len(s)  BY ToSetBound
<1>4. Cardinality(EntrySet(m)) =< Cardinality(ToSet(s))  BY <1>1, <1>3, FS_Subset
<1>5. Cardinality(EntrySet(m)) \in Nat /\ Cardinality(ToSet(s)) \in Nat  BY <1>2, <1>3, FS_CardinalityType
<1>6. Len(s) \in Nat  OBVIOUS
<1> QED  BY <1>2, <1>3, <1>4, <1>5, <1>6

(* F refills everything shorter than s. *)
Below(F, s) == \A y \in Seq(Entry) : Len(y) < Len(s) => FilledBy(F[y], y)

(* The map a put of the last entry finds is filled, and so is what its       *)
(* rehash would refill.                                                     *)
LEMMA BelowFront ==
  ASSUME HashOK, NEW F, NEW s \in Seq(Entry), s # <<>>, Below(F, s), NEW cap \in Caps
  PROVE  /\ Filled(F[Front(s)][cap], Front(s))
         /\ Entries(F[Front(s)][cap]) \in Seq(Entry)
         /\ Len(Entries(F[Front(s)][cap])) < Len(s)
         /\ FilledBy(F[Entries(F[Front(s)][cap])], Entries(F[Front(s)][cap]))
<1>1. PICK t \in Seq(Entry) : t = Front(s) /\ Len(t) = Len(s) - 1 /\ Len(s) \in Nat  BY FrontLast
<1>2. Len(t) < Len(s)  BY <1>1
<1>3. Filled(F[t][cap], t)  BY <1>1, <1>2 DEF Below, FilledBy
<1>4. PICK m : m = F[t][cap]  OBVIOUS
<1>5. Entries(m) \in Seq(Entry) /\ Len(Entries(m)) =< Len(t)  BY <1>3, <1>4, FilledBound
<1>6. Len(Entries(m)) < Len(s)
  <2>1. Len(Entries(m)) \in Nat  BY <1>5
  <2> QED  BY <1>1, <1>5, <2>1
<1>7. FilledBy(F[Entries(m)], Entries(m))  BY <1>5, <1>6 DEF Below
<1> QED  BY <1>1, <1>3, <1>4, <1>5, <1>6, <1>7

(* One more entry than F refills. *)
LEMMA BodyFilled ==
  ASSUME HashOK, NEW F, NEW s \in Seq(Entry), Below(F, s)
  PROVE  FilledBy(Body(F, s), s)
<1> SUFFICES ASSUME NEW cap \in Caps PROVE Filled(Body(F, s)[cap], s)  BY DEF FilledBy
<1>0. cap \in Nat \ {0}  BY DEF Caps
<1>1. CASE s = <<>>
  <2>1. Body(F, s)[cap] = Empty(cap, 0, 0)  BY <1>0, <1>1 DEF Body
  <2>2. ToSet(s) = {}  BY <1>1 DEF ToSet
  <2>3. Placed(Empty(cap, 0, 0)) /\ EntrySet(Empty(cap, 0, 0)) = {} /\ Counted(Empty(cap, 0, 0))  BY <1>0, EmptyMap
  <2> QED  BY <2>1, <2>2, <2>3 DEF Filled
<1>2. CASE s # <<>>
  <2> DEFINE m == F[Front(s)][cap]
             e == Last(s)
             n == PutEntry(F, m, e)
  <2>1. Body(F, s)[cap] = n  BY <1>0, <1>2 DEF Body
  <2>2. Filled(m, Front(s)) /\ FilledBy(F[Entries(m)], Entries(m))  BY <1>2, BelowFront
  <2>3. /\ e \in Entry /\ ToSet(s) = ToSet(Front(s)) \cup {e}
        /\ Distinct(s) => Distinct(Front(s)) /\ \A x \in ToSet(Front(s)) : x.key # e.key
    BY <1>2, FrontLast
  <2> HIDE DEF m, e
  <2>4. Placed(m) /\ EntrySet(m) \subseteq ToSet(Front(s))  BY <2>2 DEF Filled
  <2>5. /\ Placed(n) /\ EntrySet(n) \subseteq EntrySet(m) \cup {e}
        /\ e.key \notin KeysOf(m) => EntrySet(n) = EntrySet(m) \cup {e}
        /\ Counted(m) => Counted(n)
    BY <2>2, <2>3, <2>4, PutEntryKeeps
  <2> HIDE DEF n
  <2>6. ASSUME Distinct(s) PROVE EntrySet(n) = ToSet(s) /\ Counted(n)
    <3>1. EntrySet(m) = ToSet(Front(s)) /\ Counted(m)  BY <2>2, <2>3, <2>6 DEF Filled
    <3>2. e.key \notin KeysOf(m)  BY <2>3, <2>6, <3>1 DEF KeysOf
    <3> QED  BY <2>3, <2>5, <3>1, <3>2
  <2>7. EntrySet(n) \subseteq ToSet(s)  BY <2>3, <2>4, <2>5
  <2> QED  BY <2>1, <2>5, <2>6, <2>7 DEF Filled
<1> QED  BY <1>1, <1>2

(* The refilling of s consults that of shorter sequences only. *)
LEMMA BodyLocal ==
  ASSUME HashOK, NEW F, NEW G, NEW s \in Seq(Entry), Below(F, s),
         \A y \in Seq(Entry) : Len(y) < Len(s) => F[y] = G[y]
  PROVE  Body(F, s) = Body(G, s)
<1>1. ASSUME NEW cap \in Nat \ {0}
      PROVE  (IF s = <<>> THEN Empty(cap, 0, 0) ELSE PutEntry(F, F[Front(s)][cap], Last(s)))
             = (IF s = <<>> THEN Empty(cap, 0, 0) ELSE PutEntry(G, G[Front(s)][cap], Last(s)))
  <2>1. CASE s # <<>>
    <3>1. PICK t \in Seq(Entry) : t = Front(s) /\ Len(t) = Len(s) - 1 /\ Len(s) \in Nat  BY <2>1, FrontLast
    <3>2. F[t] = G[t]  BY <3>1
    <3>3. PICK m : m = F[t][cap] /\ m = G[t][cap]  BY <3>2
    <3>4. Entries(m) \in Seq(Entry) /\ Len(Entries(m)) < Len(s)  BY <2>1, <3>1, <3>3, BelowFront DEF Caps
    <3>5. F[Entries(m)] = G[Entries(m)]  BY <3>4
    <3>6. NncmapRehash(F, m) = NncmapRehash(G, m)  BY <3>5 DEF NncmapRehash
    <3>7. PutEntry(F, m, Last(s)) = PutEntry(G, m, Last(s))  BY <3>6 DEF PutEntry
    <3> QED  BY <3>1, <3>3, <3>7
  <2> QED  BY <2>1
<1> QED  BY <1>1, Zenon DEF Body

(* A solution of the equation of Refilled for the sequences up to a length. *)
Upto(n) == {s \in Seq(Entry) : Len(s) =< n}
Solves(f, n) == f = [s \in Upto(n) |-> Body(f, s)]

LEMMA SolveAt ==
  ASSUME NEW f, NEW n, Solves(f, n), NEW s \in Upto(n)
  PROVE  f[s] = Body(f, s)
<1>1. f = [x \in Upto(n) |-> Body(f, x)]  BY DEF Solves
<1> QED  BY <1>1, Zenon

(* A solution refills every sequence of its domain. *)
LEMMA SolveFilled ==
  ASSUME HashOK, NEW n \in Nat, NEW f, Solves(f, n)
  PROVE  \A s \in Upto(n) : FilledBy(f[s], s)
<1> DEFINE G == {k \in 0 .. n : \A s \in Seq(Entry) : Len(s) = k => FilledBy(f[s], s)}
<1>1. ASSUME NEW k \in 0 .. n, \A j \in 0 .. k - 1 : j \in G PROVE k \in G
  <2> SUFFICES ASSUME NEW s \in Seq(Entry), Len(s) = k PROVE FilledBy(f[s], s)  OBVIOUS
  <2>1. ASSUME NEW y \in Seq(Entry), Len(y) < Len(s) PROVE FilledBy(f[y], y)
    <3>1. PICK j \in Nat : j = Len(y)  OBVIOUS
    <3>2. j \in 0 .. k - 1  BY <2>1, <3>1
    <3>3. j \in G  BY <1>1, <3>2
    <3> QED  BY <3>1, <3>3
  <2>2. FilledBy(Body(f, s), s)
    <3>1. Below(f, s)  BY <2>1 DEF Below
    <3> QED  BY <3>1, BodyFilled
  <2>3. s \in Upto(n)  BY DEF Upto
  <2>4. f[s] = Body(f, s)  BY <2>3, SolveAt
  <2> QED  BY <2>2, <2>4
<1>2. \A k \in 0 .. n : k \in G
  <2> HIDE DEF G
  <2>1. \A k \in 0 .. n : (\A j \in 0 .. k - 1 : j \in G) => k \in G  BY <1>1
  <2> QED  BY <2>1, Induction
<1> SUFFICES ASSUME NEW s \in Upto(n) PROVE FilledBy(f[s], s)  OBVIOUS
<1>3. s \in Seq(Entry) /\ Len(s) \in 0 .. n  BY DEF Upto
<1>4. Len(s) \in G  BY <1>2, <1>3
<1> QED  BY <1>3, <1>4

(* Two solutions agree as far as both go. *)
LEMMA SolveAgree ==
  ASSUME HashOK, NEW n \in Nat, NEW f, Solves(f, n), NEW m \in Nat, NEW g, Solves(g, m), n =< m
  PROVE  \A s \in Upto(n) : f[s] = g[s]
<1> DEFINE G == {k \in 0 .. n : \A s \in Seq(Entry) : Len(s) = k => f[s] = g[s]}
<1>1. ASSUME NEW k \in 0 .. n, \A j \in 0 .. k - 1 : j \in G PROVE k \in G
  <2> SUFFICES ASSUME NEW s \in Seq(Entry), Len(s) = k PROVE f[s] = g[s]  OBVIOUS
  <2>1. ASSUME NEW y \in Seq(Entry), Len(y) < Len(s) PROVE f[y] = g[y] /\ y \in Upto(n)
    <3>1. PICK j \in Nat : j = Len(y)  OBVIOUS
    <3>2. j \in 0 .. k - 1  BY <2>1, <3>1
    <3>3. j \in G  BY <1>1, <3>2
    <3>4. y \in Upto(n)  BY <3>1, <3>2 DEF Upto
    <3> QED  BY <3>1, <3>3, <3>4
  <2>2. Below(f, s)
    <3>1. \A y \in Upto(n) : FilledBy(f[y], y)  BY SolveFilled
    <3> QED  BY <2>1, <3>1 DEF Below
  <2>3. Body(f, s) = Body(g, s)
    <3>1. \A y \in Seq(Entry) : Len(y) < Len(s) => f[y] = g[y]  BY <2>1
    <3> QED  BY <2>2, <3>1, BodyLocal
  <2>4. s \in Upto(n) /\ s \in Upto(m)  BY DEF Upto
  <2>5. f[s] = Body(f, s) /\ g[s] = Body(g, s)  BY <2>4, SolveAt
  <2> QED  BY <2>3, <2>5
<1>2. \A k \in 0 .. n : k \in G
  <2> HIDE DEF G
  <2>1. \A k \in 0 .. n : (\A j \in 0 .. k - 1 : j \in G) => k \in G  BY <1>1
  <2> QED  BY <2>1, Induction
<1> SUFFICES ASSUME NEW s \in Upto(n) PROVE f[s] = g[s]  OBVIOUS
<1>3. s \in Seq(Entry) /\ Len(s) \in 0 .. n  BY DEF Upto
<1>4. Len(s) \in G  BY <1>2, <1>3
<1> QED  BY <1>3, <1>4

(* The empty sequence is refilled without consulting anything. *)
LEMMA SolveZero ==
  ASSUME HashOK
  PROVE  \E f : Solves(f, 0)
<1> DEFINE z == [s \in {} |-> {}]
           f == [s \in Upto(0) |-> Body(z, s)]
<1>1. ASSUME NEW s \in Upto(0) PROVE Body(z, s) = Body(f, s)
  <2>1. s \in Seq(Entry) /\ Len(s) = 0  BY DEF Upto
  <2>2. \A y \in Seq(Entry) : ~(Len(y) < Len(s))  BY <2>1
  <2> HIDE DEF f, z
  <2>3. Below(z, s)  BY <2>2 DEF Below
  <2>4. \A y \in Seq(Entry) : Len(y) < Len(s) => z[y] = f[y]  BY <2>2
  <2> QED  BY <2>1, <2>3, <2>4, BodyLocal
<1>2. f = [s \in Upto(0) |-> Body(z, s)]  OBVIOUS
<1> HIDE DEF f, z
<1>3. Solves(f, 0)  BY <1>1, <1>2, Zenon DEF Solves
<1> QED  BY <1>3

(* A solution goes on by one entry. *)
LEMMA SolveStep ==
  ASSUME HashOK, NEW n \in Nat, NEW g, Solves(g, n)
  PROVE  \E f : Solves(f, n + 1)
<1> DEFINE f == [s \in Upto(n + 1) |-> Body(g, s)]
<1>1. \A y \in Upto(n) : FilledBy(g[y], y) /\ g[y] = Body(g, y)  BY SolveFilled, SolveAt
<1>2. \A y \in Upto(n) : y \in Upto(n + 1)  BY DEF Upto
<1>3. \A y \in Upto(n) : f[y] = g[y]  BY <1>1, <1>2
<1>4. ASSUME NEW s \in Upto(n + 1) PROVE Body(g, s) = Body(f, s)
  <2>1. s \in Seq(Entry) /\ Len(s) =< n + 1  BY DEF Upto
  <2>2. \A y \in Seq(Entry) : Len(y) < Len(s) => y \in Upto(n)  BY <2>1 DEF Upto
  <2> HIDE DEF f
  <2>3. Below(g, s)  BY <1>1, <2>2 DEF Below
  <2>4. \A y \in Seq(Entry) : Len(y) < Len(s) => g[y] = f[y]  BY <1>3, <2>2
  <2> QED  BY <2>1, <2>3, <2>4, BodyLocal
<1>5. f = [s \in Upto(n + 1) |-> Body(g, s)]  OBVIOUS
<1> HIDE DEF f
<1>6. Solves(f, n + 1)  BY <1>4, <1>5, Zenon DEF Solves
<1> QED  BY <1>6

LEMMA SolveExists ==
  ASSUME HashOK, NEW n \in Nat
  PROVE  \E f : Solves(f, n)
<1> DEFINE G == {k \in 0 .. n : \E f : Solves(f, k)}
<1>1. ASSUME NEW k \in 0 .. n, \A j \in 0 .. k - 1 : j \in G PROVE k \in G
  <2>1. CASE k = 0  BY <2>1, SolveZero
  <2>2. CASE k # 0
    <3>1. PICK j \in Nat : j = k - 1 /\ j \in 0 .. k - 1 /\ j + 1 = k  BY <2>2
    <3>2. PICK g : Solves(g, j)  BY <1>1, <3>1
    <3>3. \E f : Solves(f, j + 1)  BY <3>2, SolveStep
    <3> QED  BY <3>1, <3>3
  <2> QED  BY <2>1, <2>2
<1> HIDE DEF G
<1>2. \A k \in 0 .. n : k \in G
  <2>1. \A k \in 0 .. n : (\A j \in 0 .. k - 1 : j \in G) => k \in G  BY <1>1
  <2> QED  BY <2>1, Induction
<1>3. n \in G  BY <1>2
<1> QED  BY <1>3 DEF G

(* The rehash ends: the definition of Refilled has a solution. *)
SolvesAll(f) == f = [s \in Seq(Entry) |-> Body(f, s)]

LEMMA SolveAll ==
  ASSUME HashOK
  PROVE  \E f : SolvesAll(f)
<1> DEFINE Sol(n) == CHOOSE g : Solves(g, n)
           f == [s \in Seq(Entry) |-> Sol(Len(s))[s]]
<1>1. \A n \in Nat : Solves(Sol(n), n)  BY SolveExists
<1>2. \A s \in Seq(Entry) : f[s] = Sol(Len(s))[s] /\ Len(s) \in Nat /\ s \in Upto(Len(s))  BY DEF Upto
<1>3. f = [s \in Seq(Entry) |-> Sol(Len(s))[s]]  OBVIOUS
<1> HIDE DEF f, Sol
<1>4. ASSUME NEW s \in Seq(Entry) PROVE Sol(Len(s))[s] = Body(f, s)
  <2>0. PICK n \in Nat : n = Len(s)  OBVIOUS
  <2>1. PICK g : g = Sol(n) /\ Solves(g, n)  BY <1>1
  <2>2. ASSUME NEW y \in Seq(Entry), Len(y) < Len(s) PROVE g[y] = f[y] /\ y \in Upto(n)
    <3>1. PICK j \in Nat : j = Len(y) /\ j =< n  BY <2>0, <2>2
    <3>2. PICK h : h = Sol(j) /\ Solves(h, j)  BY <1>1
    <3>3. \A x \in Upto(j) : h[x] = g[x]  BY <2>1, <3>1, <3>2, SolveAgree
    <3>4. y \in Upto(j) /\ f[y] = h[y]  BY <1>2, <3>1, <3>2
    <3>5. y \in Upto(n)  BY <3>1 DEF Upto
    <3> QED  BY <3>3, <3>4, <3>5
  <2>3. Below(g, s)
    <3>1. \A y \in Upto(n) : FilledBy(g[y], y)  BY <2>1, SolveFilled
    <3> QED  BY <2>2, <3>1 DEF Below
  <2>4. Body(g, s) = Body(f, s)
    <3>1. \A y \in Seq(Entry) : Len(y) < Len(s) => g[y] = f[y]  BY <2>2
    <3> QED  BY <2>3, <3>1, BodyLocal
  <2>5. g[s] = Body(g, s)  BY <1>2, <2>0, <2>1, SolveAt
  <2> QED  BY <2>0, <2>1, <2>4, <2>5
<1>5. SolvesAll(f)  BY <1>3, <1>4, Zenon DEF SolvesAll
<1> QED  BY <1>5

(* What the loop of nncmap_rehash leaves, nested rehashes included. *)
LEMMA RefilledFilled ==
  ASSUME HashOK, NEW s \in Seq(Entry)
  PROVE  FilledBy(Refilled[s], s)
<1>1. Refilled = CHOOSE f : SolvesAll(f)  BY Zenon DEF Refilled, SolvesAll, Body
<1>2. PICK f : f = Refilled  OBVIOUS
<1>3. SolvesAll(f)  BY <1>1, <1>2, SolveAll
<1>4. \A x \in Seq(Entry) : f[x] = Body(f, x)
  <2>1. f = [x \in Seq(Entry) |-> Body(f, x)]  BY <1>3 DEF SolvesAll
  <2> QED  BY <2>1, Zenon
<1>5. PICK n \in Nat : n = Len(s)  OBVIOUS
<1> DEFINE G == {k \in 0 .. n : \A x \in Seq(Entry) : Len(x) = k => FilledBy(f[x], x)}
<1>6. ASSUME NEW k \in 0 .. n, \A j \in 0 .. k - 1 : j \in G PROVE k \in G
  <2> SUFFICES ASSUME NEW x \in Seq(Entry), Len(x) = k PROVE FilledBy(f[x], x)  OBVIOUS
  <2>1. ASSUME NEW y \in Seq(Entry), Len(y) < Len(x) PROVE FilledBy(f[y], y)
    <3>1. PICK j \in Nat : j = Len(y)  OBVIOUS
    <3>2. j \in 0 .. k - 1  BY <2>1, <3>1
    <3>3. j \in G  BY <1>6, <3>2
    <3> QED  BY <3>1, <3>3
  <2>2. FilledBy(Body(f, x), x)
    <3>1. Below(f, x)  BY <2>1 DEF Below
    <3> QED  BY <3>1, BodyFilled
  <2> QED  BY <1>4, <2>2
<1>7. \A k \in 0 .. n : k \in G
  <2> HIDE DEF G
  <2>1. \A k \in 0 .. n : (\A j \in 0 .. k - 1 : j \in G) => k \in G  BY <1>6
  <2> QED  BY <2>1, Induction
<1>8. n \in G  BY <1>7
<1> QED  BY <1>2, <1>5, <1>8

-----------------------------------------------------------------------------
(* The specification. *)

(* The inductive invariant: the chains are well formed, and len and nodes   *)
(* are exact up to what rewrites cut off.                                   *)
MapInv == hash \in Hashes /\ Placed(map) /\ Counted(map)

LEMMA InvHash ==
  ASSUME MapInv
  PROVE  HashOK
BY CallersAssumption DEF MapInv, HashOK

(* nncmap_put of any key. *)
LEMMA NncmapPutKeeps ==
  ASSUME HashOK, NEW m, Placed(m), NEW k \in Keys, NEW v \in Vals
  PROVE  /\ Placed(NncmapPut(m, k, v))
         /\ EntrySet(NncmapPut(m, k, v)) \subseteq EntrySet(m) \cup {[key |-> k, val |-> v]}
         /\ [key |-> k, val |-> v] \in EntrySet(NncmapPut(m, k, v))
         /\ k \notin KeysOf(m) => EntrySet(NncmapPut(m, k, v)) = EntrySet(m) \cup {[key |-> k, val |-> v]}
         /\ Counted(m) => Counted(NncmapPut(m, k, v))
<1>0. [key |-> k, val |-> v] \in Entry  BY DEF Entry
<1>1. PICK e \in Entry : e = [key |-> k, val |-> v] /\ e.key = k  BY <1>0
<1>2. Entries(m) \in Seq(Entry)  BY EntriesOf
<1>3. FilledBy(Refilled[Entries(m)], Entries(m))  BY <1>2, RefilledFilled
<1>4. NncmapPut(m, k, v) = PutEntry(Refilled, m, e)  BY <1>1 DEF NncmapPut
<1>5. PICK F : F = Refilled  OBVIOUS
<1>6. /\ Placed(PutEntry(F, m, e))
      /\ EntrySet(PutEntry(F, m, e)) \subseteq EntrySet(m) \cup {e}
      /\ e \in EntrySet(PutEntry(F, m, e))
      /\ e.key \notin KeysOf(m) => EntrySet(PutEntry(F, m, e)) = EntrySet(m) \cup {e}
      /\ Counted(m) => Counted(PutEntry(F, m, e))
  BY <1>3, <1>5, PutEntryKeeps
<1> QED  BY <1>1, <1>4, <1>5, <1>6

LEMMA InitInv == Init => MapInv
<1> SUFFICES ASSUME Init PROVE MapInv  OBVIOUS
<1>1. hash \in Hashes  BY DEF Init
<1>2. PICK cap \in InitCaps : map = Empty(cap, 0, 0)  BY DEF Init
<1>3. cap \in Nat \ {0}  BY CallersAssumption
<1>4. Placed(Empty(cap, 0, 0)) /\ Counted(Empty(cap, 0, 0))  BY <1>3, EmptyMap
<1> QED  BY <1>1, <1>2, <1>4 DEF MapInv

(* A step that leaves a well formed map. *)
LEMMA PrimedInv ==
  ASSUME MapInv, hash' = hash, Placed(map'), Counted(map')
  PROVE  MapInv'
<1>1. Placed(map)'  BY DEF Placed, Idx, Record, Distinct
<1>2. Counted(map)'  BY DEF Counted, EntrySet, ChainNodes
<1> QED  BY <1>1, <1>2 DEF MapInv

LEMMA NextInv == MapInv /\ [Next]_vars => MapInv'
<1> SUFFICES ASSUME MapInv, [Next]_vars PROVE MapInv'  OBVIOUS
<1>0. HashOK /\ Placed(map) /\ Counted(map)  BY InvHash DEF MapInv
<1>1. ASSUME NEW k \in Keys, NEW v \in Vals, Put(k, v) PROVE MapInv'
  <2>1. map' = NncmapPut(map, k, v) /\ hash' = hash  BY <1>1 DEF Put
  <2>2. Placed(map') /\ Counted(map')  BY <1>0, <2>1, NncmapPutKeeps
  <2> QED  BY <2>1, <2>2, PrimedInv
<1>2. ASSUME NEW k \in Keys, Pop(k) PROVE MapInv'
  <2>1. map' = (IF NncmapHas(map, k) THEN NncmapPop(map, k) ELSE map) /\ hash' = hash  BY <1>2 DEF Pop
  <2>2. NncmapHas(map, k) <=> k \in KeysOf(map)  BY <1>0, HasIs
  <2>3. CASE NncmapHas(map, k)
    <3>1. Placed(map') /\ (Counted(map) => Counted(map'))  BY <1>0, <2>1, <2>2, <2>3, PopEntry
    <3> QED  BY <1>0, <2>1, <3>1, PrimedInv
  <2>4. CASE ~NncmapHas(map, k)  BY <1>0, <2>1, <2>4, PrimedInv
  <2> QED  BY <2>3, <2>4
<1>3. ASSUME NEW k \in Keys, Has(k) \/ Get(k) PROVE MapInv'
  <2>1. map' = map /\ hash' = hash  BY <1>3 DEF Has, Get
  <2> QED  BY <1>0, <2>1, PrimedInv
<1>4. ASSUME NEW cap \in InitCaps, Reinit(cap) PROVE MapInv'
  <2>1. map' = Empty(cap, map.nodes - Cardinality(ChainNodes(map)), map.leak) /\ hash' = hash
    BY <1>4 DEF Reinit
  <2>2. cap \in Nat \ {0}  BY CallersAssumption
  <2>3. PICK x : x = map.nodes - Cardinality(ChainNodes(map))  OBVIOUS
  <2>4. x = map.leak /\ map.leak \in Nat
    <3>1. Cardinality(ChainNodes(map)) \in Nat  BY <1>0, FS_CardinalityType DEF Counted
    <3> QED  BY <1>0, <2>3, <3>1 DEF Counted
  <2>5. Placed(Empty(cap, x, map.leak)) /\ Counted(Empty(cap, x, map.leak))  BY <2>2, <2>4, EmptyMap
  <2> QED  BY <2>1, <2>3, <2>5, PrimedInv
<1>5. CASE UNCHANGED vars
  <2>1. map' = map /\ hash' = hash  BY <1>5 DEF vars
  <2> QED  BY <1>0, <2>1, PrimedInv
<1> QED  BY <1>1, <1>2, <1>3, <1>4, <1>5 DEF Next

(* MapInv is an invariant of the map, for any keys, hash functions and      *)
(* capacities, with rewrites of keys.                                       *)
THEOREM MapCorrect == Spec => []MapInv
<1>1. Init => MapInv  BY InitInv
<1>2. MapInv /\ [Next]_vars => MapInv'  BY NextInv
<1> QED  BY <1>1, <1>2, PTL DEF Spec

(* The chains nncmap_get, nncmap_has and nncmap_pop search are well formed  *)
(* after any puts, rewrites, pops and rehashes, the nested ones included.   *)
THEOREM MapWellPlaced == Spec => []WellPlaced
<1>1. MapInv => WellPlaced
  <2> SUFFICES ASSUME MapInv, NEW i \in 0 .. map.cap - 1
               PROVE  /\ \A j \in DOMAIN map.buckets[i] : Idx(map, map.buckets[i][j].key) = i
                      /\ \A j, n \in DOMAIN map.buckets[i] :
                           map.buckets[i][j].key = map.buckets[i][n].key => j = n
    BY DEF WellPlaced
  <2>1. map.buckets[i] \in Seq(Entry)  BY DEF MapInv, Placed
  <2>2. DOMAIN map.buckets[i] = 1 .. Len(map.buckets[i])  BY <2>1
  <2> QED  BY <2>2 DEF MapInv, Placed, Distinct
<1> QED  BY <1>1, MapCorrect, PTL

(* nncmap_put and nncmap_pop keep len at the number of entries and of those *)
(* that rewrites cut off since the array was allocated: len is never below  *)
(* the number of entries, and is that number when nothing was cut off.      *)
THEOREM MapLenCounts == Spec => []LenCounts
<1>1. MapInv => LenCounts
  <2> SUFFICES ASSUME MapInv PROVE LenCounts  OBVIOUS
  <2>1. Placed(map) /\ Counted(map) /\ HashOK  BY InvHash DEF MapInv
  <2>2. Len(Entries(map)) = Cardinality(EntrySet(map))  BY <2>1, EntriesOf
  <2> QED  BY <2>1, <2>2 DEF LenCounts, Counted
<1> QED  BY <1>1, MapCorrect, PTL

(* The nodes of the chains are all the nodes nncmap_put allocated but for   *)
(* those rewrites cut off: nncmap_buckets_fini leaks these and no others.   *)
THEOREM MapNodesOwned == Spec => []NodesOwned
<1>1. MapInv => NodesOwned  BY DEF MapInv, NodesOwned, Counted
<1> QED  BY <1>1, MapCorrect, PTL

-----------------------------------------------------------------------------
(* The refinement of the dictionary. *)

(* The dictionary has the keys of the map, and for each the value of its    *)
(* entry.                                                                   *)
LEMMA AbstractAt ==
  ASSUME HashOK, NEW m, Placed(m)
  PROVE  /\ DOMAIN Abstract(m) = KeysOf(m)
         /\ Abstract(m) = [k \in KeysOf(m) |-> Abstract(m)[k]]
         /\ \A e \in EntrySet(m) : e.key \in KeysOf(m) /\ Abstract(m)[e.key] = e.val
<1>1. Abstract(m) = [k \in KeysOf(m) |-> (CHOOSE e \in EntrySet(m) : e.key = k).val]  BY DEF Abstract
<1>2. ASSUME NEW e \in EntrySet(m) PROVE e.key \in KeysOf(m) /\ Abstract(m)[e.key] = e.val
  <2>1. e.key \in KeysOf(m)  BY DEF KeysOf
  <2> DEFINE f == CHOOSE x \in EntrySet(m) : x.key = e.key
  <2>2. f \in EntrySet(m) /\ f.key = e.key  OBVIOUS
  <2>3. Abstract(m)[e.key] = f.val  BY <1>1, <2>1
  <2> HIDE DEF f
  <2>4. f = e  BY <2>2, EntryIn
  <2> QED  BY <2>1, <2>3, <2>4
<1> QED  BY <1>1, <1>2

(* The dictionary after a put of an entry that cut off the keys of lost. *)
AfterPut(m, e, lost) ==
  [j \in (DOMAIN Abstract(m) \ lost) \cup {e.key} |-> IF j = e.key THEN e.val ELSE Abstract(m)[j]]

(* A map with a new or rewritten entry and no other one is such a dictionary. *)
LEMMA AbstractPut ==
  ASSUME HashOK, NEW m, Placed(m), NEW n, Placed(n), NEW e, e \in EntrySet(n),
         EntrySet(n) \subseteq EntrySet(m) \cup {e}
  PROVE  Abstract(n) = AfterPut(m, e, KeysOf(m) \ KeysOf(n))
<1> DEFINE D == (DOMAIN Abstract(m) \ (KeysOf(m) \ KeysOf(n))) \cup {e.key}
<1>2. /\ DOMAIN Abstract(m) = KeysOf(m)
      /\ \A x \in EntrySet(m) : x.key \in KeysOf(m) /\ Abstract(m)[x.key] = x.val  BY AbstractAt
<1>3. /\ DOMAIN Abstract(n) = KeysOf(n) /\ Abstract(n) = [k \in KeysOf(n) |-> Abstract(n)[k]]
      /\ \A x \in EntrySet(n) : x.key \in KeysOf(n) /\ Abstract(n)[x.key] = x.val  BY AbstractAt
<1>1. D = KeysOf(n)
  <2>1. KeysOf(n) \subseteq KeysOf(m) \cup {e.key}  BY DEF KeysOf
  <2> QED  BY <1>2, <1>3, <2>1
<1>4. ASSUME NEW j \in KeysOf(n) PROVE Abstract(n)[j] = IF j = e.key THEN e.val ELSE Abstract(m)[j]
  <2>1. CASE j = e.key  BY <1>3, <2>1
  <2>2. CASE j # e.key
    <3>1. PICK x \in EntrySet(n) : x.key = j  BY DEF KeysOf
    <3>2. x \in EntrySet(m)  BY <2>2, <3>1
    <3>3. Abstract(m)[j] = x.val /\ Abstract(n)[j] = x.val  BY <1>2, <1>3, <3>1, <3>2
    <3> QED  BY <2>2, <3>3
  <2> QED  BY <2>1, <2>2
<1>5. AfterPut(m, e, KeysOf(m) \ KeysOf(n)) = [j \in D |-> IF j = e.key THEN e.val ELSE Abstract(m)[j]]
  BY DEF AfterPut
<1> HIDE DEF D
<1>6. AfterPut(m, e, KeysOf(m) \ KeysOf(n)) = [j \in KeysOf(n) |-> IF j = e.key THEN e.val ELSE Abstract(m)[j]]
  BY <1>1, <1>5
<1> QED  BY <1>3, <1>4, <1>6

AfterPop(m, k) == [j \in DOMAIN Abstract(m) \ {k} |-> Abstract(m)[j]]

Without(m, k, n) == \A e : e \in EntrySet(n) <=> e \in EntrySet(m) /\ e.key # k

(* A map without the entry of a key is the dictionary after a pop. *)
LEMMA AbstractPop ==
  ASSUME HashOK, NEW m, Placed(m), NEW n, Placed(n), NEW k, Without(m, k, n)
  PROVE  Abstract(n) = AfterPop(m, k)
<1>0. \A e : e \in EntrySet(n) <=> e \in EntrySet(m) /\ e.key # k  BY DEF Without
<1>1. KeysOf(n) = KeysOf(m) \ {k}  BY <1>0 DEF KeysOf
<1>2. /\ DOMAIN Abstract(m) = KeysOf(m)
      /\ \A x \in EntrySet(m) : x.key \in KeysOf(m) /\ Abstract(m)[x.key] = x.val  BY AbstractAt
<1>3. /\ DOMAIN Abstract(n) = KeysOf(n) /\ Abstract(n) = [j \in KeysOf(n) |-> Abstract(n)[j]]
      /\ \A x \in EntrySet(n) : x.key \in KeysOf(n) /\ Abstract(n)[x.key] = x.val  BY AbstractAt
<1>4. ASSUME NEW j \in KeysOf(n) PROVE Abstract(n)[j] = Abstract(m)[j]
  <2>1. PICK x \in EntrySet(n) : x.key = j  BY DEF KeysOf
  <2>2. x \in EntrySet(m)  BY <1>0, <2>1
  <2> QED  BY <1>2, <1>3, <2>1, <2>2
<1>5. AfterPop(m, k) = [j \in KeysOf(n) |-> Abstract(m)[j]]  BY <1>1, <1>2 DEF AfterPop
<1> QED  BY <1>3, <1>4, <1>5

(* An empty map is the empty dictionary. *)
LEMMA AbstractEmpty ==
  ASSUME NEW m, EntrySet(m) = {}
  PROVE  Abstract(m) = [k \in {} |-> Nothing]
<1>1. KeysOf(m) = {}  BY DEF KeysOf
<1> QED  BY <1>1 DEF Abstract

(* nncmap_get of a key that is there. *)
LEMMA GetIs ==
  ASSUME HashOK, NEW m, Placed(m), NEW k \in Keys, NncmapHas(m, k)
  PROVE  k \in DOMAIN Abstract(m) /\ NncmapGet(m, k) = Abstract(m)[k]
<1> DEFINE e == Chain(m, k)[Find(Chain(m, k), k)]
<1>1. e \in EntrySet(m) /\ e.key = k /\ Find(Chain(m, k), k) # 0  BY HasIs DEF NncmapHas
<1>2. NncmapGet(m, k) = e.val  BY <1>1 DEF NncmapGet
<1> HIDE DEF e
<1> QED  BY <1>1, <1>2, AbstractAt

(* Every step of the map is a step of the dictionary or leaves it alone.    *)
LEMMA StepDict ==
  ASSUME MapInv, [Next]_vars
  PROVE  [Dict!Next]_<<Abstract(map), ret>>
<1>0. HashOK /\ Placed(map)  BY InvHash DEF MapInv
<1>d. DOMAIN Abstract(map) = KeysOf(map)  BY <1>0, AbstractAt
<1>p. \A x : x = Abstract(map') => Abstract(map)' = x  BY DEF Abstract, KeysOf, EntrySet
<1>1. ASSUME NEW k \in Keys, NEW v \in Vals, Put(k, v) PROVE Dict!Put(k, v)
  <2>1. map' = NncmapPut(map, k, v) /\ ret' = Nothing  BY <1>1 DEF Put
  <2>0. PICK e : e = [key |-> k, val |-> v]  OBVIOUS
  <2>3. e = [key |-> k, val |-> v] /\ e.key = k /\ e.val = v  BY <2>0
  <2>4. PICK n : n = map'  OBVIOUS
  <2>5. /\ Placed(n) /\ EntrySet(n) \subseteq EntrySet(map) \cup {e} /\ e \in EntrySet(n)
        /\ k \notin KeysOf(map) => EntrySet(n) = EntrySet(map) \cup {e}
    BY <1>0, <2>1, <2>3, <2>4, NncmapPutKeeps
  <2>6. PICK lost : lost = KeysOf(map) \ KeysOf(n)  OBVIOUS
  <2>7. lost \in SUBSET DOMAIN Abstract(map)  BY <1>d, <2>6
  <2>8. k \notin DOMAIN Abstract(map) => lost = {}  BY <1>d, <2>5, <2>6 DEF KeysOf
  <2>9. Abstract(n) = AfterPut(map, e, lost)  BY <1>0, <2>5, <2>6, AbstractPut
  <2>10. Abstract(n) = Dict!Set(k, v, lost)  BY <2>3, <2>9 DEF AfterPut, Dict!Set
  <2>11. Abstract(map)' = Dict!Set(k, v, lost)  BY <1>p, <2>4, <2>10
  <2> QED  BY <2>1, <2>7, <2>8, <2>11 DEF Dict!Put
<1>2. ASSUME NEW k \in Keys, Pop(k) PROVE Dict!Pop(k)
  <2>1. map' = (IF NncmapHas(map, k) THEN NncmapPop(map, k) ELSE map) /\ ret' = Nothing  BY <1>2 DEF Pop
  <2>2. NncmapHas(map, k) <=> k \in KeysOf(map)  BY <1>0, HasIs
  <2>3. PICK n : n = map'  OBVIOUS
  <2>4. Placed(n) /\ EntrySet(n) = {e \in EntrySet(map) : e.key # k}
    <3>1. CASE NncmapHas(map, k)  BY <1>0, <2>1, <2>2, <2>3, <3>1, PopEntry
    <3>2. CASE ~NncmapHas(map, k)
      <4>1. n = map  BY <2>1, <2>3, <3>2
      <4>2. \A e \in EntrySet(map) : e.key # k  BY <2>2, <3>2 DEF KeysOf
      <4> QED  BY <1>0, <4>1, <4>2
    <3> QED  BY <3>1, <3>2
  <2>5. Abstract(n) = AfterPop(map, k)
    <3>1. Without(map, k, n)  BY <2>4 DEF Without
    <3> QED  BY <1>0, <2>4, <3>1, AbstractPop
  <2>6. Abstract(map)' = AfterPop(map, k)  BY <1>p, <2>3, <2>5
  <2> QED  BY <2>1, <2>6 DEF Dict!Pop, AfterPop
<1>3. ASSUME NEW k \in Keys, Has(k) PROVE Dict!Has(k)
  <2>1. map' = map /\ ret' = IF NncmapHas(map, k) THEN "true" ELSE "false"  BY <1>3 DEF Has
  <2>2. NncmapHas(map, k) <=> k \in DOMAIN Abstract(map)  BY <1>0, <1>d, HasIs
  <2>3. Abstract(map)' = Abstract(map)  BY <1>p, <2>1
  <2> QED  BY <2>1, <2>2, <2>3 DEF Dict!Has
<1>4. ASSUME NEW k \in Keys, Get(k) PROVE Dict!Get(k)
  <2>1. map' = map /\ NncmapHas(map, k) /\ ret' = NncmapGet(map, k)  BY <1>4 DEF Get
  <2>2. k \in DOMAIN Abstract(map) /\ NncmapGet(map, k) = Abstract(map)[k]  BY <1>0, <2>1, GetIs
  <2>3. Abstract(map)' = Abstract(map)  BY <1>p, <2>1
  <2> QED  BY <2>1, <2>2, <2>3 DEF Dict!Get
<1>5. ASSUME NEW cap \in InitCaps, Reinit(cap) PROVE Dict!Fini
  <2>1. PICK x, l : map' = Empty(cap, x, l) /\ ret' = Nothing  BY <1>5 DEF Reinit
  <2>2. cap \in Nat \ {0}  BY CallersAssumption
  <2>3. EntrySet(Empty(cap, x, l)) = {}  BY <2>2, EmptyMap
  <2>4. Abstract(map)' = [k \in {} |-> Nothing]  BY <1>p, <2>1, <2>3, AbstractEmpty
  <2> QED  BY <2>1, <2>4 DEF Dict!Fini
<1>6. CASE UNCHANGED vars
  <2>1. map' = map /\ ret' = ret  BY <1>6 DEF vars
  <2>2. Abstract(map)' = Abstract(map)  BY <1>p, <2>1
  <2> QED  BY <2>1, <2>2
<1> QED  BY <1>1, <1>2, <1>3, <1>4, <1>5, <1>6 DEF Next, Dict!Next

(* The map implements the dictionary: whatever collides and whenever a put  *)
(* rehashes, nncmap_has and nncmap_get answer from the puts and pops, and   *)
(* no key is lost but by the rewrite of one that is there.                  *)
THEOREM MapImplementsDict == Spec => ImplementsDict
<1>1. Init => Dict!Init
  <2> SUFFICES ASSUME Init PROVE Dict!Init  OBVIOUS
  <2>1. PICK cap \in InitCaps : map = Empty(cap, 0, 0)  BY DEF Init
  <2>2. cap \in Nat \ {0}  BY CallersAssumption
  <2>3. EntrySet(map) = {}  BY <2>1, <2>2, EmptyMap
  <2>4. Abstract(map) = [k \in {} |-> Nothing]  BY <2>3, AbstractEmpty
  <2> QED  BY <2>4 DEF Init, Dict!Init
<1>2. MapInv /\ [Next]_vars => [Dict!Next]_<<Abstract(map), ret>>  BY StepDict
<1> QED  BY <1>1, <1>2, MapCorrect, PTL DEF Spec, ImplementsDict, Dict!Spec
=============================================================================
