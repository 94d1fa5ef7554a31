------------------------------- MODULE NncMap -------------------------------
(***************************************************************************)
(* The hash map of the compiler (src/src/nnc_map.c): an array of buckets   *)
(* with chaining, rehashed by a put that finds it loaded.  A chain is the  *)
(* sequence of the entries reached from a bucket of the array; an empty    *)
(* sequence is a bucket without a key.                                     *)
(*                                                                         *)
(* A map is the record of the C struct plus three counts of what happened  *)
(* to it: `nodes', the chain nodes it allocated (nncmap_bucket_init) and   *)
(* did not dispose of; `cut', the entries that rewrites of a key cut off   *)
(* since the array was allocated; `leak', the nodes these entries were in. *)
(***************************************************************************)
EXTENDS Integers, Sequences, SequencesExt, FiniteSetsExt

CONSTANTS Keys, Vals, Nothing,
          InitCaps,          \* capacities map_init_with is called with
          Hashes,            \* the hash functions, Keys -> Nat
          LoadNum, LoadDen,  \* NNC_MAP_MAX_LOAD = LoadNum / LoadDen
          ScaleNum, ScaleDen,\* NNC_MAP_REHASH_SCALAR = ScaleNum / ScaleDen
          MaxCap,            \* bound on the capacity at a put
          MaxNodes           \* bound on the chain nodes at a put

ASSUME CallersAssumption ==
  /\ InitCaps \subseteq Nat \ {0} /\ Hashes \subseteq [Keys -> Nat]
  /\ MaxCap \in Nat /\ MaxNodes \in Nat

(* The array never shrinks: NNC_MAP_REHASH_SCALAR is 1.5. *)
ASSUME ScaleAssumption ==
  ScaleNum \in Nat /\ ScaleDen \in Nat \ {0} /\ ScaleNum >= ScaleDen

VARIABLES map, hash, ret

vars == <<map, hash, ret>>

Entry == [key : Keys, val : Vals]

Empty(cap, nodes, leak) ==
  [cap |-> cap, len |-> 0, nodes |-> nodes, cut |-> 0, leak |-> leak,
   buckets |-> [i \in 0 .. cap - 1 |-> <<>>]]

Idx(m, k) == hash[k] % m.cap

Chain(m, k) == m.buckets[Idx(m, k)]

(* nncmap_keys_cmp down a chain: the position of the key, 0 if it is not there. *)
Find(chain, k) == SelectInSeq(chain, LAMBDA e : e.key = k)

(* nncmap_has, whose early exit for a bucket without a key is Find on an    *)
(* empty chain.                                                             *)
NncmapHas(m, k) == Find(Chain(m, k), k) # 0

(* nncmap_needs_rehash for a capacity that is not zero. *)
NeedsRehash(m) == m.len * LoadDen >= LoadNum * m.cap

(* The entries of a map in the order in which nncmap_rehash visits them. *)
Entries(m) == FlattenSeq([i \in 1 .. m.cap |-> m.buckets[i - 1]])

(* The entries of a map, in no order, and their keys. *)
EntrySet(m) == UNION {ToSet(m.buckets[i]) : i \in 0 .. m.cap - 1}

KeysOf(m) == {e.key : e \in EntrySet(m)}

(* The heap nodes of the chains: all positions but the one in the array. *)
ChainNodes(m) == UNION {{i} \X (2 .. Len(m.buckets[i])) : i \in 0 .. m.cap - 1}

(* The search loop of nncmap_put: an entry of the same key is rewritten and *)
(* becomes the LAST of its chain (bucket->next = NULL), what was behind it  *)
(* is lost; otherwise a new entry ends the chain, in a new node unless the  *)
(* bucket was empty.                                                        *)
PutInChain(m, k, v) ==
  LET chain == Chain(m, k)
      pos == Find(chain, k)
      kept == IF pos = 0 THEN chain ELSE SubSeq(chain, 1, pos - 1)
      lost == IF pos = 0 THEN 0 ELSE Len(chain) - pos
  IN  [m EXCEPT !.buckets[Idx(m, k)] = Append(kept, [key |-> k, val |-> v]),
                !.len = IF pos = 0 THEN @ + 1 ELSE @,
                !.nodes = IF pos = 0 /\ chain # <<>> THEN @ + 1 ELSE @,
                !.cut = @ + lost,
                !.leak = @ + lost]

Scaled(cap) == (cap * ScaleNum) \div ScaleDen

(* Mutants: the rehash keeps the old index of every bucket, forgets to      *)
(* dispose of the old chains, or visits only the heads of the chains.       *)
NncmapRehash_SameBuckets(F, m) ==
  [m EXCEPT !.cap = Scaled(@),
            !.buckets = [i \in 0 .. Scaled(m.cap) - 1 |->
                           IF i < m.cap THEN m.buckets[i] ELSE <<>>]]
NncmapRehash_KeepsOldNodes(F, m) ==
  [F[Entries(m)][Scaled(m.cap)] EXCEPT !.nodes = m.nodes + @, !.leak = m.leak + @]
NncmapRehash_HeadsOnly(F, m) ==
  LET heads == SelectSeq(Entries(m), LAMBDA e : Chain(m, e.key)[1] = e)
  IN  [F[heads][Scaled(m.cap)] EXCEPT !.nodes = m.nodes + @]

(* nncmap_rehash: an array 1.5 times as large is filled with the entries    *)
(* (F tells how), then the old chains are disposed of (nncmap_buckets_fini). *)
NncmapRehash(F, m) ==
  [F[Entries(m)][Scaled(m.cap)] EXCEPT
     !.nodes = m.nodes + @ - Cardinality(ChainNodes(m)),
     !.leak = m.leak + @]

(* nncmap_put of an entry, with F for the refilling of a rehash. *)
PutEntry(F, m, e) ==
  PutInChain(IF NeedsRehash(m) THEN NncmapRehash(F, m) ELSE m, e.key, e.val)

(* The loop of nncmap_rehash: the entries of s are put one by one into an   *)
(* array of cap buckets, with puts that may rehash themselves.              *)
Refilled[s \in Seq(Entry)] ==
  [cap \in Nat \ {0} |->
     IF s = <<>> THEN Empty(cap, 0, 0)
                 ELSE PutEntry(Refilled, Refilled[Front(s)][cap], Last(s))]

(* nncmap_put *)
NncmapPut(m, k, v) == PutEntry(Refilled, m, [key |-> k, val |-> v])

(* Mutant: the pop of an entry clears the chain behind it. *)
NncmapPop_DropsChain(m, k) ==
  [m EXCEPT !.buckets[Idx(m, k)] = SubSeq(@, 1, Find(@, k) - 1), !.len = @ - 1]

(* nncmap_pop of a key that is present: the first entry is replaced by a    *)
(* copy of its successor, any other one is unlinked.                        *)
NncmapPop(m, k) ==
  LET chain == Chain(m, k)
  IN  [m EXCEPT !.buckets[Idx(m, k)] = RemoveAt(chain, Find(chain, k)),
                !.len = @ - 1,
                !.nodes = IF Len(chain) > 1 THEN @ - 1 ELSE @]

(* nncmap_get: the search of a key that is not there runs off the end of    *)
(* the chain before it reaches the assertion.  (An integer key 0 meets an   *)
(* empty bucket, whose key field is 0, and does fail the assertion.)        *)
NncmapGet(m, k) ==
  LET chain == Chain(m, k)
      pos == Find(chain, k)
  IN  IF pos # 0 THEN chain[pos].val
      ELSE IF chain = <<>> /\ k = 0 THEN "assertion failed"
      ELSE "null bucket"

-----------------------------------------------------------------------------
Init ==
  /\ hash \in Hashes
  /\ \E cap \in InitCaps : map = Empty(cap, 0, 0)
  /\ ret = Nothing

(* Of any key: nnc_put_loc (nnc_gen_sa.c:281) puts the labels of arguments, *)
(* spilled parameters and swapped temporaries again without nncmap_has.     *)
Put(k, v) ==
  /\ map.cap =< MaxCap /\ map.nodes =< MaxNodes
  /\ map' = NncmapPut(map, k, v)
  /\ ret' = Nothing
  /\ UNCHANGED hash

Pop(k) ==
  /\ map' = IF NncmapHas(map, k) THEN NncmapPop(map, k) ELSE map
  /\ ret' = Nothing
  /\ UNCHANGED hash

Has(k) ==
  /\ ret' = IF NncmapHas(map, k) THEN "true" ELSE "false"
  /\ UNCHANGED <<map, hash>>

(* Callers ask nncmap_has first. *)
Get(k) ==
  /\ NncmapHas(map, k)
  /\ ret' = NncmapGet(map, k)
  /\ UNCHANGED <<map, hash>>

(* nncmap_fini followed by nncmap_init. *)
Reinit(cap) ==
  /\ map' = Empty(cap, map.nodes - Cardinality(ChainNodes(map)), map.leak)
  /\ ret' = Nothing
  /\ UNCHANGED hash

Next ==
  \/ \E k \in Keys, v \in Vals : Put(k, v)
  \/ \E k \in Keys : Pop(k) \/ Has(k) \/ Get(k)
  \/ \E cap \in InitCaps : Reinit(cap)

Spec == Init /\ [][Next]_vars

-----------------------------------------------------------------------------
(* TypeOK: the shape of the map. *)
TypeOK ==
  /\ map.cap \in Nat \ {0} /\ map.len \in Nat /\ map.nodes \in Nat
  /\ map.cut \in Nat /\ map.leak \in Nat
  /\ map.buckets \in [0 .. map.cap - 1 -> Seq(Entry)]
  /\ hash \in Hashes

(* The chains are well formed whatever was put, rewritten, rehashed and     *)
(* popped: every entry is in the bucket its key hashes to under the current *)
(* capacity and no key is in a chain twice, which is what the searches of   *)
(* nncmap_get, nncmap_has and nncmap_pop rely on.                           *)
WellPlaced ==
  \A i \in 0 .. map.cap - 1 :
    LET chain == map.buckets[i]
    IN  /\ \A j \in DOMAIN chain : Idx(map, chain[j].key) = i
        /\ \A j, n \in DOMAIN chain : chain[j].key = chain[n].key => j = n

(* len counts the keys of the map (nncmap_put "increase length only in case *)
(* when bucket without any key is filled", nncmap_pop) and those a rewrite  *)
(* cut off: it is the real one until a key is rewritten and after the next  *)
(* rehash, and in between the load factor is too high, never too low.       *)
LenCounts == map.len = Len(Entries(map)) + map.cut

(* Every chain node is reachable, so that nncmap_buckets_fini disposes of   *)
(* all that nncmap_put allocated, across rehashes and pops, but for the     *)
(* nodes a rewrite cut off: nobody disposes of those.                       *)
NodesOwned == map.nodes = Cardinality(ChainNodes(map)) + map.leak

(* The map implements the dictionary of NncDict: nncmap_has and nncmap_get  *)
(* answer from the puts and pops so far, a rehash is invisible, and the one *)
(* operation that loses other keys is the rewrite of a key that is present. *)
Abstract(m) == [k \in KeysOf(m) |-> (CHOOSE e \in EntrySet(m) : e.key = k).val]
Dict == INSTANCE NncDict WITH dict <- Abstract(map)
ImplementsDict == Dict!Spec
=============================================================================
