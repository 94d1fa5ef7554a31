--------------------------- MODULE NncArenaProofs ---------------------------
(***************************************************************************)
(* Proofs about NncArena, for every set of addresses, every initial        *)
(* capacity and every zip rate.  ArenaInv is inductive; the byte counters  *)
(* are sums over sets and stay with TLC.                                   *)
(***************************************************************************)
EXTENDS NncArena, FiniteSetTheorems, TLAPS

(* The slots that are counted as holes. *)
Holes == {i \in 0 .. len - 1 : entries[i] = NULL}

(* The holes of the array are finitely many: nnc_arena_need_zip compares    *)
(* their number with the capacity.                                          *)
LEMMA HolesFinite == ASSUME len \in Nat PROVE IsFiniteSet(Holes)
<1>1. IsFiniteSet(0 .. len - 1)  BY FS_Interval
<1>2. Holes \in SUBSET (0 .. len - 1)  BY DEF Holes
<1> QED  BY <1>1, <1>2, FS_Subset

(* nnc_arena_init establishes the invariant. *)
LEMMA InitInv == Init => ArenaInv
<1> SUFFICES ASSUME Init PROVE ArenaInv  OBVIOUS
<1> USE CapAssumption, PtrAssumption, RateAssumption DEF Init, NoZip
<1>1. TypeOK  BY DEF TypeOK
<1>2. LiveSlots = {}  BY DEF LiveSlots
<1>3. NoLeak /\ ListedOnce  BY <1>2 DEF NoLeak, ListedOnce
<1>4. HolesCounted
  <2>1. {i \in 0 .. len - 1 : entries[i] = NULL} = {}  OBVIOUS
  <2> QED  BY <2>1, FS_EmptySet DEF HolesCounted
<1>5. PushInBounds /\ ExitClean /\ ZipProgress /\ ClosedShape /\ OpenCap
  BY <1>2 DEF OpenCap, PushInBounds, ExitClean, ZipProgress, ClosedShape
<1> QED  BY <1>1, <1>3, <1>4, <1>5 DEF ArenaInv

(* Malloc: the new block is not listed, because every listed block is still *)
(* in the heap.                                                             *)
LEMMA MallocInv ==
  ASSUME ArenaInv, NEW p \in Ptrs, NEW size \in Sizes, Malloc(p, size)
  PROVE  ArenaInv'
<1> USE PtrAssumption, SizeAssumption DEF ArenaInv, Malloc, metrics, counters
<1>1. TypeOK'  BY DEF TypeOK
<1>2. LiveSlots' = LiveSlots  BY DEF LiveSlots
<1>3. NoLeak'  BY <1>2 DEF NoLeak
<1>4. ListedOnce'  BY <1>2 DEF ListedOnce, NoLeak
<1>5. HolesCounted' /\ PushInBounds'  BY <1>2 DEF HolesCounted, PushInBounds
<1>6. ExitClean' /\ ZipProgress' /\ ClosedShape' /\ OpenCap'
  BY DEF ExitClean, ZipProgress, ClosedShape, TypeOK, OpenCap
<1> QED  BY <1>1, <1>3, <1>4, <1>5, <1>6

(* A store at slot len of an array that agrees with `entries' below len and *)
(* whose slots below len are all entries or counted holes.                  *)
LEMMA StoreInv ==
  ASSUME ArenaInv, ~zip.on, pending # NULL,
         NEW STATE arr, Store(arr, len), UNCHANGED <<bytes, disposed, heap, zip, phase>>,
         \A i \in 0 .. len - 1 : i \in DOMAIN arr /\ arr[i] = entries[i]
  PROVE  NoLeak' /\ ListedOnce' /\ HolesCounted'
<1> USE PtrAssumption DEF ArenaInv, Store
<1>1. len \in Nat /\ pending \in Ptrs  BY DEF TypeOK
<1>2. zip = NoZip /\ zip' = NoZip  BY DEF ZipProgress
<1>3. \A i \in 0 .. len - 1 : entries'[i] = entries[i]  BY <1>1
<1>4. entries'[len] = pending  OBVIOUS
<1>5. LiveSlots = {i \in 0 .. len - 1 : entries[i] # NULL}
  BY <1>1, <1>2 DEF LiveSlots, NoZip
<1>6. LiveSlots' = LiveSlots \cup {len}
  <2>1. LiveSlots' = {i \in 0 .. len : entries'[i] # NULL}
    BY <1>1, <1>2 DEF LiveSlots, NoZip
  <2> QED  BY <2>1, <1>1, <1>3, <1>4, <1>5
<1>7. NoLeak'  BY <1>1, <1>3, <1>4, <1>5, <1>6 DEF NoLeak
<1>8. ListedOnce'
  <2>1. ASSUME NEW i \in LiveSlots', NEW j \in LiveSlots', entries'[i] = entries'[j]
        PROVE  i = j
    BY <2>1, <1>1, <1>3, <1>4, <1>5, <1>6 DEF ListedOnce
  <2>2. \A i \in LiveSlots' : entries'[i] # pending'
    BY <1>1, <1>3, <1>4, <1>5, <1>6
  <2> QED  BY <2>1, <2>2 DEF ListedOnce
<1>9. HolesCounted'
  <2>1. {i \in 0 .. len' - 1 : entries'[i] = NULL} = {i \in 0 .. len - 1 : entries[i] = NULL}
    BY <1>1, <1>3, <1>4
  <2> QED  BY <2>1 DEF HolesCounted
<1> QED  BY <1>7, <1>8, <1>9

(* PushRoom: an open arena whose len differs from cap has a free slot.      *)
LEMMA PushRoomInv == ASSUME ArenaInv, PushRoom PROVE ArenaInv'
<1> USE PtrAssumption DEF ArenaInv, PushRoom
<1>1. phase = "open"  BY DEF ClosedShape, TypeOK
<1>2. NoLeak' /\ ListedOnce' /\ HolesCounted'
  <2>1. \A i \in 0 .. len - 1 : i \in DOMAIN entries
    BY <1>1 DEF TypeOK, PushInBounds
  <2> QED  BY <2>1, StoreInv
<1> USE DEF Store
<1>3. TypeOK'
  BY <1>1 DEF TypeOK, PushInBounds
<1>4. len < cap /\ DOMAIN entries' = 0 .. cap - 1
  BY <1>1 DEF TypeOK, PushInBounds
<1>5. PushInBounds'
  BY <1>1, <1>4 DEF PushInBounds, LiveSlots, TypeOK, ZipProgress, NoZip
<1>6. ExitClean' /\ ZipProgress' /\ ClosedShape' /\ OpenCap'
  BY <1>1 DEF ExitClean, ZipProgress, ClosedShape, OpenCap
<1> QED  BY <1>2, <1>3, <1>5, <1>6

(* PushGrow: doubling keeps the slots below len; in a closed arena the      *)
(* capacity stays zero and the message becomes the only slot.               *)
LEMMA PushGrowInv == ASSUME ArenaInv, PushGrow PROVE ArenaInv'
<1> USE PtrAssumption DEF ArenaInv, PushGrow
<1>1. len \in Nat /\ cap \in Nat /\ cap = len /\ cap * 2 \in Nat  BY DEF TypeOK
<1>2. phase # "exited"  BY DEF ExitClean
<1>3. \A i \in 0 .. len - 1 : i \in DOMAIN entries
  BY <1>1 DEF TypeOK, PushInBounds, ClosedShape
<1>4. \A i \in 0 .. len - 1 :
        i \in DOMAIN Realloc(cap * 2) /\ Realloc(cap * 2)[i] = entries[i]
  BY <1>1, <1>3 DEF Realloc
<1>5. NoLeak' /\ ListedOnce' /\ HolesCounted'
  BY <1>4, StoreInv
<1> USE DEF Store, Realloc
<1>6. TypeOK'  BY <1>1 DEF TypeOK
<1>7. CASE phase = "open"
  <2>1. cap # 0  BY <1>7 DEF ArenaInv, OpenCap
  <2>2. DOMAIN entries' = 0 .. cap' - 1  BY <1>1, <2>1
  <2>3. LiveSlots' \subseteq 0 .. len
    BY <1>1 DEF LiveSlots, ZipProgress, NoZip
  <2>4. \A i \in LiveSlots' : entries'[i] # JUNK
    <3> SUFFICES ASSUME NEW i \in LiveSlots' PROVE entries'[i] # JUNK  OBVIOUS
    <3>1. CASE i = len  BY <3>1 DEF TypeOK
    <3>2. CASE i \in 0 .. len - 1
      <4>1. entries'[i] = entries[i]  BY <1>1, <1>3, <3>2
      <4>2. entries[i] # NULL  BY <4>1 DEF LiveSlots
      <4> QED  BY <1>7, <3>2, <4>1, <4>2 DEF LiveSlots, PushInBounds
    <3> QED  BY <1>1, <2>3, <3>1, <3>2
  <2>5. PushInBounds'
    <3>1. len' =< cap'  BY <1>1, <2>1
    <3> QED  BY <2>2, <2>4, <3>1 DEF PushInBounds
  <2>6. ExitClean' /\ ZipProgress' /\ ClosedShape'
    BY <1>7 DEF ExitClean, ZipProgress, ClosedShape
  <2> QED  BY <1>5, <1>6, <2>1, <2>5, <2>6, <1>1 DEF OpenCap
<1>8. CASE phase = "closed"
  <2>1. cap = 0 /\ len = 0  BY <1>8, <1>1 DEF ClosedShape
  <2>2. DOMAIN entries' = {0} /\ entries'[0] = pending /\ len' = 1 /\ cap' = 0
    BY <2>1
  <2>3. ClosedShape'  BY <1>8, <2>1, <2>2 DEF ClosedShape, TypeOK
  <2>4. PushInBounds' /\ ExitClean' /\ ZipProgress' /\ OpenCap'
    BY <1>8 DEF PushInBounds, ExitClean, ZipProgress, OpenCap
  <2> QED  BY <1>5, <1>6, <2>3, <2>4
<1> QED  BY <1>2, <1>7, <1>8 DEF TypeOK

(* ZipStart: need_zip demands a hole, so the loop will free a slot.         *)
LEMMA ZipStartInv == ASSUME ArenaInv, ZipStart PROVE ArenaInv'
<1> USE PtrAssumption DEF ArenaInv, ZipStart, counters
<1>1. phase = "open"  BY DEF ClosedShape, NeedZip
<1>2. len \in Nat /\ cap = len  BY DEF TypeOK
<1>3. \E i \in 0 .. len - 1 : entries[i] = NULL
  <2> SUFFICES ASSUME {i \in 0 .. len - 1 : entries[i] = NULL} = {} PROVE FALSE
    OBVIOUS
  <2>1. disposed = 0  BY FS_EmptySet DEF HolesCounted
  <2> QED  BY <2>1 DEF NeedZip
<1>4. LiveSlots' = LiveSlots
  BY <1>2 DEF LiveSlots, ZipProgress, NoZip
<1>5. TypeOK' /\ OpenCap'  BY DEF TypeOK, OpenCap
<1>6. NoLeak' /\ ListedOnce'  BY <1>4 DEF NoLeak, ListedOnce
<1>7. HolesCounted' /\ ExitClean' /\ ClosedShape'
  BY <1>1 DEF HolesCounted, ExitClean, ClosedShape
<1>8. PushInBounds'
  BY <1>1, <1>2, <1>3, <1>4 DEF PushInBounds
<1>9. ZipProgress'  BY <1>1, <1>2, <1>3 DEF ZipProgress
<1> QED  BY <1>5, <1>6, <1>7, <1>8, <1>9

(* ZipStep: one iteration keeps the live entries, below len or from addr on,*)
(* and never loses the hole that will give the new entry its slot.          *)
LEMMA ZipStepInv == ASSUME ArenaInv, ZipStep PROVE ArenaInv'
<1> USE PtrAssumption DEF ArenaInv, ZipStep, counters
<1> DEFINE a == zip.addr
           n == zip.initial
<1>1. /\ len \in Nat /\ cap \in Nat /\ a \in Nat /\ n \in Nat
      /\ len =< a /\ a < n /\ n = cap
      /\ DOMAIN entries = 0 .. cap - 1 /\ phase = "open"
  BY DEF TypeOK, ZipProgress, PushInBounds
<1>2. zip' = [on |-> TRUE, initial |-> n, addr |-> a + 1]
  BY DEF TypeOK
<1>3. CASE entries[a] = NULL
  <2>1. entries' = entries /\ len' = len  BY <1>3
  <2>2. LiveSlots' = LiveSlots  BY <1>1, <1>2, <1>3, <2>1 DEF LiveSlots
  <2>3. TypeOK' /\ NoLeak' /\ ListedOnce' /\ HolesCounted' /\ ExitClean'
    BY <1>1, <1>2, <2>1, <2>2
    DEF TypeOK, NoLeak, ListedOnce, HolesCounted, ExitClean
  <2>4. ZipProgress'  BY <1>1, <1>2, <1>3, <2>1 DEF ZipProgress
  <2>5. PushInBounds' /\ ClosedShape' /\ OpenCap'
    BY <1>1, <1>2, <2>1, <2>2 DEF PushInBounds, ClosedShape, OpenCap
  <2> QED  BY <2>3, <2>4, <2>5
<1>4. CASE entries[a] # NULL
  <2>1. len' = len + 1 /\ entries' = Moved(a)  BY <1>4
  <2>2. DOMAIN entries' = 0 .. cap - 1 /\ len \in 0 .. cap - 1 /\ a \in 0 .. cap - 1
    BY <1>1, <2>1 DEF Moved
  <2>3. /\ entries'[len] = entries[a]
        /\ \A i \in 0 .. cap - 1 : i # len /\ i # a => entries'[i] = entries[i]
    BY <1>1, <2>1, <2>2 DEF Moved
  <2>4. a \in LiveSlots /\ (len # a => len \notin LiveSlots \/ len < len)
    BY <1>1, <1>4 DEF LiveSlots
  <2>5. LiveSlots' = (LiveSlots \ {a}) \cup {len}
    <3>1. LiveSlots  = {i \in (0 .. len - 1) \cup (a .. n - 1) : entries[i] # NULL}
      BY DEF LiveSlots
    <3>2. LiveSlots' = {i \in (0 .. len) \cup (a + 1 .. n - 1) : entries'[i] # NULL}
      BY <1>1, <1>2, <2>1 DEF LiveSlots
    <3>3. \A i \in (0 .. len - 1) \cup (a + 1 .. n - 1) : entries'[i] = entries[i]
      BY <1>1, <2>3
    <3> QED  BY <1>1, <1>4, <2>3, <3>1, <3>2, <3>3
  <2>6. \A i \in LiveSlots \ {a} : i # len /\ entries'[i] = entries[i]
    BY <1>1, <2>3 DEF LiveSlots
  <2>7. NoLeak'  BY <2>3, <2>4, <2>5, <2>6 DEF NoLeak
  <2>8. ListedOnce'
    <3>1. ASSUME NEW i \in LiveSlots', NEW j \in LiveSlots', entries'[i] = entries'[j]
          PROVE  i = j
      BY <2>3, <2>4, <2>5, <2>6, <3>1 DEF ListedOnce
    <3>2. \A i \in LiveSlots' : entries'[i] # pending'
      BY <2>3, <2>4, <2>5, <2>6 DEF ListedOnce
    <3> QED  BY <3>1, <3>2 DEF ListedOnce
  <2>9. TypeOK'
    <3>1. \A i \in DOMAIN entries' : entries'[i] \in Ptrs \cup {NULL, JUNK}
      BY <1>1, <2>1, <2>2 DEF TypeOK, Moved
    <3> QED  BY <1>1, <1>2, <2>1, <2>2, <3>1 DEF TypeOK
  <2>10. ZipProgress'
    <3>1. \A i \in 0 .. len' - 1 : entries'[i] # NULL
      BY <1>1, <1>4, <2>1, <2>3 DEF ZipProgress
    <3>2. \/ len' < zip'.addr
          \/ \E i \in zip'.addr .. zip'.initial - 1 : entries'[i] = NULL
      BY <1>1, <1>2, <1>4, <2>1, <2>3 DEF ZipProgress
    <3> QED  BY <1>1, <1>2, <2>1, <3>1, <3>2 DEF ZipProgress
  <2>11. PushInBounds'
    <3>1. \A i \in LiveSlots' : entries'[i] # JUNK
      BY <1>1, <2>3, <2>4, <2>5, <2>6 DEF PushInBounds
    <3>2. zip'.addr = zip'.initial => len' < cap
      BY <1>1, <1>2, <2>1, <2>10 DEF ZipProgress
    <3> QED  BY <1>1, <2>1, <2>2, <3>1, <3>2 DEF PushInBounds
  <2>12. HolesCounted' /\ ExitClean' /\ ClosedShape' /\ OpenCap'
    BY <1>1, <1>2 DEF HolesCounted, ExitClean, ClosedShape, OpenCap
  <2> QED  BY <2>7, <2>8, <2>9, <2>10, <2>11, <2>12
<1> QED  BY <1>3, <1>4

(* ZipDone: the loop has left a free slot at len, and every slot below it   *)
(* holds an entry.                                                          *)
LEMMA ZipDoneInv == ASSUME ArenaInv, ZipDone PROVE ArenaInv'
<1> USE PtrAssumption DEF ArenaInv, ZipDone, Store
<1>1. /\ len \in Nat /\ cap \in Nat /\ len < cap /\ pending \in Ptrs
      /\ DOMAIN entries = 0 .. cap - 1 /\ phase = "open" /\ disposed = 0
      /\ zip.addr = zip.initial /\ zip.initial \in Nat
  BY DEF TypeOK, ZipProgress, PushInBounds
<1>2. LiveSlots = 0 .. len - 1
  BY <1>1 DEF LiveSlots, ZipProgress
<1>3. /\ \A i \in 0 .. len - 1 : entries'[i] = entries[i]
      /\ entries'[len] = pending
      /\ DOMAIN entries' = 0 .. cap - 1
  BY <1>1
<1>4. LiveSlots' = (0 .. len - 1) \cup {len}
  <2>1. LiveSlots' = {i \in 0 .. len : entries'[i] # NULL}
    BY <1>1 DEF LiveSlots, NoZip
  <2> QED  BY <1>1, <1>3, <2>1 DEF ZipProgress
<1>5. NoLeak'  BY <1>1, <1>2, <1>3, <1>4, ZenonT(60) DEF NoLeak
<1>6. ListedOnce'
  <2>1. ASSUME NEW i \in LiveSlots', NEW j \in LiveSlots', entries'[i] = entries'[j]
        PROVE  i = j
    <3>1. \A k \in 0 .. len - 1 : entries'[k] # entries'[len]
      BY <1>2, <1>3 DEF ListedOnce
    <3>2. \A k, m \in 0 .. len - 1 : entries'[k] = entries'[m] => k = m
      <4>1. \A k, m \in 0 .. len - 1 : entries[k] = entries[m] => k = m
        BY <1>2 DEF ListedOnce
      <4> HIDE DEF ArenaInv, ZipDone, Store
      <4> QED  BY <1>3, <4>1
    <3> QED  BY <1>4, <2>1, <3>1, <3>2
  <2>2. \A i \in LiveSlots' : entries'[i] # pending'
    BY <1>1, <1>3, <1>4 DEF ZipProgress
  <2> QED  BY <2>1, <2>2 DEF ListedOnce
<1>7. HolesCounted'
  <2>1. {i \in 0 .. len' - 1 : entries'[i] = NULL} = {}
    BY <1>1, <1>3 DEF ZipProgress
  <2> QED  BY <1>1, <2>1, FS_EmptySet DEF HolesCounted
<1>8. TypeOK'  BY <1>1 DEF TypeOK, NoZip
<1>9. PushInBounds'
  <2>1. \A i \in LiveSlots' : entries'[i] # JUNK
    BY <1>1, <1>2, <1>3, <1>4 DEF PushInBounds
  <2>2. len' =< cap' /\ zip'.on = FALSE  BY <1>1 DEF NoZip
  <2> QED  BY <1>1, <1>3, <2>1, <2>2 DEF PushInBounds
<1>10. ExitClean' /\ ZipProgress' /\ ClosedShape' /\ OpenCap'
  BY <1>1 DEF ExitClean, ZipProgress, ClosedShape, OpenCap, NoZip
<1> QED  BY <1>5, <1>6, <1>7, <1>8, <1>9, <1>10

(* Dispose: the block is listed in exactly one slot, which becomes one more *)
(* counted hole.                                                            *)
LEMMA DisposeInv ==
  ASSUME ArenaInv, NEW p \in Ptrs, Dispose(p) PROVE ArenaInv'
<1> USE PtrAssumption DEF ArenaInv, Dispose, CountHole
<1> DEFINE s == CHOOSE i \in SlotsOf(p) : \A k \in SlotsOf(p) : i =< k
<1>1. /\ len \in Nat /\ cap \in Nat /\ phase = "open" /\ zip = NoZip /\ pending = NULL
      /\ DOMAIN entries = 0 .. cap - 1 /\ len =< cap /\ p # NULL
  BY DEF TypeOK, ZipProgress, PushInBounds
<1>2. LiveSlots = {i \in 0 .. len - 1 : entries[i] # NULL}
  BY <1>1 DEF LiveSlots, NoZip
<1>3. \A i, j \in SlotsOf(p) : i = j
  BY <1>1, <1>2 DEF SlotsOf, ListedOnce
<1>4. PICK t : t \in SlotsOf(p)  OBVIOUS
<1>5. \A k \in SlotsOf(p) : t =< k  BY <1>3, <1>4, <1>1 DEF SlotsOf
<1>6. s \in SlotsOf(p)  BY <1>4, <1>5
<1>7. s \in 0 .. len - 1 /\ entries[s] = p  BY <1>6 DEF SlotsOf
<1> HIDE DEF s
<1>8. entries' = [entries EXCEPT ![s] = NULL]  BY DEF Flush, s
<1>9. /\ DOMAIN entries' = 0 .. cap - 1 /\ entries'[s] = NULL
      /\ \A i \in 0 .. cap - 1 : i # s => entries'[i] = entries[i]
  BY <1>1, <1>7, <1>8
<1>10. LiveSlots' = LiveSlots \ {s}
  <2>1. LiveSlots' = {i \in 0 .. len - 1 : entries'[i] # NULL}
    BY <1>1 DEF LiveSlots, NoZip
  <2> QED  BY <1>1, <1>2, <1>9, <2>1
<1>11. s \in LiveSlots  BY <1>1, <1>2, <1>7
<1>12. NoLeak'
  <2>1. \A i \in LiveSlots \ {s} : entries'[i] = entries[i] /\ entries[i] # p
    BY <1>1, <1>2, <1>7, <1>9, <1>11 DEF ListedOnce
  <2>2. heap = {entries[i] : i \in LiveSlots}  BY <1>1 DEF NoLeak
  <2>3. heap \ {p} = {entries'[i] : i \in LiveSlots \ {s}}
    BY <1>7, <1>11, <2>1, <2>2
  <2> QED  BY <1>1, <1>10, <2>3 DEF NoLeak
<1>13. ListedOnce'
  BY <1>1, <1>2, <1>9, <1>10 DEF ListedOnce
<1>14. HolesCounted'
  <2>1. Holes' = Holes \cup {s}
    BY <1>1, <1>7, <1>9 DEF Holes
  <2>2. s \notin Holes  BY <1>1, <1>7 DEF Holes
  <2>3. Cardinality(Holes') = Cardinality(Holes) + 1
    BY <1>1, <2>1, <2>2, HolesFinite, FS_AddElement
  <2> QED  BY <1>1, <2>3 DEF HolesCounted, Holes, NoZip
<1>15. TypeOK'  BY <1>1, <1>9 DEF TypeOK
<1>16. PushInBounds'
  BY <1>1, <1>2, <1>9, <1>10 DEF PushInBounds, NoZip
<1>17. ExitClean' /\ ZipProgress' /\ ClosedShape' /\ OpenCap'
  BY <1>1 DEF ExitClean, ZipProgress, ClosedShape, OpenCap, NoZip
<1> QED  BY <1>12, <1>13, <1>14, <1>15, <1>16, <1>17

(* Fini: every block of the heap is listed below len, so the sweep frees    *)
(* them all.                                                                *)
LEMMA FiniInv ==
  ASSUME ArenaInv, NEW to \in {"closed", "exited"}, Fini(to) PROVE ArenaInv'
<1> USE PtrAssumption DEF ArenaInv, Fini
<1>1. pending = NULL /\ zip = NoZip /\ len \in Nat  BY DEF ZipProgress, TypeOK
<1>2. heap = Listed
  BY <1>1 DEF NoLeak, LiveSlots, Listed, NoZip
<1>3. heap' = {}  BY <1>2
<1>4. LiveSlots' = {}  BY <1>1 DEF LiveSlots, NoZip
<1>5. TypeOK'  BY <1>1, <1>3 DEF TypeOK
<1>6. NoLeak' /\ ListedOnce'  BY <1>1, <1>3, <1>4 DEF NoLeak, ListedOnce
<1>7. HolesCounted'
  <2>1. {i \in 0 .. len' - 1 : entries'[i] = NULL} = {}  OBVIOUS
  <2> QED  BY <2>1, FS_EmptySet DEF HolesCounted
<1>8. PushInBounds' /\ ExitClean' /\ ZipProgress' /\ ClosedShape' /\ OpenCap'
  BY <1>1, <1>3 DEF PushInBounds, ExitClean, ZipProgress, ClosedShape, OpenCap, NoZip
<1> QED  BY <1>5, <1>6, <1>7, <1>8

(* The arena keeps its invariant: in every reachable state no block is lost *)
(* or listed twice, the holes are counted, a push into an open arena stays  *)
(* inside the array, and the exit leaves nothing allocated.                 *)
THEOREM ArenaCorrect == Spec => []ArenaInv
<1>1. ArenaInv /\ [Next]_vars => ArenaInv'
  <2> SUFFICES ASSUME ArenaInv, [Next]_vars PROVE ArenaInv'  OBVIOUS
  <2>1. ASSUME NEW p \in Ptrs, NEW size \in Sizes, Malloc(p, size) PROVE ArenaInv'
    BY <2>1, MallocInv
  <2>2. CASE PushRoom  BY <2>2, PushRoomInv
  <2>3. CASE PushGrow  BY <2>3, PushGrowInv
  <2>4. CASE ZipStart  BY <2>4, ZipStartInv
  <2>5. CASE ZipStep   BY <2>5, ZipStepInv
  <2>6. CASE ZipDone   BY <2>6, ZipDoneInv
  <2>7. ASSUME NEW p \in Ptrs, Dispose(p) PROVE ArenaInv'
    BY <2>7, DisposeInv
  <2>8. ASSUME NEW to \in {"closed", "exited"}, Fini(to) PROVE ArenaInv'
    BY <2>8, FiniInv
  <2>9. CASE UNCHANGED vars
    BY <2>9 DEF vars, metrics, counters, ArenaInv, TypeOK, NoLeak, ListedOnce,
       HolesCounted, PushInBounds, ExitClean, ZipProgress, ClosedShape, OpenCap,
       LiveSlots
  <2> QED
    BY <2>1, <2>2, <2>3, <2>4, <2>5, <2>6, <2>7, <2>8, <2>9 DEF Next
<1> QED  BY InitInv, <1>1, PTL DEF Spec

(* No block is ever lost by nnc_arena_zip, nnc_arena_grow or nnc_dispose.   *)
THEOREM ArenaNoLeak == Spec => []NoLeak
<1>1. ArenaInv => NoLeak  BY DEF ArenaInv
<1> QED  BY ArenaCorrect, <1>1, PTL

(* nnc_arena_push never stores outside the array of an open arena.          *)
THEOREM ArenaPushInBounds == Spec => []PushInBounds
<1>1. ArenaInv => PushInBounds  BY DEF ArenaInv
<1> QED  BY ArenaCorrect, <1>1, PTL

(* nnc_arena_need_zip's metric is the number of holes.                      *)
THEOREM ArenaHolesCounted == Spec => []HolesCounted
<1>1. ArenaInv => HolesCounted  BY DEF ArenaInv
<1> QED  BY ArenaCorrect, <1>1, PTL

(* The exit of the compiler leaves no block allocated, the message that     *)
(* nnc_check_for_errors formats in the closed arena included.               *)
THEOREM ArenaExitClean == Spec => []ExitClean
<1>1. ArenaInv => ExitClean  BY DEF ArenaInv
<1> QED  BY ArenaCorrect, <1>1, PTL
=============================================================================
