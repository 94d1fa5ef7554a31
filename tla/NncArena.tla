------------------------------ MODULE NncArena ------------------------------
(***************************************************************************)
(* The heap arena of the compiler (src/src/nnc_arena.c): an array of       *)
(* entries, one per block handed out by nnc_alloc.  Every data structure   *)
(* of the compiler lives in it, nnc_dispose punches holes into the array,  *)
(* and a push that finds the array full either compacts it in place        *)
(* (nnc_arena_zip) or doubles it (nnc_arena_grow).                         *)
(*                                                                         *)
(* The allocator below the arena (malloc, free) is external: `heap' maps   *)
(* every block that was malloc'ed and not freed to its size.  The          *)
(* compaction loop is modelled one iteration at a time because it is an    *)
(* in-place algorithm; the other loops are searches or sweeps and are      *)
(* atomic.                                                                 *)
(***************************************************************************)
EXTENDS Integers, FiniteSets, FiniteSetsExt

CONSTANTS Ptrs,           \* addresses malloc may return
          Sizes,          \* block sizes asked for
          NNC_ARENA_CAP,  \* initial capacity of the entry array
          ZipNum, ZipDen, \* NNC_ARENA_ZIP_RATE = ZipNum / ZipDen
          AllocBudget,    \* bound: bytes allocated over the whole run
          NULL,           \* the null pointer
          JUNK            \* an array slot never written since realloc

ASSUME CapAssumption  == NNC_ARENA_CAP \in Nat \ {0}
ASSUME RateAssumption == ZipNum \in Nat \ {0} /\ ZipDen \in Nat \ {0}
ASSUME SizeAssumption == Sizes \subseteq Nat /\ AllocBudget \in Nat
ASSUME PtrAssumption  == /\ NULL \notin Ptrs /\ JUNK \notin Ptrs /\ NULL # JUNK
                         /\ IsFiniteSet(Ptrs)

VARIABLES entries,             \* slot -> hptr of the entry, NULL or JUNK
          bytes,               \* hptr -> bytes field of its entry
          len, cap, disposed,  \* the metrics
          alloc_bytes, overall_alloc_bytes,
          heap,                \* malloc'ed and not yet freed blocks
          pending,             \* block of the nnc_alloc under way, or NULL
          zip,                 \* the compaction under way
          phase                \* "open", "closed" (only nnc_check_for_errors
                               \* still runs) or "exited"

metrics == <<len, cap, disposed>>
counters == <<alloc_bytes, overall_alloc_bytes>>
vars == <<entries, bytes, metrics, counters, heap, pending, zip, phase>>

NoZip == [on |-> FALSE, initial |-> 0, addr |-> 0]

-----------------------------------------------------------------------------
(* nnc_arena_init: calloc clears the slots. *)
Init ==
  /\ entries = [i \in 0 .. NNC_ARENA_CAP - 1 |-> NULL]
  /\ bytes = [p \in Ptrs |-> 0]
  /\ len = 0 /\ cap = NNC_ARENA_CAP /\ disposed = 0
  /\ alloc_bytes = 0 /\ overall_alloc_bytes = 0
  /\ heap = {}
  /\ pending = NULL
  /\ zip = NoZip
  /\ phase = "open"

(* nnc_arena_need_zip: disposed != 0 and disposed / cap >= the zip rate. *)
NeedZip ==
  /\ disposed # 0
  /\ disposed * ZipDen >= ZipNum * cap

(* The slots after realloc to n slots: the old ones are kept. *)
Realloc(n) ==
  [i \in 0 .. n - 1 |-> IF i \in DOMAIN entries THEN entries[i] ELSE JUNK]

(* The last three lines of nnc_arena_push, on the array `arr' of n entries. *)
(* The store is not checked against the capacity of the array.              *)
Store(arr, n) ==
  /\ entries' = [i \in DOMAIN arr \cup {n} |->
                   IF i = n THEN pending ELSE arr[i]]
  /\ alloc_bytes' = alloc_bytes + bytes[pending]
  /\ overall_alloc_bytes' = overall_alloc_bytes + bytes[pending]
  /\ len' = n + 1
  /\ pending' = NULL

(* nnc_alloc up to the call of nnc_arena_push: malloc and the new entry.    *)
(* A malloc that fails aborts the compiler: the action Fini("exited").  In  *)
(* a closed arena the one call left is the sformat of nnc_check_for_errors. *)
Malloc(p, size) ==
  /\ pending = NULL /\ ~zip.on
  /\ phase = "open" \/ (phase = "closed" /\ len = 0)
  /\ p \notin heap
  /\ overall_alloc_bytes + size =< AllocBudget
  /\ heap' = heap \cup {p}
  /\ bytes' = [bytes EXCEPT ![p] = size]
  /\ pending' = p
  /\ UNCHANGED <<entries, metrics, counters, zip, phase>>

(* nnc_arena_push when there is room. *)
PushRoom ==
  /\ pending # NULL /\ ~zip.on
  /\ cap # len
  /\ Store(entries, len)
  /\ UNCHANGED <<bytes, cap, disposed, heap, zip, phase>>

(* nnc_arena_push when the array is full and has few holes: nnc_arena_grow. *)
PushGrow ==
  /\ pending # NULL /\ ~zip.on
  /\ cap = len /\ ~NeedZip
  /\ cap' = cap * 2
  /\ Store(Realloc(cap * 2), len)
  /\ UNCHANGED <<bytes, disposed, heap, zip, phase>>

(* Mutant: the metric survives the compaction. *)
ZipStart_KeepsDisposed ==
  /\ pending # NULL /\ ~zip.on
  /\ cap = len /\ NeedZip
  /\ zip' = [on |-> TRUE, initial |-> len, addr |-> 0]
  /\ len' = 0
  /\ UNCHANGED <<entries, bytes, cap, disposed, counters, heap, pending, phase>>

(* nnc_arena_push when the array is full and has many holes: the prologue   *)
(* of nnc_arena_zip.                                                        *)
ZipStart ==
  /\ pending # NULL /\ ~zip.on
  /\ cap = len /\ NeedZip
  /\ zip' = [on |-> TRUE, initial |-> len, addr |-> 0]
  /\ len' = 0 /\ disposed' = 0
  /\ UNCHANGED <<entries, bytes, cap, counters, heap, pending, phase>>

(* Mutant: the slot is cleared although the entry did not move. *)
Moved_AlwaysClears(addr) ==
  [entries EXCEPT ![len] = entries[addr], ![addr] = NULL]

(* What one iteration of the loop of nnc_arena_zip leaves in the array: the *)
(* entry moves down to slot len, and its own slot is cleared unless it did  *)
(* not move.                                                                *)
Moved(addr) ==
  [entries EXCEPT ![len]  = entries[addr],
                  ![addr] = IF len # addr THEN NULL ELSE entries[addr]]

ZipStep ==
  /\ zip.on /\ zip.addr < zip.initial
  /\ zip' = [zip EXCEPT !.addr = @ + 1]
  /\ IF entries[zip.addr] # NULL
     THEN entries' = Moved(zip.addr) /\ len' = len + 1
     ELSE UNCHANGED <<entries, len>>
  /\ UNCHANGED <<bytes, cap, disposed, counters, heap, pending, phase>>

(* nnc_arena_zip returns and nnc_arena_push appends. *)
ZipDone ==
  /\ zip.on /\ zip.addr = zip.initial
  /\ zip' = NoZip
  /\ Store(entries, len)
  /\ UNCHANGED <<bytes, cap, disposed, heap, phase>>

(* The slots nnc_dispose searches for a pointer. *)
SlotsOf(p) == {i \in 0 .. len - 1 : entries[i] = p}

(* Mutants: nnc_arena_flush forgets the slot, or the byte counter. *)
Flush_KeepsSlot(i) ==
  /\ alloc_bytes' = alloc_bytes - bytes[entries[i]]
  /\ UNCHANGED entries
Flush_KeepsBytes(i) ==
  /\ entries' = [entries EXCEPT ![i] = NULL]
  /\ UNCHANGED alloc_bytes

(* nnc_arena_flush: the entry of slot i leaves the array. *)
Flush(i) ==
  /\ alloc_bytes' = alloc_bytes - bytes[entries[i]]
  /\ entries' = [entries EXCEPT ![i] = NULL]

(* Mutant: the metric is decremented. *)
CountHole_Decrements == disposed' = disposed - 1

(* The last statement of nnc_dispose. *)
CountHole == disposed' = disposed + 1

(* nnc_dispose: the first entry of the pointer is flushed and freed.  A     *)
(* pointer the arena does not list leaves everything as it is.              *)
Dispose(p) ==
  /\ pending = NULL /\ ~zip.on /\ phase = "open"
  /\ SlotsOf(p) # {}
  /\ Flush(CHOOSE i \in SlotsOf(p) : \A k \in SlotsOf(p) : i =< k)
  /\ heap' = heap \ {p}
  /\ CountHole
  /\ UNCHANGED <<bytes, len, cap, overall_alloc_bytes, pending, zip, phase>>

(* The bytes recorded for a set of blocks. *)
BytesOf(S) == MapThenSumSet(LAMBDA p : bytes[p], S)

(* Mutant: the sweep stops one slot early. *)
Listed_SkipsLast == {entries[i] : i \in 0 .. len - 2} \ {NULL}

(* The pointers that nnc_arena_fini finds in the array. *)
Listed == {entries[i] : i \in 0 .. len - 1} \ {NULL}

(* nnc_arena_fini.  The end of main and nnc_abort call it and exit;         *)
(* nnc_check_for_errors calls it, formats its message in the closed arena   *)
(* and then aborts, which calls it a second time.                           *)
Fini(to) ==
  /\ pending = NULL /\ ~zip.on
  /\ \/ phase = "open"
     \/ phase = "closed" /\ len # 0 /\ to = "exited"
  /\ alloc_bytes' = alloc_bytes - BytesOf(Listed)
  /\ heap' = heap \ Listed
  /\ entries' = [i \in {} |-> NULL]
  /\ len' = 0 /\ cap' = 0 /\ disposed' = 0
  /\ phase' = to
  /\ UNCHANGED <<bytes, overall_alloc_bytes, pending, zip>>

Next ==
  \/ \E p \in Ptrs, size \in Sizes : Malloc(p, size)
  \/ PushRoom
  \/ PushGrow
  \/ ZipStart
  \/ ZipStep
  \/ ZipDone
  \/ \E p \in Ptrs : Dispose(p)
  \/ \E to \in {"closed", "exited"} : Fini(to)

Spec == Init /\ [][Next]_vars

-----------------------------------------------------------------------------
(* The slots that hold the arena's entries: those below len and, during a   *)
(* compaction, those the loop has not reached.                              *)
LiveSlots ==
  {i \in (0 .. len - 1) \cup (zip.addr .. zip.initial - 1) : entries[i] # NULL}

(* TypeOK: the shape of the arena's state. *)
TypeOK ==
  /\ len \in Nat /\ cap \in Nat /\ disposed \in Nat
  /\ DOMAIN entries \subseteq Nat
  /\ \A i \in DOMAIN entries : entries[i] \in Ptrs \cup {NULL, JUNK}
  /\ bytes \in [Ptrs -> Nat]
  /\ heap \subseteq Ptrs
  /\ pending \in heap \cup {NULL}
  /\ zip \in [on : BOOLEAN, initial : Nat, addr : Nat]
  /\ phase \in {"open", "closed", "exited"}

(* No block is lost: what malloc handed out and free did not get back is    *)
(* listed in the array or about to be, whatever the holes, the compactions  *)
(* and the reallocations in between (nnc_arena_zip, nnc_dispose).           *)
NoLeak ==
  heap = {entries[i] : i \in LiveSlots} \cup ({pending} \ {NULL})

(* No block is listed twice, so that nnc_dispose finds the right entry and  *)
(* nnc_arena_fini frees every block once: the slot an entry moved from is   *)
(* cleared by nnc_arena_zip and no address is reused while it is listed.    *)
ListedOnce ==
  /\ \A i, j \in LiveSlots : entries[i] = entries[j] => i = j
  /\ \A i \in LiveSlots : entries[i] # pending

(* The metric `disposed' counts the holes of the array, which is what       *)
(* nnc_arena_need_zip takes it for when it decides to compact.              *)
HolesCounted ==
  ~zip.on => disposed = Cardinality({i \in 0 .. len - 1 : entries[i] = NULL})

(* nnc_arena_push stores inside the array of an open arena: a compaction    *)
(* always makes room, since need_zip demands a hole, and never reads a slot *)
(* that was not written.                                                    *)
PushInBounds ==
  phase = "open" =>
    /\ DOMAIN entries = 0 .. cap - 1
    /\ len =< cap
    /\ zip.on /\ zip.addr = zip.initial => len < cap
    /\ \A i \in LiveSlots : entries[i] # JUNK

(* alloc_bytes is the sum of the live entries' bytes (nnc_arena_flush,      *)
(* nnc_arena_push); the assertion at the end of nnc_arena_fini depends on it.*)
BytesBalance ==
  /\ alloc_bytes = BytesOf(heap \ {pending})
  /\ alloc_bytes =< overall_alloc_bytes

(* When the process exits every block went back to malloc, the message that *)
(* nnc_check_for_errors formats after the first nnc_arena_fini included.    *)
ExitClean ==
  phase = "exited" => heap = {} /\ pending = NULL

(* How far a compaction got: the slots below len hold entries, and there is *)
(* a hole either behind the loop or still ahead of it.                      *)
ZipProgress ==
  /\ ~zip.on => zip = NoZip
  /\ zip.on =>
       /\ phase = "open" /\ pending # NULL /\ disposed = 0
       /\ len =< zip.addr /\ zip.addr =< zip.initial /\ zip.initial = cap
       /\ \A i \in 0 .. len - 1 : entries[i] # NULL
       /\ \/ len < zip.addr
          \/ \E i \in zip.addr .. zip.initial - 1 : entries[i] = NULL

(* After nnc_arena_fini the array is gone; at most the one message follows. *)
ClosedShape ==
  phase # "open" =>
    /\ disposed = 0 /\ cap = 0 /\ len =< 1
    /\ DOMAIN entries = 0 .. len - 1
    /\ \A i \in 0 .. len - 1 : entries[i] \in Ptrs
    /\ pending # NULL => len = 0

(* An open arena has slots, so that doubling makes room. *)
OpenCap == phase = "open" => cap > 0

(* The inductive invariant behind the theorems of NncArenaProofs: the       *)
(* properties above, the progress of a compaction and the closed arena.     *)
ArenaInv ==
  /\ TypeOK /\ NoLeak /\ ListedOnce /\ HolesCounted /\ PushInBounds
  /\ ExitClean /\ ZipProgress /\ ClosedShape /\ OpenCap
=============================================================================
