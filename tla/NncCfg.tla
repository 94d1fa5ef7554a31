------------------------------- MODULE NncCfg -------------------------------
(***************************************************************************)
(* The control flow graph (src/src/nnc_3a_cfg.c).  Its only caller,        *)
(* nnc_fn_stmt_to_3a, is disabled at this commit (src/src/nnc_3a.c:728).   *)
(* What is left out: nnc_3a_cfg_node_free disposes of a block that is an   *)
(* element of the array nnc_3a_get_blocks made (nnc_3a_cfg.c:92, 218); the *)
(* memory of the graph is not modelled, only what it says of the code.     *)
(***************************************************************************)
EXTENDS NncQuad

(* nnc_3a_jump_op *)
JumpOp(op) == op \in Jumps \cup {"retf", "retp"}

(* nnc_3a_get_blocks: a label starts a block unless the current one is      *)
(* empty, and a jump ends one.  A block is the sequence of its quads.       *)
GetBlocks_JumpGoesOn(q) ==
  LET Put(acc, quad) ==
        IF quad.label # 0 THEN Append(acc, <<quad>>)
        ELSE [acc EXCEPT ![Len(acc)] = Append(@, quad)]
  IN SelectSeq(FoldLeft(Put, <<<<>>>>, q), LAMBDA b : b # <<>>)
GetBlocks(q) ==
  LET Put(acc, quad) ==
        LET cur == Last(acc)
            in  == IF quad.label # 0 /\ cur # <<>> THEN Append(acc, <<quad>>)
                   ELSE [acc EXCEPT ![Len(acc)] = Append(cur, quad)]
        IN IF JumpOp(quad.op) THEN Append(in, <<>>) ELSE in
  IN SelectSeq(FoldLeft(Put, <<<<>>>>, q), LAMBDA b : b # <<>>)

(* nnc_3a_init_node_map *)
NodeOf(blocks, l) ==
  CHOOSE n \in DOMAIN blocks : \E j \in DOMAIN blocks[n] : blocks[n][j].label = l

(* nnc_3a_cfg_rebuild: where a block leads by "next" and by "jump". *)
Successors(blocks, n) ==
  LET last == Last(blocks[n])
  IN (IF last.op \in Jumps THEN {NodeOf(blocks, last.res.v)} ELSE {})
     \cup (IF last.op \in {"retf", "retp", "ujump"} THEN {} ELSE {n + 1} \cap DOMAIN blocks)

(* nnc_3a_cfg_traverse_node: the blocks reached from a set of blocks. *)
RECURSIVE Traverse(_, _)
Traverse(blocks, reached) ==
  LET more == UNION {Successors(blocks, n) : n \in reached}
  IN IF more \subseteq reached THEN reached ELSE Traverse(blocks, reached \cup more)

(* nnc_3a_get_cfg and nnc_3a_cfg_optimize: the positions of the quads in    *)
(* the blocks that are kept.                                                *)
Kept(q) ==
  LET blocks == GetBlocks(q)
      reached == Traverse(blocks, {1} \cap DOMAIN blocks)
      Before(n) == FoldLeft(LAMBDA k, b : k + Len(b), 0, SubSeq(blocks, 1, n - 1))
  IN UNION {Before(n) + 1 .. Before(n) + Len(blocks[n]) : n \in reached}
=============================================================================
