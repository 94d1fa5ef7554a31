------------------------------ MODULE MCNncGen ------------------------------
(* Fewer registers than the machine has, in the order of the source: rcx is *)
(* both an argument register and the last one a temporary may get, and four *)
(* temporaries and a call in progress make the allocator spill, up to       *)
(* operators whose operands are all on the stack.                           *)
EXTENDS NncGen

MCCgts == 1 .. 4
MCGlobRegs == <<"rax", "rbx", "rcx", "rdx", "r15">>
MCIntPLocal == <<"rax", "rbx", "r15", "rcx">>
MCIntPParam == <<"rdx", "rcx">>
=============================================================================
