------------------------------ MODULE MCNncMap ------------------------------
(***************************************************************************)
(* NncMap for TLC: four keys under hash functions that make all of them    *)
(* collide, none of them, and some of them at one capacity but not at the  *)
(* next (0, 1 and 2 share a bucket of two; 0 and 3 one of three).           *)
(***************************************************************************)
EXTENDS NncMap

AllCollide  == [k \in Keys |-> 0]
Spread      == [k \in Keys |-> k]
CapChanging == [k \in Keys |-> IF k = 3 THEN 3 ELSE 2 * k]

MCHashes == {AllCollide, Spread, CapChanging}
=============================================================================
