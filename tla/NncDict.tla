------------------------------- MODULE NncDict -------------------------------
(***************************************************************************)
(* What nnc_map gives its users: a finite partial function from keys to    *)
(* values, with one reservation.  The put of a key that is not there adds  *)
(* it and changes nothing else; the put of a key that is there sets it and *)
(* may lose other keys (nnc_map.c:219 ends the chain at the rewritten      *)
(* entry), though it changes the value of none it keeps.  `ret' is what    *)
(* the last call returned.                                                 *)
(***************************************************************************)
CONSTANTS Keys, Vals,
          Nothing  \* what a call without a result returns

VARIABLES dict, ret

Init == dict = [k \in {} |-> Nothing] /\ ret = Nothing

(* dict after a put of k that loses the keys of lost. *)
Set(k, v, lost) ==
  [j \in (DOMAIN dict \ lost) \cup {k} |-> IF j = k THEN v ELSE dict[j]]

Put(k, v) ==
  /\ \E lost \in SUBSET DOMAIN dict :
       /\ k \notin DOMAIN dict => lost = {}
       /\ dict' = Set(k, v, lost)
  /\ ret' = Nothing

Pop(k) ==
  /\ dict' = [j \in DOMAIN dict \ {k} |-> dict[j]]
  /\ ret' = Nothing

Has(k) ==
  /\ ret' = IF k \in DOMAIN dict THEN "true" ELSE "false"
  /\ UNCHANGED dict

Get(k) == k \in DOMAIN dict /\ ret' = dict[k] /\ UNCHANGED dict

Fini == dict' = [k \in {} |-> Nothing] /\ ret' = Nothing

Next ==
  \/ \E k \in Keys : Pop(k) \/ Has(k) \/ Get(k)
  \/ \E k \in Keys, v \in Vals : Put(k, v)
  \/ Fini

Spec == Init /\ [][Next]_<<dict, ret>>
==============================================================================
