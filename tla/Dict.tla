-------------------------------- MODULE Dict --------------------------------
(***************************************************************************)
(* Python dicts as functions on the set of their keys.  (f @@ g and k :> v *)
(* of module TLC say the same as Updated(g, f) and Single(k, v), but only  *)
(* to TLC: the prover cannot expand them.)                                 *)
(***************************************************************************)
EXTENDS Functions

EmptyDict == [k \in {} |-> {}]

Single(k, v) == [j \in {k} |-> v]

Updated(d, e) == [k \in DOMAIN d \cup DOMAIN e |-> IF k \in DOMAIN e THEN e[k] ELSE d[k]]

Without(d, S) == Restrict(d, DOMAIN d \ S)
=============================================================================
