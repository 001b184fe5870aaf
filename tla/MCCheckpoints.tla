--------------------------- MODULE MCCheckpoints ----------------------------
(***************************************************************************)
(* Instances of Checkpoints for TLC: a batch of two keys, a write to a key *)
(* with the text of one of them, and a write that cannot be serialized.    *)
(***************************************************************************)
EXTENDS Checkpoints, TLC

CONSTANTS t1, t2, number, text, other, w1, w2, w3, w4

Written(k, w) == [key |-> k, val |-> w]

TextOf == [k \in {number, text, other} |-> IF k = number THEN text ELSE k]

Three == {{Written(number, w1), Written(other, w2)}, {Written(text, w3)}, {Written(other, w4)}}

Symmetric == Permutations(Threads)

\* bound: snapshots are taken and saves are made, but not both
CopiesOfOneKind == (saving = None /\ file.state = "absent") \/ Snapshots = {}

Lambdas == {Written(other, w4)}
=============================================================================
