---------------------------- MODULE MCKeyHistory ----------------------------
(***************************************************************************)
(* Instances of KeyHistory for TLC: histories that interleave with, tie    *)
(* with and outgrow the versions already there.                            *)
(***************************************************************************)
EXTENDS KeyHistory

MergedHistories == {<<1, 2>>, <<2, 2, 3>>}

OverwritingHistories == {<<2, 2>>, <<1, 1, 2, 3>>}

\* keep_last=0 keeps everything, a negative keep_last drops the oldest
AnyKeep == {-1, 0, 2}
=============================================================================
