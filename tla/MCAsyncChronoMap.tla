-------------------------- MODULE MCAsyncChronoMap --------------------------
(***************************************************************************)
(* Instances of AsyncChronoMap for TLC.                                    *)
(***************************************************************************)
EXTENDS AsyncChronoMap

CONSTANTS t1, t2, a, b, x, y
=============================================================================
