------------------------- MODULE ReadWriteExclusion -------------------------
(***************************************************************************)
(* What the readers-writer lock promises its callers and nothing of how it *)
(* keeps the promise: any number of concurrent readers, or one writer.     *)
(* hold[t] is the stack of modes that thread t holds, the innermost last;  *)
(* a critical section is entered by pushing a mode and left by popping it. *)
(***************************************************************************)
EXTENDS Integers, Sequences

CONSTANT Threads

VARIABLE hold

Mode == {"R", "W"}

Holds(t, m) == \E i \in DOMAIN hold[t] : hold[t][i] = m

Pop(s) == SubSeq(s, 1, Len(s) - 1)

Init == hold = [t \in Threads |-> << >>]

(***************************************************************************)
(* A reader is admitted while no other thread is a writer.                 *)
(***************************************************************************)
AdmitReader(t) ==
    /\ \A u \in Threads \ {t} : ~Holds(u, "W")
    /\ hold' = [hold EXCEPT ![t] = Append(@, "R")]

(***************************************************************************)
(* A writer is admitted while nobody else holds the lock and it does not   *)
(* itself hold it for reading: there is no upgrade.                        *)
(***************************************************************************)
AdmitWriter(t) ==
    /\ \A u \in Threads \ {t} : hold[u] = << >>
    /\ ~Holds(t, "R")
    /\ hold' = [hold EXCEPT ![t] = Append(@, "W")]

Leave(t) ==
    /\ hold[t] # << >>
    /\ hold' = [hold EXCEPT ![t] = Pop(@)]

Next == \E t \in Threads : AdmitReader(t) \/ AdmitWriter(t) \/ Leave(t)

Spec == Init /\ [][Next]_hold

(***************************************************************************)
(* "Allows either multiple concurrent readers or one exclusive writer."    *)
(***************************************************************************)
MutualExclusion ==
    \A t \in Threads : Holds(t, "W") => \A u \in Threads \ {t} : hold[u] = << >>
=============================================================================
