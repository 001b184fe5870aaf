----------------------------- MODULE TTLCleanup -----------------------------
(***************************************************************************)
(* chronomap/_ttl_cleanup.py: the background thread that sweeps expired    *)
(* keys, and the program that starts it, stops it and one day drops the    *)
(* map.  What a sweep does to the map is CleanExpiredKeys of ChronoMap;    *)
(* here it ends or raises.  One thread of the program makes the calls.     *)
(* The map is collected when the last reference to it goes, by the thread  *)
(* that had it, which then runs __del__ and with it stop().                *)
(***************************************************************************)
EXTENDS Naturals

CONSTANT Loops    \* the threads that start() may create: a bound

ASSUME TTLCleanupAssumption == Loops # {}

VARIABLES
    thread,       \* self.thread
    stopEvent,    \* self.stop_event is set
    pc,           \* where each thread is in _cleanup_loop
    cm,           \* the threads whose local variable cm is bound to the map
    owned,        \* the program refers to the map
    alive,        \* the map has not been collected
    expired,      \* the map has a key whose time is over
    caller,       \* the program is "free", or "joining" the thread in stop()
    asked,        \* history variable: the last of start() and stop() was start()
    joined,       \* history variable: stop() saw the thread end, no start() since
    gaveUp,       \* history variable: a stop() returned before its thread ended
    failed        \* history variable: the threads whose last sweep raised

calls == <<owned, caller, asked, joined, gaveUp>>

vars == <<calls, thread, stopEvent, pc, cm, alive, expired, failed>>

Live(l) == pc[l] \notin {"unborn", "ended"}

Go(l, where) == pc' = [pc EXCEPT ![l] = where]

(***************************************************************************)
(* ChronoMap.__init__ has started the first thread.                        *)
(***************************************************************************)
Init ==
    /\ thread \in Loops
    /\ pc = [l \in Loops |-> IF l = thread THEN "test" ELSE "unborn"]
    /\ stopEvent = FALSE /\ cm = {} /\ failed = {}
    /\ owned = TRUE /\ alive = TRUE /\ expired = FALSE
    /\ caller = "free" /\ asked = TRUE /\ joined = FALSE /\ gaveUp = FALSE

-----------------------------------------------------------------------------

(***************************************************************************)
(* start(): a thread that is alive is left alone, whatever it is about to  *)
(* do.                                                                     *)
(***************************************************************************)
Spawn(event) ==
    \E l \in Loops : /\ pc[l] = "unborn"
                     /\ Go(l, "test")
                     /\ thread' = l
                     /\ stopEvent' = event

AskToStart ==
    /\ caller = "free" /\ owned
    /\ asked' = TRUE /\ joined' = FALSE
    /\ UNCHANGED <<owned, caller, gaveUp, cm, alive, expired, failed>>

StartWithoutClear ==   \* mutant: the stop event stays set
    /\ AskToStart
    /\ IF Live(thread) THEN UNCHANGED <<thread, stopEvent, pc>> ELSE Spawn(stopEvent)

StartUnlessRunning ==   \* mutant: the event tells whether a thread runs
    /\ AskToStart
    /\ IF ~stopEvent THEN UNCHANGED <<thread, stopEvent, pc>> ELSE Spawn(FALSE)

Start ==
    /\ AskToStart
    /\ IF Live(thread) THEN UNCHANGED <<thread, stopEvent, pc>> ELSE Spawn(FALSE)

(***************************************************************************)
(* stop(): sets the event and waits for the thread, for two seconds.       *)
(***************************************************************************)
StopUnwaiting ==   \* mutant: the thread is not joined
    /\ caller = "free" /\ owned
    /\ asked' = FALSE /\ joined' = TRUE
    /\ stopEvent' = TRUE
    /\ UNCHANGED <<owned, caller, gaveUp, thread, pc, cm, alive, expired, failed>>

Stop ==
    /\ caller = "free" /\ owned
    /\ asked' = FALSE
    /\ caller' = "joining"
    /\ stopEvent' = TRUE
    /\ UNCHANGED <<owned, joined, gaveUp, thread, pc, cm, alive, expired, failed>>

Join ==
    /\ caller = "joining"
    /\ caller' = "free"
    /\ joined' = ~Live(thread)
    /\ gaveUp' = (gaveUp \/ Live(thread))
    /\ UNCHANGED <<owned, asked, thread, stopEvent, pc, cm, alive, expired, failed>>

(***************************************************************************)
(* The program drops its reference.  If it is the last the map goes, and   *)
(* __del__ stops the thread.                                               *)
(***************************************************************************)
Drop ==
    /\ caller = "free" /\ owned
    /\ owned' = FALSE
    /\ IF cm = {} THEN alive' = FALSE /\ stopEvent' = TRUE /\ caller' = "joining"
       ELSE UNCHANGED <<alive, stopEvent, caller>>
    /\ UNCHANGED <<asked, joined, gaveUp, thread, pc, cm, expired, failed>>

Expire ==
    /\ owned /\ expired' = TRUE
    /\ UNCHANGED <<calls, thread, stopEvent, pc, cm, alive, failed>>

-----------------------------------------------------------------------------

(***************************************************************************)
(* Thread l lets go of the map and goes on to a label.  If it was the last *)
(* to hold it, __del__ runs here: stop() sets the event, and does not join *)
(* the thread that it runs on.                                             *)
(***************************************************************************)
LetGo(l, where) ==
    /\ Go(l, where)
    /\ cm' = cm \ {l}
    /\ IF alive /\ ~owned /\ cm' = {} THEN alive' = FALSE /\ stopEvent' = TRUE
       ELSE UNCHANGED <<alive, stopEvent>>
    /\ UNCHANGED <<calls, thread, expired, failed>>

TestEvent(l) ==
    /\ pc[l] = "test"
    /\ IF stopEvent THEN LetGo(l, "ended")
       ELSE Go(l, "deref") /\ UNCHANGED <<calls, thread, stopEvent, cm, alive, expired, failed>>

Deref(l) ==
    /\ pc[l] = "deref"
    /\ IF alive THEN Go(l, "sweep") /\ cm' = cm \cup {l}
       ELSE Go(l, "ended") /\ UNCHANGED cm
    /\ UNCHANGED <<calls, thread, stopEvent, alive, expired, failed>>

Sweep(l) ==
    /\ pc[l] = "sweep"
    /\ Go(l, "swept")
    /\ expired' = FALSE
    /\ failed' = failed \ {l}
    /\ UNCHANGED <<calls, thread, stopEvent, cm, alive>>

(***************************************************************************)
(* clean_expired_keys() raises: `del cm` is skipped.                       *)
(***************************************************************************)
SweepRaises(l) ==
    /\ pc[l] = "sweep"
    /\ Go(l, "wait")
    /\ failed' = failed \cup {l}
    /\ UNCHANGED <<calls, thread, stopEvent, cm, alive, expired>>

KeepMap(l) ==   \* mutant: no `del cm`
    /\ pc[l] = "swept"
    /\ Go(l, "wait")
    /\ UNCHANGED <<calls, thread, stopEvent, cm, alive, expired, failed>>

DelMap(l) == pc[l] = "swept" /\ LetGo(l, "wait")

(***************************************************************************)
(* stop_event.wait(interval) returns when the event is set or the interval *)
(* is over.                                                                *)
(***************************************************************************)
Wake(l) ==
    /\ pc[l] = "wait"
    /\ Go(l, "test")
    /\ UNCHANGED <<calls, thread, stopEvent, cm, alive, expired, failed>>

Loop(l) == TestEvent(l) \/ Deref(l) \/ Sweep(l) \/ SweepRaises(l) \/ DelMap(l) \/ Wake(l)

Next ==
    \/ Start \/ Stop \/ Join \/ Drop \/ Expire
    \/ \E l \in Loops : Loop(l)

(***************************************************************************)
(* A thread that can run does, and sweeps do not raise for ever.  Nothing  *)
(* is assumed of the program.                                              *)
(***************************************************************************)
Spec ==
    /\ Init /\ [][Next]_vars
    /\ \A l \in Loops : WF_vars(Loop(l)) /\ SF_vars(Sweep(l))

-----------------------------------------------------------------------------

(***************************************************************************)
(* At most one thread runs, the one that stop() would join; a map that     *)
(* somebody can reach has not been collected.                              *)
(***************************************************************************)
TypeOK ==
    /\ thread \in Loops /\ cm \subseteq Loops /\ failed \subseteq Loops
    /\ pc \in [Loops -> {"unborn", "test", "deref", "sweep", "swept", "wait", "ended"}]
    /\ \A l \in Loops : Live(l) => l = thread
    /\ alive <=> owned \/ cm # {}

(***************************************************************************)
(* "Holds a weakref to the owning ChronoMap so it never keeps the map      *)
(* alive": while a thread waits for its interval to pass it holds no       *)
(* reference, unless its last sweep raised.                                *)
(***************************************************************************)
HoldsOnlyAfterFailure == \A l \in cm : pc[l] = "wait" => l \in failed

(***************************************************************************)
(* After a stop() that saw the thread end nothing is swept any more until  *)
(* start() is called.                                                      *)
(***************************************************************************)
StoppedMeansQuiet == joined => \A l \in Loops : ~Live(l)

(***************************************************************************)
(* The thread does not outlive the map, nor the map the program's interest *)
(* in it, even when a sweep raised or the thread itself runs __del__.      *)
(***************************************************************************)
DroppedMapIsCollected == ~owned ~> ~alive /\ \A l \in Loops : ~Live(l)

(***************************************************************************)
(* Expired keys are swept as long as the program wants it, through any     *)
(* number of stops and starts; unless a stop() gave up waiting: a start()  *)
(* that finds the old thread alive then leaves the event set.              *)
(***************************************************************************)
SweepsAsAsked == expired /\ asked ~> ~expired \/ ~asked \/ ~owned \/ gaveUp
=============================================================================
