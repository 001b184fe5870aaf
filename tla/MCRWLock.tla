------------------------------ MODULE MCRWLock ------------------------------
(***************************************************************************)
(* Instances of RWLock for TLC: the nestings ChronoMap's callers build.    *)
(***************************************************************************)
EXTENDS RWLock, TLC

Flat == {<< >>, <<"R">>, <<"W">>}

\* put() calls its change callbacks inside the write lock; one of them calls put()
WriteInWrite == Flat \cup {<<"W", "W">>}

\* diff() and diff_detailed() call get() inside the read lock
ReadInRead == Flat \cup {<<"R", "R">>}

\* a change callback or a default_factory calls get()
ReadInWrite == Flat \cup {<<"W", "R">>}
=============================================================================
