---------------------------- MODULE MCObservers -----------------------------
(* Model-checking instances of Observers.                                  *)
EXTENDS Observers, TLC
CONSTANTS o1, o2

\* the first observer is interested in both events, the second in one
WatchedBoth == [o \in Observers |-> IF o = o1 THEN Kinds ELSE {"created"}]

Interchangeable == Permutations(Threads)
=============================================================================
