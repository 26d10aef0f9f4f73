----------------------------- MODULE MCNotifier -----------------------------
(* Model-checking instances of Notifier.                                   *)
EXTENDS Notifier, TLC

Interchangeable == Permutations(Listeners) \cup Permutations(Threads)
=============================================================================
