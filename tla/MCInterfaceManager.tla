------------------------- MODULE MCInterfaceManager -------------------------
(* Model-checking instances of InterfaceManager.                           *)
EXTENDS InterfaceManager, TLC

\* Threads and addresses are interchangeable, and so are the uids of sound libraries.
Alike == Permutations(Threads) \cup Permutations(Instances) \cup Permutations(Ptrs)
         \cup Permutations(Locks) \cup Permutations(Uids \ (HashMayDiffer \cup UnknownTypes))
=============================================================================
