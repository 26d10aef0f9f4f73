-------------------------- MODULE MCMemoryManager ---------------------------
(* Model-checking instance of MemoryManager.                               *)
EXTENDS MemoryManager
=============================================================================
