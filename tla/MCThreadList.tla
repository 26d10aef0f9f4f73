---------------------------- MODULE MCThreadList ----------------------------
(* Model-checking instance of ThreadList *)
EXTENDS ThreadList
=============================================================================
