---------------------------- MODULE MCMessages ------------------------------
(* Model-checking instance of Messages *)
EXTENDS Messages
CONSTANTS s1, s2, m1, m2, m3

MCFrom == [m \in Messages |-> IF m = m2 THEN s2 ELSE s1]
=============================================================================
