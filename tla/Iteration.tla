----------------------------- MODULE Iteration ------------------------------
(***************************************************************************)
(* Loops over a list.  FoldLeft and SelectSeq say the same as Iterated and *)
(* Only; these are defined along the indices, which is what a proof about  *)
(* a loop needs.                                                           *)
(***************************************************************************)
LOCAL INSTANCE Naturals
LOCAL INSTANCE Sequences

\* the loop: from b on, op with each element of q in turn
Iterated(op(_, _), b, q) ==
  LET f[i \in 0..Len(q)] == IF i = 0 THEN b ELSE op(f[i - 1], q[i]) IN f[Len(q)]

\* the elements of q that are in T, in their order
Only(q, T) == Iterated(LAMBDA r, e : IF e \in T THEN Append(r, e) ELSE r, <<>>, q)
=============================================================================
