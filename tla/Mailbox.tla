------------------------------ MODULE Mailbox -------------------------------
(***************************************************************************)
(* What the sender of a message and the owner of a writing instance rely   *)
(* on: every message is posted at most once, to one box, and stays there   *)
(* in order until the owner takes it out or clears the box.                *)
(***************************************************************************)
EXTENDS SequencesExt

CONSTANTS Instances, Messages

VARIABLES box, posted

Init == /\ box = [i \in Instances |-> <<>>]
        /\ posted = {}

Post(i, m) ==
  /\ m \notin posted
  /\ posted' = posted \cup {m}
  /\ box' = [box EXCEPT ![i] = Append(@, m)]

Take(i, k) ==
  /\ box' = [box EXCEPT ![i] = RemoveAt(@, k)]
  /\ UNCHANGED posted

Clear(i) ==
  /\ box' = [box EXCEPT ![i] = <<>>]
  /\ UNCHANGED posted

Next == \E i \in Instances : \/ Clear(i)
                             \/ \E m \in Messages : Post(i, m)
                             \/ \E k \in 1..Len(box[i]) : Take(i, k)

Spec == Init /\ [][Next]_<<box, posted>>
=============================================================================
