----------------------------- MODULE BlackBoard -----------------------------
(***************************************************************************)
(* What the BlackBoard promises its clients about opening and closing:     *)
(* for every interface at most one writing instance and any number of      *)
(* reading ones, each belonging to one interface until it is closed.       *)
(***************************************************************************)
EXTENDS Naturals

CONSTANTS Uids, Instances, None

VARIABLES writer, readers

Opened == {i \in Instances : \E u \in Uids : writer[u] = i \/ i \in readers[u]}

Init == /\ writer = [u \in Uids |-> None]
        /\ readers = [u \in Uids |-> {}]

OpenForWriting(u, i) == /\ writer[u] = None /\ i \notin Opened
                        /\ writer' = [writer EXCEPT ![u] = i]
                        /\ UNCHANGED readers

\* new: for every interface that is opened the one new reading instance
OpenForReading(new) ==
  /\ \A u \in Uids : new[u] \cap Opened = {}
  /\ \A u, v \in Uids : u # v => new[u] \cap new[v] = {}
  /\ \A u \in Uids : \A i, j \in new[u] : i = j
  /\ readers' = [u \in Uids |-> readers[u] \cup new[u]]
  /\ UNCHANGED writer

Close(i) ==
  /\ i \in Opened
  /\ writer' = [u \in Uids |-> IF writer[u] = i THEN None ELSE writer[u]]
  /\ readers' = [u \in Uids |-> readers[u] \ {i}]

\* the instances a step adds to the readers of each interface
NewReaders == [u \in Uids |-> readers'[u] \ readers[u]]

Next == \/ \E u \in Uids, i \in Instances : OpenForWriting(u, i)
        \/ OpenForReading(NewReaders)
        \/ \E i \in Instances : Close(i)

Spec == Init /\ [][Next]_<<writer, readers>>
=============================================================================
