----------------------- MODULE InterfaceManagerProofs -----------------------
(***************************************************************************)
(* Until the BlackBoard runs out of memory, opening and closing keep a     *)
(* single writer per interface and never free memory under an instance,    *)
(* for any number of threads, interfaces, instances and chunks.  What the  *)
(* manager writes down about chunks, locks, writers and owners agrees with *)
(* the instances that exist, and the manager implements the registry of    *)
(* module BlackBoard.                                                      *)
(***************************************************************************)
EXTENDS InterfaceManager, FiniteSetTheorems, WellFoundedInduction, TLAPS

USE ConstantsAssumption

-----------------------------------------------------------------------------
\* Assigning a counter or the flag of a header gives a header.
LEMMA SetField ==
  ASSUME NEW h \in Header, NEW n \in Int, NEW b \in {0, 1}
  PROVE  /\ [h EXCEPT !.refcount = n] \in Header
         /\ [h EXCEPT !.readers = n] \in Header
         /\ [h EXCEPT !.writer = b] \in Header
<1>1. [h EXCEPT !.refcount = n] \in Header
  BY DEF Header
<1>2. [h EXCEPT !.readers = n] \in Header
  BY DEF Header
<1>3. [h EXCEPT !.writer = b] \in Header
  BY DEF Header
<1> QED
  BY <1>1, <1>2, <1>3

\* What the four counting operations do to a header.
LEMMA HeaderOps ==
  ASSUME NEW h \in Header
  PROVE  /\ AddReader(h) \in Header /\ AddWriter(h) \in Header
         /\ DropReader(h) \in Header /\ DropWriter(h) \in Header
         /\ \A g \in {AddReader(h), AddWriter(h), DropReader(h), DropWriter(h)} :
              g.uid = h.uid /\ g.serial = h.serial
         /\ AddReader(h).refcount = h.refcount + 1 /\ AddWriter(h).refcount = h.refcount + 1
         /\ DropReader(h).refcount = h.refcount - 1 /\ DropWriter(h).refcount = h.refcount - 1
         /\ AddReader(h).writer = h.writer /\ DropReader(h).writer = h.writer
         /\ AddWriter(h).writer = 1
<1>0. /\ h.refcount + 1 \in Int /\ h.refcount - 1 \in Int
      /\ h.readers + 1 \in Int /\ h.readers - 1 \in Int
  BY DEF Header
<1>1. /\ AddReader(h) \in Header
      /\ AddReader(h).uid = h.uid /\ AddReader(h).serial = h.serial
      /\ AddReader(h).refcount = h.refcount + 1 /\ AddReader(h).writer = h.writer
  <2>1. [h EXCEPT !.readers = h.readers + 1] \in Header
    BY <1>0, SetField
  <2>2. AddReader(h) \in Header
    BY <1>0, <2>1, SetField DEF AddReader
  <2> QED
    BY <2>2 DEF AddReader, Header
<1>2. /\ AddWriter(h) \in Header
      /\ AddWriter(h).uid = h.uid /\ AddWriter(h).serial = h.serial
      /\ AddWriter(h).refcount = h.refcount + 1 /\ AddWriter(h).writer = 1
  <2>1. [h EXCEPT !.writer = 1] \in Header
    BY <1>0, SetField
  <2>2. AddWriter(h) \in Header
    BY <1>0, <2>1, SetField DEF AddWriter
  <2> QED
    BY <2>2 DEF AddWriter, Header
<1>3. /\ DropReader(h) \in Header
      /\ DropReader(h).uid = h.uid /\ DropReader(h).serial = h.serial
      /\ DropReader(h).refcount = h.refcount - 1 /\ DropReader(h).writer = h.writer
  <2>1. [h EXCEPT !.readers = h.readers - 1] \in Header
    BY <1>0, SetField
  <2>2. DropReader(h) \in Header
    BY <1>0, <2>1, SetField DEF DropReader
  <2> QED
    BY <2>2 DEF DropReader, Header
<1>4. /\ DropWriter(h) \in Header
      /\ DropWriter(h).uid = h.uid /\ DropWriter(h).serial = h.serial
      /\ DropWriter(h).refcount = h.refcount - 1
  <2>1. [h EXCEPT !.writer = 0] \in Header
    BY <1>0, SetField
  <2>2. DropWriter(h) \in Header
    BY <1>0, <2>1, SetField DEF DropWriter
  <2> QED
    BY <2>2 DEF DropWriter, Header
<1> QED
  BY <1>1, <1>2, <1>3, <1>4

\* Counting up at any address keeps a family of counters.
LEMMA CountersStay ==
  ASSUME NEW S, NEW f \in [S -> Int], NEW x
  PROVE  [f EXCEPT ![x] = f[x] + 1] \in [S -> Int]
<1>1. CASE x \in S
  BY <1>1
<1>2. CASE x \notin S
  BY <1>2
<1> QED
  BY <1>1, <1>2

\* Deleting an instance gives its address back and drops one lock reference.
LEMMA DestroyTypes ==
  ASSUME TypeOK, NEW i \in Instances, Destroy(i)
  PROVE  /\ st' \in [Instances -> InstState] /\ inst' \in [Instances -> Fields]
         /\ lockref' \in [Locks -> Int]
<1>1. NoFields \in Fields
  BY DEF NoFields, Fields, Mode
<1>2. st' \in [Instances -> InstState]
  BY DEF Destroy, TypeOK, InstState
<1>3. inst' \in [Instances -> Fields]
  BY <1>1 DEF Destroy, TypeOK
<1>4. \A l \in Locks : lockref[l] \in Int
  BY DEF TypeOK
<1>5. lockref' \in [Locks -> Int]
  BY <1>4 DEF Destroy
<1> QED
  BY <1>2, <1>3, <1>5

\* The steps of open*() and list*() preserve the types of the variables and of
\* the arguments that threads work on.
LEMMA OpenTypes ==
  ASSUME TypeOK, CallsTyped, NEW t \in Threads, OpenStep(t) \/ List(t) \/ ListDone(t)
  PROVE  TypeOK' /\ CallsTyped'
<1> USE DEF TypeOK, CallsTyped, Goto, Return, UnlockBoth, Unused, Fields, Mode, InstState,
            Pc, NoCall, NoFields, locks, memory, owners, Found, Allocated
<1>1. ASSUME NEW u \in Uids, NEW m \in Mode, Open(t, u, m)
      PROVE  TypeOK' /\ CallsTyped'
  BY <1>1 DEF Open
<1>2. CASE OpenLockMemory(t)
  BY <1>2 DEF OpenLockMemory
<1>3. CASE OpenRefused(t)
  BY <1>3 DEF OpenRefused
<1>4. ASSUME NEW i \in Unused, OpenMismatch(t, i)
      PROVE  TypeOK' /\ CallsTyped'
  BY <1>4 DEF OpenMismatch
<1>5. ASSUME NEW i \in Unused, NEW p \in Ptrs, OpenExisting(t, i, p)
      PROVE  TypeOK' /\ CallsTyped'
  <2> DEFINE h == chunk[p]
  <2>1. h \in Header
    BY <1>5 DEF OpenExisting
  <2>2. call[t].uid \in Uids /\ call[t].mode \in Mode /\ h.serial \in Serials
    BY <1>5, <2>1 DEF OpenExisting, Header
  <2>3. lockref' \in [Locks -> Int]
    <3>1. lockref' = [lockref EXCEPT ![rwlocks[h.serial]] = lockref[rwlocks[h.serial]] + 1]
      BY <1>5 DEF OpenExisting
    <3> QED
      BY <3>1, CountersStay
  <2>4. inst' \in [Instances -> Fields]
    <3>1. rwlocks[h.serial] \in Locks \cup {None}
      BY <2>2
    <3>2. [uid |-> call[t].uid, mode |-> call[t].mode, ptr |-> p,
           serial |-> h.serial, lock |-> rwlocks[h.serial]] \in Fields
      BY <2>2, <3>1
    <3> QED
      BY <1>5, <3>2 DEF OpenExisting
  <2>5. iface' \in [Threads -> Instances \cup {None}] /\ pc' \in [Threads -> Pc]
        /\ st' \in [Instances -> InstState]
    BY <1>5 DEF OpenExisting
  <2>6. CallsTyped'
    BY <1>5, <2>5 DEF OpenExisting
  <2> QED
    BY <1>5, <2>3, <2>4, <2>5, <2>6 DEF OpenExisting
<1>6. ASSUME NEW i \in Unused, NEW p \in Ptrs, NEW l \in Locks, OpenCreate(t, i, p, l)
      PROVE  TypeOK' /\ CallsTyped'
  BY <1>6 DEF OpenCreate, Header
<1>7. ASSUME NEW i \in Unused, OpenOutOfMemory(t, i)
      PROVE  TypeOK' /\ CallsTyped'
  BY <1>7 DEF OpenOutOfMemory
<1>8. CASE OpenCommit(t)
  <2> DEFINE i == iface[t]
             p == inst[i].ptr
  <2>1. i \in Instances /\ call[t].uid \in Uids
    BY <1>8 DEF OpenCommit
  <2>2. chunk' \in [Ptrs -> Header \cup {None}]
    <3>0. p \in Ptrs => AddWriter(chunk[p]) \in Header /\ AddReader(chunk[p]) \in Header
      BY <1>8, HeaderOps DEF OpenCommit
    <3>1. CASE call[t].mode = "write"
      BY <1>8, <3>0, <3>1 DEF OpenCommit
    <3>2. CASE call[t].mode # "write"
      BY <1>8, <3>0, <3>2 DEF OpenCommit
    <3> QED
      BY <3>1, <3>2
  <2>3. owner_writer' \in [Uids -> Instances \cup {None}]
        /\ owner_readers' \in [Uids -> SUBSET Instances]
        /\ writer_interfaces' \in [Serials -> Instances \cup {None}]
    <3>1. CASE call[t].mode = "write"
      BY <1>8, <2>1, <3>1 DEF OpenCommit
    <3>2. CASE call[t].mode # "write"
      BY <1>8, <2>1, <3>2 DEF OpenCommit
    <3> QED
      BY <3>1, <3>2
  <2>4. st' \in [Instances -> InstState] /\ pc' \in [Threads -> Pc]
        /\ call' \in [Threads -> [uid : Uids \cup {None}, mode : Mode]]
        /\ iface' \in [Threads -> Instances \cup {None}]
    BY <1>8 DEF OpenCommit
  <2>5. CallsTyped'
    BY <1>8, <2>4 DEF OpenCommit
  <2> QED
    BY <1>8, <2>2, <2>3, <2>4, <2>5 DEF OpenCommit
<1>9. CASE OpenFail(t)
  <2>1. st' \in [Instances -> InstState] /\ inst' \in [Instances -> Fields]
        /\ lockref' \in [Locks -> Int]
    <3>1. CASE iface[t] # None
      BY <1>9, <3>1, DestroyTypes DEF OpenFail
    <3>2. CASE iface[t] = None
      BY <1>9, <3>2 DEF OpenFail
    <3> QED
      BY <3>1, <3>2
  <2>2. pc' \in [Threads -> Pc] /\ iface' \in [Threads -> Instances \cup {None}]
        /\ call' \in [Threads -> [uid : Uids \cup {None}, mode : Mode]]
    BY <1>9 DEF OpenFail
  <2>3. CallsTyped'
    BY <1>9, <2>2 DEF OpenFail
  <2> QED
    BY <1>9, <2>1, <2>2, <2>3 DEF OpenFail
<1>10. CASE List(t)
  BY <1>10 DEF List
<1>11. CASE ListDone(t)
  BY <1>11 DEF ListDone
<1> QED
  BY <1>1, <1>2, <1>3, <1>4, <1>5, <1>6, <1>7, <1>8, <1>9, <1>10, <1>11 DEF OpenStep

\* The same for open_multiple_for_reading() and close().
LEMMA CloseTypes ==
  ASSUME TypeOK, CallsTyped, NEW t \in Threads, MultipleStep(t) \/ CloseStep(t)
  PROVE  TypeOK' /\ CallsTyped'
<1> USE DEF TypeOK, CallsTyped, Goto, Return, Unused, Fields, Mode, InstState,
            Pc, NoCall, NoFields, locks, memory, owners, Matching, Allocated
<1>1. ASSUME NEW U \in SUBSET Uids, NEW f \in [Matching(U) -> Unused], OpenMultiple(t, U, f)
      PROVE  TypeOK' /\ CallsTyped'
  <2>1. chunk' \in [Ptrs -> Header \cup {None}]
    <3>1. \A p \in Matching(U) : AddReader(chunk[p]) \in Header
      BY HeaderOps
    <3> QED
      BY <1>1, <3>1 DEF OpenMultiple, CountReaders
  <2>2. st' \in [Instances -> InstState]
    BY <1>1 DEF OpenMultiple
  <2>3. inst' \in [Instances -> Fields]
    <3>1. ASSUME NEW i \in Instances, \E p \in Matching(U) : f[p] = i
          PROVE  inst'[i] \in Fields
      <4> DEFINE q == CHOOSE p \in Matching(U) : f[p] = i
      <4>1. q \in Matching(U)
        BY <3>1
      <4>2. chunk[q].uid \in Uids /\ chunk[q].serial \in Serials /\ q \in Ptrs
        BY <4>1 DEF Header
      <4>3. rwlocks[chunk[q].serial] \in Locks \cup {None}
        BY <4>2
      <4>4. inst'[i] = [uid |-> chunk[q].uid, mode |-> "read", ptr |-> q,
                        serial |-> chunk[q].serial, lock |-> rwlocks[chunk[q].serial]]
        BY <1>1, <3>1 DEF OpenMultiple
      <4> HIDE DEF q
      <4> QED
        BY <4>2, <4>3, <4>4
    <3>2. ASSUME NEW i \in Instances, ~ \E p \in Matching(U) : f[p] = i
          PROVE  inst'[i] \in Fields
      <4>1. inst'[i] = inst[i]
        BY <1>1, <3>2 DEF OpenMultiple
      <4> QED
        BY <4>1
    <3>3. inst' = [i \in Instances |-> inst'[i]]
      BY <1>1 DEF OpenMultiple
    <3> QED
      BY <3>1, <3>2, <3>3
  <2>4. lockref' \in [Locks -> Int]
    <3>1. ASSUME NEW l \in Locks
          PROVE  Cardinality({p \in Matching(U) : rwlocks[chunk[p].serial] = l}) \in Nat
      BY FS_Subset, FS_CardinalityType
    <3>2. lockref' = [l \in Locks |->
                        lockref[l] + Cardinality({p \in Matching(U) : rwlocks[chunk[p].serial] = l})]
      BY <1>1, Zenon DEF OpenMultiple
    <3>3. \A l \in Locks : lockref[l] \in Int
      OBVIOUS
    <3> HIDE DEF Matching
    <3> QED
      BY <3>1, <3>2, <3>3
  <2>5. owner_readers' \in [Uids -> SUBSET Instances]
    BY <1>1 DEF OpenMultiple
  <2> QED
    BY <1>1, <2>1, <2>2, <2>3, <2>4, <2>5 DEF OpenMultiple
<1>2. ASSUME NEW U \in SUBSET Uids, NEW P \in SUBSET Ptrs, OpenMultipleMismatch(t, U, P)
      PROVE  TypeOK' /\ CallsTyped'
  <2>1. \A p \in P : AddReader(chunk[p]) \in Header
    BY <1>2, HeaderOps DEF OpenMultipleMismatch
  <2>2. chunk' \in [Ptrs -> Header \cup {None}]
    BY <1>2, <2>1 DEF OpenMultipleMismatch, CountReaders
  <2> QED
    BY <1>2, <2>2 DEF OpenMultipleMismatch
<1>3. ASSUME NEW i \in Instances, Close(t, i)
      PROVE  TypeOK' /\ CallsTyped'
  BY <1>3 DEF Close
<1>4. CASE CloseRelease(t)
  <2> DEFINE p == inst[iface[t]].ptr
  <2>1. chunk' \in [Ptrs -> Header \cup {None}]
    <3>1. CASE chunk[p].refcount - 1 = 0
      BY <1>4, <3>1 DEF CloseRelease
    <3>2. CASE chunk[p].refcount - 1 # 0 /\ p \in Ptrs
      <4>1. DropWriter(chunk[p]) \in Header /\ DropReader(chunk[p]) \in Header
        BY <1>4, <3>2, HeaderOps DEF CloseRelease
      <4>2. \/ chunk' = [chunk EXCEPT ![p] = DropWriter(chunk[p])]
            \/ chunk' = [chunk EXCEPT ![p] = DropReader(chunk[p])]
        BY <1>4, <3>2 DEF CloseRelease
      <4> QED
        BY <3>2, <4>1, <4>2
    <3>3. CASE chunk[p].refcount - 1 # 0 /\ p \notin Ptrs
      BY <1>4, <3>3 DEF CloseRelease
    <3> QED
      BY <3>1, <3>2, <3>3
  <2>2. writer_interfaces' \in [Serials -> Instances \cup {None}]
    BY <1>4 DEF CloseRelease
  <2>3. st' \in [Instances -> InstState] /\ pc' \in [Threads -> Pc]
    BY <1>4 DEF CloseRelease
  <2>4. CallsTyped'
    BY <1>4, <2>3 DEF CloseRelease
  <2> QED
    BY <1>4, <2>1, <2>2, <2>3, <2>4 DEF CloseRelease
<1>5. CASE CloseDelete(t)
  <2>1. st' \in [Instances -> InstState] /\ inst' \in [Instances -> Fields]
        /\ lockref' \in [Locks -> Int]
    BY <1>5, DestroyTypes DEF CloseDelete
  <2>2. owner_writer' \in [Uids -> Instances \cup {None}]
        /\ owner_readers' \in [Uids -> SUBSET Instances]
    <3> DEFINE i == iface[t]
               u == inst[i].uid
    <3>1. CASE is_writer(i)
      <4>1. /\ owner_writer' = [owner_writer EXCEPT ![u] = IF owner_writer[u] = i THEN None ELSE @]
            /\ owner_readers' = owner_readers
        BY <1>5, <3>1 DEF CloseDelete, ForgetOwner
      <4> QED
        BY <4>1
    <3>2. CASE ~is_writer(i)
      <4>1. /\ owner_readers' = [owner_readers EXCEPT ![u] = owner_readers[u] \ {i}]
            /\ owner_writer' = owner_writer
        BY <1>5, <3>2 DEF CloseDelete, ForgetOwner
      <4> QED
        BY <4>1
    <3> QED
      BY <3>1, <3>2
  <2>3. pc' \in [Threads -> Pc] /\ iface' \in [Threads -> Instances \cup {None}]
        /\ call' \in [Threads -> [uid : Uids \cup {None}, mode : Mode]]
    BY <1>5 DEF CloseDelete
  <2>4. CallsTyped'
    BY <1>5, <2>3 DEF CloseDelete
  <2> QED
    BY <1>5, <2>1, <2>2, <2>3, <2>4 DEF CloseDelete
<1> QED
  BY <1>1, <1>2, <1>3, <1>4, <1>5 DEF MultipleStep, CloseStep
-----------------------------------------------------------------------------
\* The part of Consistent about the memory, and the part about the threads.
MemoryPart == MemoryAlive /\ RefcountCovers /\ WritersFlagged /\ ChunksDistinct
ThreadPart == SectionsGuarded /\ StagesMatch /\ DeletesDistinct

\* A step that changes neither headers nor live instances keeps the memory part.
LEMMA MemoryFrame ==
  ASSUME TypeOK, MemoryPart, chunk' = chunk, Live' = Live,
         \A i \in Live : inst'[i] = inst[i]
  PROVE  MemoryPart'
<1>1. Allocated' = Allocated
  BY DEF Allocated
<1>2. \A p : Users(p)' = Users(p)
  BY DEF Users
<1>3. MemoryAlive'
  BY <1>1 DEF MemoryPart, MemoryAlive
<1>4. RefcountCovers'
  BY <1>1, <1>2 DEF MemoryPart, RefcountCovers
<1>5. WritersFlagged'
  BY DEF MemoryPart, WritersFlagged, is_writer
<1>6. ChunksDistinct'
  BY <1>1 DEF MemoryPart, ChunksDistinct
<1> QED
  BY <1>3, <1>4, <1>5, <1>6 DEF MemoryPart

\* The instances of a chunk can be counted.
LEMMA UsersCount ==
  ASSUME NEW p
  PROVE  IsFiniteSet(Users(p)) /\ Cardinality(Users(p)) \in Nat
<1>1. Users(p) \subseteq Instances
  BY DEF Users, Live
<1> QED
  BY <1>1, FS_Subset, FS_CardinalityType

\* create_interface() on a free chunk: no instance used it, no chunk had its uid.
LEMMA CreateMemory ==
  ASSUME TypeOK, CallsTyped, MemoryPart, NEW t \in Threads, NEW i \in Unused,
         NEW p \in Ptrs, NEW l \in Locks, OpenCreate(t, i, p, l)
  PROVE  MemoryPart'
<1>1. Live' = Live /\ i \notin Live
  BY DEF OpenCreate, Live, Unused, TypeOK
<1>2. \A j \in Live : inst'[j] = inst[j]
  BY <1>1 DEF OpenCreate, Live, TypeOK
<1>3. \A q \in Ptrs \ {p} : chunk'[q] = chunk[q]
  BY DEF OpenCreate, TypeOK
<1>4. chunk'[p] = [uid |-> call[t].uid, writer |-> 0, readers |-> 0,
                   refcount |-> 0, serial |-> next_mem_serial]
  BY DEF OpenCreate, TypeOK
<1>5. chunk'[p] \in Header
  BY <1>4 DEF OpenCreate, Header, CallsTyped
<1>6. Allocated' = Allocated \cup {p} /\ p \notin Allocated
  BY <1>3, <1>5 DEF Allocated, OpenCreate
<1>7. \A j \in Live : inst[j].ptr \in Allocated
  BY DEF MemoryPart, MemoryAlive
<1>8. MemoryAlive'
  BY <1>1, <1>2, <1>3, <1>6, <1>7 DEF MemoryPart, MemoryAlive, Allocated
<1>9. RefcountCovers'
  <2>1. \A q : Users(q)' = Users(q)
    BY <1>1, <1>2 DEF Users
  <2>2. Users(p) = {}
    BY <1>6, <1>7 DEF Users
  <2>3. chunk'[p].refcount = 0 /\ Cardinality(Users(p)) = 0
    BY <1>4, <2>2, FS_EmptySet
  <2> QED
    BY <1>3, <1>6, <2>1, <2>3 DEF MemoryPart, RefcountCovers, Allocated
<1>10. WritersFlagged'
  BY <1>1, <1>2, <1>3, <1>6, <1>7 DEF MemoryPart, WritersFlagged, is_writer, Allocated
<1>11. ChunksDistinct'
  <2>1. \A q \in Allocated : chunk[q].uid # call[t].uid
    BY DEF OpenCreate, Found
  <2> QED
    BY <1>3, <1>4, <1>6, <2>1 DEF MemoryPart, ChunksDistinct, Allocated
<1> QED
  BY <1>8, <1>9, <1>10, <1>11 DEF MemoryPart

\* The commit of an open makes one instance live on a chunk, whose header counts it.
LEMMA CommitMemory ==
  ASSUME TypeOK, CallsTyped, MemoryPart, NEW t \in Threads, CommitReady(t), OpenCommit(t)
  PROVE  MemoryPart'
<1>0. PICK i \in Instances, p \in Ptrs : i = iface[t] /\ p = inst[i].ptr
  BY DEF CallsTyped, CommitReady, OpenCommit, Allocated, TypeOK
<1>1. st[i] = "fresh" /\ chunk[p] \in Header
  BY <1>0 DEF CommitReady, Allocated, TypeOK
<1>2. Live' = Live \cup {i} /\ i \notin Live /\ inst' = inst
  BY <1>0, <1>1 DEF OpenCommit, Live, TypeOK
<1>3. \A q \in Ptrs \ {p} : chunk'[q] = chunk[q]
  BY <1>0, <1>1 DEF OpenCommit, TypeOK
<1>4. /\ chunk'[p] \in Header
      /\ chunk'[p].uid = chunk[p].uid /\ chunk'[p].serial = chunk[p].serial
      /\ chunk'[p].refcount = chunk[p].refcount + 1
      /\ chunk[p].writer = 1 \/ call[t].mode = "write" => chunk'[p].writer = 1
  <2>1. CASE call[t].mode = "write"
    <3>1. chunk'[p] = AddWriter(chunk[p])
      BY <1>0, <1>1, <2>1 DEF OpenCommit, TypeOK
    <3> QED
      BY <1>1, <2>1, <3>1, HeaderOps
  <2>2. CASE call[t].mode # "write"
    <3>1. chunk'[p] = AddReader(chunk[p])
      BY <1>0, <1>1, <2>2 DEF OpenCommit, TypeOK
    <3> QED
      BY <1>1, <2>2, <3>1, HeaderOps
  <2> QED
    BY <2>1, <2>2
<1>5. Allocated' = Allocated /\ p \in Allocated
  BY <1>1, <1>3, <1>4 DEF Allocated
<1>6. inst[i].ptr = p /\ inst[i].uid = chunk[p].uid /\ inst[i].serial = chunk[p].serial
      /\ inst[i].mode = call[t].mode /\ ~WriterActive(t, p)
  BY <1>0 DEF CommitReady
<1>7. MemoryAlive'
  BY <1>2, <1>3, <1>4, <1>5, <1>6 DEF MemoryPart, MemoryAlive, Allocated
<1>8. RefcountCovers'
  <2>1. Users(p)' = Users(p) \cup {i} /\ i \notin Users(p)
    BY <1>0, <1>2 DEF Users
  <2>2. Cardinality(Users(p)') = Cardinality(Users(p)) + 1
    BY <2>1, UsersCount, FS_AddElement
  <2>3. \A q : q # p => Users(q)' = Users(q)
    BY <1>0, <1>2 DEF Users
  <2>4. chunk[p].refcount \in Int /\ Cardinality(Users(p)) \in Nat
    BY <1>1, UsersCount DEF Header
  <2>5. chunk'[p].refcount >= Cardinality(Users(p)')
    BY <1>4, <1>5, <2>2, <2>4 DEF MemoryPart, RefcountCovers
  <2> QED
    BY <1>3, <1>5, <2>3, <2>5 DEF MemoryPart, RefcountCovers, Allocated
<1>9. WritersFlagged'
  <2>1. \A j \in Live : is_writer(j) /\ inst[j].ptr = p => call[t].mode # "write"
    BY <1>6 DEF MemoryPart, WritersFlagged, WriterActive
  <2>2. \A j \in Live : inst[j].ptr \in Allocated
    BY DEF MemoryPart, MemoryAlive
  <2>3. \A j \in Live' : is_writer(j) => chunk'[inst[j].ptr].writer = 1
    BY <1>2, <1>3, <1>4, <1>6, <2>2 DEF MemoryPart, WritersFlagged, is_writer, Allocated
  <2>4. \A j, k \in Live' : is_writer(j) /\ is_writer(k) /\ inst[j].ptr = inst[k].ptr => j = k
    BY <1>2, <1>6, <2>1 DEF MemoryPart, WritersFlagged, is_writer
  <2> QED
    BY <1>2, <2>3, <2>4 DEF WritersFlagged, is_writer
<1>10. ChunksDistinct'
  BY <1>3, <1>4, <1>5 DEF MemoryPart, ChunksDistinct, Allocated
<1> QED
  BY <1>7, <1>8, <1>9, <1>10 DEF MemoryPart

\* Counting a reader in some allocated headers keeps what identifies the chunks.
LEMMA CountedHeaders ==
  ASSUME TypeOK, NEW P \in SUBSET Allocated, CountReaders(P)
  PROVE  /\ Allocated' = Allocated
         /\ \A q \in Allocated : /\ chunk[q] \in Header
                                 /\ chunk'[q].uid = chunk[q].uid
                                 /\ chunk'[q].serial = chunk[q].serial
                                 /\ chunk'[q].writer = chunk[q].writer
         /\ \A q \in P : chunk'[q].refcount = chunk[q].refcount + 1
         /\ \A q \in Allocated \ P : chunk'[q] = chunk[q]
<1>1. \A q \in Allocated : chunk[q] \in Header
  BY DEF Allocated, TypeOK
<1>2. \A q \in P : chunk'[q] = AddReader(chunk[q])
  BY DEF CountReaders, Allocated
<1>3. \A q \in P : /\ chunk'[q] \in Header
                   /\ chunk'[q].uid = chunk[q].uid /\ chunk'[q].serial = chunk[q].serial
                   /\ chunk'[q].writer = chunk[q].writer
                   /\ chunk'[q].refcount = chunk[q].refcount + 1
  BY <1>1, <1>2, HeaderOps
<1>4. \A q \in Ptrs \ P : chunk'[q] = chunk[q]
  BY DEF CountReaders
<1>5. Allocated' = Allocated
  BY <1>3, <1>4 DEF Allocated
<1> QED
  BY <1>1, <1>3, <1>4, <1>5 DEF Allocated

\* A failing open_multiple only leaves counters behind that are too high.
LEMMA MismatchMemory ==
  ASSUME TypeOK, MemoryPart, NEW t \in Threads, NEW U \in SUBSET Uids, NEW P \in SUBSET Ptrs,
         OpenMultipleMismatch(t, U, P)
  PROVE  MemoryPart'
<1>1. P \in SUBSET Allocated /\ CountReaders(P) /\ Live' = Live /\ inst' = inst
  BY DEF OpenMultipleMismatch, Matching, Live
<1>2. \A q : Users(q)' = Users(q) /\ Cardinality(Users(q)) \in Nat
  BY <1>1, UsersCount DEF Users
<1>3. \A q \in Allocated : chunk[q].refcount \in Int
  BY DEF Allocated, TypeOK, Header
<1>4. MemoryAlive'
  BY <1>1, CountedHeaders DEF MemoryPart, MemoryAlive
<1>5. RefcountCovers'
  <2>1. ASSUME NEW q \in Allocated
        PROVE  chunk'[q].refcount >= Cardinality(Users(q)')
    <3>1. chunk[q].refcount >= Cardinality(Users(q)) /\ chunk[q].refcount \in Int
      BY <1>3 DEF MemoryPart, RefcountCovers
    <3>2. chunk'[q].refcount \in {chunk[q].refcount, chunk[q].refcount + 1}
      BY <1>1, CountedHeaders
    <3> QED
      BY <1>2, <3>1, <3>2
  <2> QED
    BY <1>1, <2>1, CountedHeaders DEF RefcountCovers
<1>6. WritersFlagged'
  <2>1. \A i \in Live : inst[i].ptr \in Allocated
    BY DEF MemoryPart, MemoryAlive
  <2> QED
    BY <1>1, <2>1, CountedHeaders DEF MemoryPart, WritersFlagged, is_writer
<1>7. ChunksDistinct'
  BY <1>1, CountedHeaders DEF MemoryPart, ChunksDistinct
<1> QED
  BY <1>4, <1>5, <1>6, <1>7 DEF MemoryPart

\* open_multiple adds one reading instance to each matching chunk.
LEMMA MultipleMemory ==
  ASSUME TypeOK, MemoryPart, NEW t \in Threads, NEW U \in SUBSET Uids,
         NEW f \in [Matching(U) -> Unused], OpenMultiple(t, U, f)
  PROVE  MemoryPart'
<1> DEFINE New == {i \in Instances : \E p \in Matching(U) : f[p] = i}
<1>1. CountReaders(Matching(U)) /\ Matching(U) \in SUBSET Allocated
  BY DEF OpenMultiple, Matching
<1>2. Live' = Live \cup New /\ Live \cap New = {}
  BY DEF OpenMultiple, Live, Unused, TypeOK
<1>3. \A i \in Live : inst'[i] = inst[i]
  BY <1>2 DEF OpenMultiple, Live
<1>4. \A p \in Matching(U) :
        /\ f[p] \in New
        /\ inst'[f[p]].ptr = p /\ inst'[f[p]].mode = "read"
        /\ inst'[f[p]].uid = chunk[p].uid /\ inst'[f[p]].serial = chunk[p].serial
  <2> SUFFICES ASSUME NEW p \in Matching(U)
               PROVE  /\ f[p] \in New
                      /\ inst'[f[p]].ptr = p /\ inst'[f[p]].mode = "read"
                      /\ inst'[f[p]].uid = chunk[p].uid /\ inst'[f[p]].serial = chunk[p].serial
    OBVIOUS
  <2>1. f[p] \in Instances
    BY DEF Unused
  <2>2. (CHOOSE q \in Matching(U) : f[q] = f[p]) = p
    BY DEF OpenMultiple
  <2>3. inst'[f[p]] = [uid |-> chunk[p].uid, mode |-> "read", ptr |-> p,
                       serial |-> chunk[p].serial, lock |-> rwlocks[chunk[p].serial]]
    BY <2>1, <2>2 DEF OpenMultiple
  <2> QED
    BY <2>1, <2>3
<1>5. \A i \in New : \E p \in Matching(U) : i = f[p]
  OBVIOUS
<1> HIDE DEF New
<1>6. \A i \in Live : inst[i].ptr \in Allocated
  BY DEF MemoryPart, MemoryAlive
<1>7. MemoryAlive'
  BY <1>1, <1>2, <1>3, <1>4, <1>5, <1>6, CountedHeaders DEF MemoryPart, MemoryAlive
<1>8. RefcountCovers'
  <2>1. ASSUME NEW q \in Allocated
        PROVE  chunk'[q].refcount >= Cardinality(Users(q)')
    <3>0. /\ chunk[q].refcount >= Cardinality(Users(q)) /\ chunk[q].refcount \in Int
          /\ Cardinality(Users(q)) \in Nat /\ IsFiniteSet(Users(q))
      BY UsersCount DEF MemoryPart, RefcountCovers, Allocated, TypeOK, Header
    <3>1. CASE q \in Matching(U)
      <4>1. Users(q)' = Users(q) \cup {f[q]} /\ f[q] \notin Users(q)
        BY <1>2, <1>3, <1>4, <1>5, <3>1 DEF Users
      <4>2. Cardinality(Users(q)') = Cardinality(Users(q)) + 1
        BY <3>0, <4>1, FS_AddElement
      <4> QED
        BY <1>1, <3>0, <3>1, <4>2, CountedHeaders
    <3>2. CASE q \notin Matching(U)
      <4>1. Users(q)' = Users(q)
        BY <1>2, <1>3, <1>4, <1>5, <3>2 DEF Users
      <4> QED
        BY <1>1, <3>0, <3>2, <4>1, CountedHeaders
    <3> QED
      BY <3>1, <3>2
  <2> QED
    BY <1>1, <2>1, CountedHeaders DEF RefcountCovers
<1>9. WritersFlagged'
  <2>1. \A i \in New : inst'[i].mode # "write"
    BY <1>4, <1>5
  <2> QED
    BY <1>1, <1>2, <1>3, <1>6, <2>1, CountedHeaders DEF MemoryPart, WritersFlagged, is_writer
<1>10. ChunksDistinct'
  BY <1>1, CountedHeaders DEF MemoryPart, ChunksDistinct
<1> QED
  BY <1>7, <1>8, <1>9, <1>10 DEF MemoryPart

\* close() drops one reference: the chunk goes with its last instance only.
LEMMA ReleaseMemory ==
  ASSUME TypeOK, CallsTyped, MemoryPart, NEW t \in Threads, st[iface[t]] = "closing",
         CloseRelease(t)
  PROVE  MemoryPart'
<1>0. PICK i \in Instances, p \in Ptrs : i = iface[t] /\ p = inst[i].ptr /\ i \in Live
  BY DEF CallsTyped, CloseRelease, MemoryPart, MemoryAlive, Allocated, Live
<1>1. chunk[p] \in Header /\ p \in Allocated
  BY <1>0 DEF CloseRelease, TypeOK, Allocated
<1>2. Live' = Live \ {i} /\ inst' = inst
  BY <1>0 DEF CloseRelease, Live, TypeOK
<1>3. \A q \in Ptrs \ {p} : chunk'[q] = chunk[q]
  BY <1>0 DEF CloseRelease, TypeOK
<1>4. Users(p)' = Users(p) \ {i} /\ i \in Users(p) /\ \A q : q # p => Users(q)' = Users(q)
  BY <1>0, <1>2 DEF Users
<1>5. /\ Cardinality(Users(p)') = Cardinality(Users(p)) - 1
      /\ Cardinality(Users(p)) \in Nat /\ Cardinality(Users(p)') \in Nat
  <2>1. IsFiniteSet(Users(p)) /\ Cardinality(Users(p)) \in Nat
    BY UsersCount
  <2>2. IsFiniteSet(Users(p) \ {i}) /\ Cardinality(Users(p) \ {i}) = Cardinality(Users(p)) - 1
    BY <1>4, <2>1, FS_RemoveElement
  <2>3. Cardinality(Users(p) \ {i}) \in Nat
    BY <2>2, FS_CardinalityType
  <2> QED
    BY <1>4, <2>1, <2>2, <2>3
<1>6. chunk[p].refcount >= Cardinality(Users(p)) /\ chunk[p].refcount \in Int
  BY <1>1 DEF MemoryPart, RefcountCovers, Header
<1>7. \A j \in Live : inst[j].ptr \in Allocated
  BY DEF MemoryPart, MemoryAlive
<1>A. CASE chunk[p].refcount - 1 = 0
  <2>1. chunk'[p] = None /\ Allocated' = Allocated \ {p}
    BY <1>0, <1>1, <1>3, <1>A DEF CloseRelease, TypeOK, Allocated
  <2>2. \A j \in Live' : inst[j].ptr # p
    <3>1. Cardinality(Users(p)') = 0
      BY <1>5, <1>6, <1>A
    <3>2. Users(p)' = {}
      <4>1. IsFiniteSet(Users(p) \ {i})
        BY UsersCount, FS_RemoveElement
      <4> QED
        BY <1>4, <3>1, <4>1, FS_EmptySet
    <3> QED
      BY <1>2, <3>2 DEF Users
  <2>3. MemoryAlive'
    BY <1>2, <1>3, <1>7, <2>1, <2>2 DEF MemoryPart, MemoryAlive, Allocated
  <2>4. RefcountCovers'
    BY <1>3, <1>4, <2>1 DEF MemoryPart, RefcountCovers, Allocated
  <2>5. WritersFlagged'
    BY <1>2, <1>3, <1>7, <2>2 DEF MemoryPart, WritersFlagged, is_writer, Allocated
  <2>6. ChunksDistinct'
    BY <1>3, <2>1 DEF MemoryPart, ChunksDistinct, Allocated
  <2> QED
    BY <2>3, <2>4, <2>5, <2>6 DEF MemoryPart
<1>B. CASE chunk[p].refcount - 1 # 0
  <2>1. chunk'[p] = IF is_writer(i) THEN DropWriter(chunk[p]) ELSE DropReader(chunk[p])
    BY <1>0, <1>B DEF CloseRelease, TypeOK
  <2>2. /\ chunk'[p] \in Header
        /\ chunk'[p].uid = chunk[p].uid /\ chunk'[p].serial = chunk[p].serial
        /\ chunk'[p].refcount = chunk[p].refcount - 1
        /\ ~is_writer(i) => chunk'[p].writer = chunk[p].writer
    BY <1>1, <2>1, HeaderOps
  <2>3. Allocated' = Allocated
    BY <1>1, <1>3, <2>2 DEF Allocated
  <2>4. MemoryAlive'
    BY <1>2, <1>3, <2>2, <2>3 DEF MemoryPart, MemoryAlive, Allocated
  <2>5. RefcountCovers'
    <3>1. chunk'[p].refcount >= Cardinality(Users(p)')
      BY <1>5, <1>6, <2>2
    <3> QED
      BY <1>3, <1>4, <2>3, <3>1 DEF MemoryPart, RefcountCovers, Allocated
  <2>6. WritersFlagged'
    <3>1. \A j \in Live' : is_writer(j) /\ inst[j].ptr = p => ~is_writer(i)
      BY <1>0, <1>2 DEF MemoryPart, WritersFlagged
    <3>2. \A j \in Live' : is_writer(j) => chunk'[inst[j].ptr].writer = 1
      BY <1>2, <1>3, <1>7, <2>2, <3>1 DEF MemoryPart, WritersFlagged, Allocated
    <3> QED
      BY <1>2, <3>2 DEF MemoryPart, WritersFlagged, is_writer
  <2>7. ChunksDistinct'
    BY <1>3, <2>2, <2>3 DEF MemoryPart, ChunksDistinct, Allocated
  <2> QED
    BY <2>4, <2>5, <2>6, <2>7 DEF MemoryPart
<1> QED
  BY <1>A, <1>B
-----------------------------------------------------------------------------
\* Steps of open*() and list*() before an instance is published.
LEMMA OpenThreads ==
  ASSUME TypeOK, CallsTyped, ThreadPart, MemoryPart, NEW t \in Threads,
         OpenStep(t) \/ List(t) \/ ListDone(t), ~oom'
  PROVE  ThreadPart' /\ MemoryPart'
<1> USE DEF TypeOK, ThreadPart, SectionsGuarded, StagesMatch, DeletesDistinct, CommitReady,
            Goto, Return, UnlockBoth, locks, memory, owners, Allocated, WriterActive
<1>1. ASSUME NEW u \in Uids, NEW m \in Mode, Open(t, u, m)
      PROVE  ThreadPart' /\ MemoryPart'
  <2>1. ThreadPart'
    BY <1>1 DEF Open
  <2> QED
    BY <1>1, <2>1, MemoryFrame DEF Open, Live
<1>2. CASE OpenLockMemory(t)
  <2>1. ThreadPart'
    BY <1>2 DEF OpenLockMemory
  <2> QED
    BY <1>2, <2>1, MemoryFrame DEF OpenLockMemory, Live
<1>3. CASE OpenRefused(t)
  <2>1. ThreadPart'
    BY <1>3 DEF OpenRefused
  <2> QED
    BY <1>3, <2>1, MemoryFrame DEF OpenRefused, Live
<1>4. ASSUME NEW i \in Unused, OpenMismatch(t, i)
      PROVE  ThreadPart' /\ MemoryPart'
  <2>1. ThreadPart'
    BY <1>4 DEF OpenMismatch, Unused, CallsTyped
  <2>2. MemoryPart'
    BY <1>4, MemoryFrame DEF OpenMismatch, Live, Unused
  <2> QED
    BY <2>1, <2>2
<1>5. ASSUME NEW i \in Unused, NEW p \in Ptrs, OpenExisting(t, i, p)
      PROVE  ThreadPart' /\ MemoryPart'
  <2>1. ThreadPart'
    BY <1>5 DEF OpenExisting, Unused, CallsTyped, Found
  <2>2. MemoryPart'
    BY <1>5, MemoryFrame DEF OpenExisting, Live, Unused
  <2> QED
    BY <2>1, <2>2
<1>6. ASSUME NEW i \in Unused, NEW p \in Ptrs, NEW l \in Locks, OpenCreate(t, i, p, l)
      PROVE  ThreadPart' /\ MemoryPart'
  <2>1. ThreadPart'
    BY <1>6 DEF OpenCreate, Unused, CallsTyped, Header
  <2> QED
    BY <1>6, <2>1, CreateMemory
<1>7. ASSUME NEW i \in Unused, OpenOutOfMemory(t, i)
      PROVE  FALSE
  BY <1>7 DEF OpenOutOfMemory
<1>8. CASE OpenCommit(t)
  <2>1. ThreadPart'
    BY <1>8 DEF OpenCommit, CallsTyped
  <2>2. CommitReady(t)
    BY <1>8 DEF OpenCommit
  <2> QED
    BY <1>8, <2>1, <2>2, CommitMemory
<1>9. CASE OpenFail(t)
  <2>1. ThreadPart'
    BY <1>9 DEF OpenFail, Destroy, CallsTyped
  <2>2. MemoryPart'
    BY <1>9, MemoryFrame DEF OpenFail, Destroy, Live
  <2> QED
    BY <2>1, <2>2
<1>10. CASE List(t)
  <2>1. ThreadPart'
    BY <1>10 DEF List
  <2> QED
    BY <1>10, <2>1, MemoryFrame DEF List, Live
<1>11. CASE ListDone(t)
  <2>1. ThreadPart'
    BY <1>11 DEF ListDone
  <2> QED
    BY <1>11, <2>1, MemoryFrame DEF ListDone, Live
<1> QED
  BY <1>1, <1>2, <1>3, <1>4, <1>5, <1>6, <1>7, <1>8, <1>9, <1>10, <1>11 DEF OpenStep

\* Steps of open_multiple_for_reading() and close().
LEMMA CloseThreads ==
  ASSUME TypeOK, CallsTyped, ThreadPart, MemoryPart, NEW t \in Threads,
         MultipleStep(t) \/ CloseStep(t)
  PROVE  ThreadPart' /\ MemoryPart'
<1> USE DEF TypeOK, ThreadPart, SectionsGuarded, StagesMatch, DeletesDistinct, CommitReady,
            Goto, Return, locks, memory, owners, WriterActive
<1>1. ASSUME NEW U \in SUBSET Uids, NEW f \in [Matching(U) -> Unused], OpenMultiple(t, U, f)
      PROVE  ThreadPart' /\ MemoryPart'
  <2>1. ThreadPart'
    <3>1. \A i \in Instances : st[i] # "none" => st'[i] = st[i]
      BY <1>1 DEF OpenMultiple, Unused
    <3>2. \A v \in Threads : pc[v] \in {"idle", "delete", "list"}
      BY <1>1 DEF OpenMultiple, Pc
    <3> QED
      BY <1>1, <3>1, <3>2 DEF OpenMultiple, CallsTyped
  <2> QED
    BY <1>1, <2>1, MultipleMemory
<1>2. ASSUME NEW U \in SUBSET Uids, NEW P \in SUBSET Ptrs, OpenMultipleMismatch(t, U, P)
      PROVE  ThreadPart' /\ MemoryPart'
  <2>1. ThreadPart'
    BY <1>2 DEF OpenMultipleMismatch
  <2> QED
    BY <1>2, <2>1, MismatchMemory
<1>3. ASSUME NEW i \in Instances, Close(t, i)
      PROVE  ThreadPart' /\ MemoryPart'
  <2>1. ThreadPart'
    BY <1>3 DEF Close, CallsTyped
  <2>2. MemoryPart'
    BY <1>3, MemoryFrame DEF Close, Live
  <2> QED
    BY <2>1, <2>2
<1>4. CASE CloseRelease(t)
  <2>1. ThreadPart'
    BY <1>4 DEF CloseRelease, CallsTyped
  <2>2. st[iface[t]] = "closing"
    BY <1>4 DEF CloseRelease
  <2> QED
    BY <1>4, <2>1, <2>2, ReleaseMemory
<1>5. CASE CloseDelete(t)
  <2>1. ThreadPart'
    BY <1>5 DEF CloseDelete, Destroy, CallsTyped
  <2>2. MemoryPart'
    BY <1>5, MemoryFrame DEF CloseDelete, Destroy, Live, CallsTyped
  <2> QED
    BY <2>1, <2>2
<1> QED
  BY <1>1, <1>2, <1>3, <1>4, <1>5 DEF MultipleStep, CloseStep
-----------------------------------------------------------------------------
\* IInv is an invariant of the interface manager.
THEOREM Inductive == Spec => []IInv
<1>1. Init => IInv
  <2> SUFFICES ASSUME Init PROVE IInv
    OBVIOUS
  <2>1. TypeOK /\ CallsTyped
    <3>1. NoFields \in Fields /\ NoCall \in [uid : Uids \cup {None}, mode : Mode]
      BY DEF NoFields, Fields, NoCall, Mode
    <3>2. /\ mutex \in Threads \cup {None} /\ memlock \in Threads \cup {None}
          /\ chunk \in [Ptrs -> Header \cup {None}] /\ lockref \in [Locks -> Int]
          /\ st \in [Instances -> InstState] /\ pc \in [Threads -> Pc]
      BY DEF Init, InstState, Pc
    <3>6. oom \in BOOLEAN /\ miscounted \subseteq Ptrs
      BY DEF Init
    <3>3. /\ rwlocks \in [Serials -> Locks \cup {None}]
          /\ writer_interfaces \in [Serials -> Instances \cup {None}]
          /\ owner_writer \in [Uids -> Instances \cup {None}]
          /\ owner_readers \in [Uids -> SUBSET Instances]
          /\ iface \in [Threads -> Instances \cup {None}]
      BY DEF Init
    <3>4. /\ inst \in [Instances -> Fields]
          /\ call \in [Threads -> [uid : Uids \cup {None}, mode : Mode]]
      BY <3>1 DEF Init
    <3>5. CallsTyped
      BY DEF Init, CallsTyped
    <3> QED
      BY <3>2, <3>3, <3>4, <3>5, <3>6 DEF TypeOK
  <2>2. Live = {} /\ Allocated = {}
    BY DEF Init, Live, Allocated
  <2>3. ThreadPart
    BY DEF Init, ThreadPart, SectionsGuarded, StagesMatch, DeletesDistinct
  <2>4. MemoryPart
    BY <2>2 DEF MemoryPart, MemoryAlive, RefcountCovers, WritersFlagged, ChunksDistinct
  <2> QED
    BY <2>1, <2>3, <2>4 DEF IInv, Consistent, ThreadPart, MemoryPart
<1>2. IInv /\ [Next]_vars => IInv'
  <2> SUFFICES ASSUME IInv, [Next]_vars PROVE IInv'
    OBVIOUS
  <2> USE DEF IInv, Consistent
  <2>1. CASE UNCHANGED vars
    <3>1. TypeOK' /\ CallsTyped'
      BY <2>1 DEF vars, locks, memory, owners, TypeOK, CallsTyped
    <3>2. ASSUME ~oom' PROVE ThreadPart' /\ MemoryPart'
      <4>1. ThreadPart /\ MemoryPart /\ Live' = Live
        BY <2>1, <3>2 DEF vars, ThreadPart, MemoryPart, Live
      <4>2. MemoryPart'
        BY <2>1, <4>1, MemoryFrame DEF vars, memory
      <4>3. ThreadPart'
        BY <2>1, <4>1 DEF vars, locks, memory, ThreadPart, SectionsGuarded, StagesMatch,
                          DeletesDistinct, CommitReady, Allocated, WriterActive
      <4> QED
        BY <4>2, <4>3
    <3> QED
      BY <3>1, <3>2 DEF ThreadPart, MemoryPart
  <2>2. CASE Next
    <3>1. PICK t \in Threads : \/ OpenStep(t) \/ List(t) \/ ListDone(t)
                              \/ MultipleStep(t) \/ CloseStep(t)
      BY <2>2 DEF Next
    <3>2. TypeOK' /\ CallsTyped'
      BY <3>1, OpenTypes, CloseTypes
    <3>3. oom => oom'
      BY <3>1 DEF OpenStep, List, ListDone, MultipleStep, CloseStep, Open, OpenLockMemory,
                  OpenRefused, OpenMismatch, OpenExisting, OpenCreate, OpenOutOfMemory,
                  OpenCommit, OpenFail, OpenMultiple, OpenMultipleMismatch, Close,
                  CloseRelease, CloseDelete
    <3>4. ASSUME ~oom' PROVE ThreadPart' /\ MemoryPart'
      BY <3>1, <3>3, <3>4, OpenThreads, CloseThreads DEF ThreadPart, MemoryPart
    <3> QED
      BY <3>2, <3>4 DEF ThreadPart, MemoryPart
  <2> QED
    BY <2>1, <2>2
<1> QED
  BY <1>1, <1>2, PTL DEF Spec

\* The variables keep their types, out of memory or not.
THEOREM TypeCorrect == Spec => []TypeOK
<1>1. IInv => TypeOK
  BY DEF IInv
<1> QED
  BY <1>1, Inductive, PTL

\* "There can be only one writer at a time for any given interface", as long as no
\* open call ran out of BlackBoard memory.
THEOREM OneWriter == Spec => []SingleWriterUnlessOom
<1>1. IInv => SingleWriterUnlessOom
  <2> SUFFICES ASSUME IInv, ~oom, NEW i \in Live, NEW j \in Live,
                      is_writer(i), is_writer(j), inst[i].uid = inst[j].uid
               PROVE  i = j
    BY DEF SingleWriterUnlessOom, SingleWriter
  <2>1. inst[i].ptr = inst[j].ptr
    BY DEF IInv, Consistent, MemoryAlive, ChunksDistinct
  <2> QED
    BY <2>1 DEF IInv, Consistent, WritersFlagged
<1> QED
  BY <1>1, Inductive, PTL

\* As long as no open call ran out of memory, close() never frees or recycles a chunk
\* that some instance still uses, whatever failing calls did to the counters.
THEOREM NoUseAfterFree == Spec => []MemoryAliveUnlessOom
<1>1. IInv => MemoryAliveUnlessOom
  BY DEF IInv, Consistent, MemoryAliveUnlessOom
<1> QED
  BY <1>1, Inductive, PTL

-----------------------------------------------------------------------------
(* Counting                                                                *)

\* A set of serials has a largest element.
LEMMA LargestExists ==
  ASSUME NEW S \in SUBSET (0..MaxSerial), S # {}
  PROVE  Max(S) \in S /\ \A x \in S : Max(S) >= x
<1> DEFINE T == {MaxSerial - x : x \in S}
           R == {ss \in Nat \X Nat : ss[1] < ss[2]}
<1>1. T \subseteq Nat /\ T # {}
  <2>1. \A x \in S : MaxSerial - x \in Nat
    OBVIOUS
  <2> QED
    BY <2>1
<1>2. PICK m \in T : \A y \in T : <<y, m>> \notin R
  <2>1. IsWellFoundedOn(R, Nat)
    BY NatLessThanWellFounded DEF OpToRel
  <2> HIDE DEF T, R
  <2> QED
    BY <1>1, <2>1, WFMin
<1>3. \A y \in T : m <= y
  <2>1. ASSUME NEW y \in T PROVE m <= y
    <3>1. m \in Nat /\ y \in Nat /\ <<y, m>> \notin R
      BY <1>1, <1>2
    <3> QED
      BY <3>1
  <2> QED
    BY <2>1
<1>4. PICK x \in S : m = MaxSerial - x
  OBVIOUS
<1>5. ASSUME NEW y \in S PROVE x >= y
  <2>1. m <= MaxSerial - y /\ x \in 0..MaxSerial /\ y \in 0..MaxSerial
    BY <1>3
  <2> QED
    BY <1>4, <2>1
<1> QED
  BY <1>4, <1>5 DEF Max

\* next_mem_serial() gives a serial that no chunk has.
LEMMA SerialIsNew ==
  ASSUME TypeOK, next_mem_serial \in Serials
  PROVE  \A p \in Allocated : chunk[p].serial # next_mem_serial
<1> DEFINE S == {0} \cup {chunk[p].serial : p \in Allocated}
<1>1. \A p \in Allocated : chunk[p].serial \in Serials
  BY DEF TypeOK, Allocated, Header
<1>2. S \in SUBSET (0..MaxSerial) /\ S # {}
  BY <1>1 DEF Serials
<1>3. \A x \in S : Max(S) >= x
  <2> HIDE DEF S
  <2> QED
    BY <1>2, LargestExists
<1>4. next_mem_serial = Max(S) + 1 /\ Max(S) \in 0..MaxSerial
  <2>1. Max(S) \in S
    <3> HIDE DEF S
    <3> QED
      BY <1>2, LargestExists
  <2> QED
    BY <1>2, <2>1 DEF next_mem_serial
<1>5. ASSUME NEW p \in Allocated PROVE chunk[p].serial # next_mem_serial
  <2>1. Max(S) >= chunk[p].serial
    BY <1>3
  <2> HIDE DEF S
  <2> QED
    BY <1>1, <1>4, <2>1 DEF Serials
<1> QED
  BY <1>5

\* How a set's size changes with one element.
LEMMA OneElement ==
  ASSUME NEW F, NEW G, NEW i, IsFiniteSet(F), G \ {i} = F \ {i}
  PROVE  /\ Cardinality(F) \in Nat
         /\ Cardinality(G) = Cardinality(F) + (IF i \in G THEN 1 ELSE 0)
                                            - (IF i \in F THEN 1 ELSE 0)
<1>1. Cardinality(F) \in Nat
  BY FS_CardinalityType
<1>2. CASE i \in G /\ i \notin F
  <2>1. G = F \cup {i}
    BY <1>2
  <2>2. Cardinality(G) = Cardinality(F) + 1
    BY <1>2, <2>1, FS_AddElement
  <2> QED
    BY <1>1, <1>2, <2>2
<1>3. CASE i \notin G /\ i \in F
  <2>1. G = F \ {i}
    BY <1>3
  <2>2. Cardinality(G) = Cardinality(F) - 1
    BY <1>3, <2>1, FS_RemoveElement
  <2> QED
    BY <1>1, <1>3, <2>2
<1>4. CASE i \in G <=> i \in F
  <2>1. G = F
    BY <1>4
  <2> QED
    BY <1>1, <1>4, <2>1
<1> QED
  BY <1>2, <1>3, <1>4

-----------------------------------------------------------------------------
(* What holds even after an allocation has failed                          *)

\* Every action leaves an unused address blank and gives back the mutexes it took.
LEMMA BlankStays ==
  ASSUME TypeOK, CallsTyped, UnusedBlank, LocksGivenBack, NEW t \in Threads,
         OpenStep(t) \/ MultipleStep(t) \/ CloseStep(t) \/ List(t) \/ ListDone(t)
  PROVE  UnusedBlank' /\ LocksGivenBack'
<1> USE DEF TypeOK, UnusedBlank, LocksGivenBack, Goto, Return, UnlockBoth, locks, memory, owners,
            Unused, Destroy
<1>1. ASSUME NEW u \in Uids, NEW m \in Mode, Open(t, u, m)
      PROVE  UnusedBlank' /\ LocksGivenBack'
  BY <1>1 DEF Open
<1>2. CASE OpenLockMemory(t)
  BY <1>2 DEF OpenLockMemory
<1>3. CASE OpenRefused(t)
  BY <1>3 DEF OpenRefused
<1>4. ASSUME NEW i \in Unused, OpenMismatch(t, i)
      PROVE  UnusedBlank' /\ LocksGivenBack'
  BY <1>4 DEF OpenMismatch
<1>5. ASSUME NEW i \in Unused, NEW p \in Ptrs, OpenExisting(t, i, p)
      PROVE  UnusedBlank' /\ LocksGivenBack'
  BY <1>5 DEF OpenExisting
<1>6. ASSUME NEW i \in Unused, NEW p \in Ptrs, NEW l \in Locks, OpenCreate(t, i, p, l)
      PROVE  UnusedBlank' /\ LocksGivenBack'
  BY <1>6 DEF OpenCreate
<1>7. ASSUME NEW i \in Unused, OpenOutOfMemory(t, i)
      PROVE  UnusedBlank' /\ LocksGivenBack'
  BY <1>7 DEF OpenOutOfMemory
<1>8. CASE OpenCommit(t)
  BY <1>8 DEF OpenCommit, CallsTyped
<1>9. CASE OpenFail(t)
  BY <1>9 DEF OpenFail
<1>10. ASSUME NEW U \in SUBSET Uids, NEW f \in [Matching(U) -> Unused], OpenMultiple(t, U, f)
      PROVE  UnusedBlank' /\ LocksGivenBack'
  BY <1>10 DEF OpenMultiple
<1>11. ASSUME NEW U \in SUBSET Uids, NEW P \in SUBSET Ptrs, OpenMultipleMismatch(t, U, P)
      PROVE  UnusedBlank' /\ LocksGivenBack'
  BY <1>11 DEF OpenMultipleMismatch
<1>12. ASSUME NEW i \in Instances, Close(t, i)
      PROVE  UnusedBlank' /\ LocksGivenBack'
  BY <1>12 DEF Close
<1>13. CASE CloseRelease(t)
  BY <1>13 DEF CloseRelease, CallsTyped
<1>14. CASE CloseDelete(t)
  BY <1>14 DEF CloseDelete, CallsTyped
<1>15. CASE List(t)
  BY <1>15 DEF List
<1>16. CASE ListDone(t)
  BY <1>16 DEF ListDone
<1> QED
  BY <1>1, <1>2, <1>3, <1>4, <1>5, <1>6, <1>7, <1>8, <1>9, <1>10, <1>11, <1>12, <1>13, <1>14,
     <1>15, <1>16 DEF OpenStep, MultipleStep, CloseStep

\* A lock's count follows the fields of the one instance that a step writes.
LEMMA OneHolder ==
  ASSUME TypeOK, LocksCounted, NEW i \in Instances,
         \A j \in Instances \ {i} : inst'[j].lock = inst[j].lock,
         \A l \in Locks : lockref'[l] = lockref[l] + (IF inst'[i].lock = l THEN 1 ELSE 0)
                                                   - (IF inst[i].lock = l THEN 1 ELSE 0)
  PROVE  LocksCounted'
<1> SUFFICES ASSUME NEW l \in Locks
             PROVE  lockref'[l] = Cardinality({j \in Instances : inst'[j].lock = l})
  BY DEF LocksCounted
<1> DEFINE F == {j \in Instances : inst[j].lock = l}
           G == {j \in Instances : inst'[j].lock = l}
<1>1. lockref[l] = Cardinality(F)
  BY DEF LocksCounted
<1>2. IsFiniteSet(F) /\ G \ {i} = F \ {i}
  BY FS_Subset
<1>3. (i \in G <=> inst'[i].lock = l) /\ (i \in F <=> inst[i].lock = l)
  OBVIOUS
<1> HIDE DEF F, G
<1>4. Cardinality(G) = Cardinality(F) + (IF i \in G THEN 1 ELSE 0) - (IF i \in F THEN 1 ELSE 0)
  BY <1>2, OneElement
<1>5. lockref'[l] = Cardinality(G)
  BY <1>1, <1>3, <1>4
<1> QED
  BY <1>5 DEF G

\* The destructor gives back the reference that its instance held.
LEMMA DestroyCounted ==
  ASSUME TypeOK, LocksCounted, NEW i \in Instances, Destroy(i)
  PROVE  LocksCounted'
<1>1. \A j \in Instances \ {i} : inst'[j] = inst[j]
  BY DEF Destroy, TypeOK
<1>2. inst'[i].lock = None /\ \A l \in Locks : lockref[l] \in Int
  BY DEF Destroy, TypeOK, NoFields
<1>3. \A l \in Locks : lockref'[l] = lockref[l] + (IF inst'[i].lock = l THEN 1 ELSE 0)
                                                - (IF inst[i].lock = l THEN 1 ELSE 0)
  BY <1>2 DEF Destroy
<1> QED
  BY <1>1, <1>3, OneHolder

\* The instances that f picks are readers of the chunks that match, no other changed.
MultipleDid(U, f) ==
  /\ Live' = Live \cup {f[p] : p \in Matching(U)}
  /\ \A i \in Instances \ {f[p] : p \in Matching(U)} : inst'[i] = inst[i] /\ st'[i] = st[i]
  /\ \A p \in Matching(U) :
       /\ f[p] \in Instances /\ st[f[p]] = "none" /\ st'[f[p]] = "open"
       /\ inst'[f[p]] = [uid |-> chunk[p].uid, mode |-> "read", ptr |-> p,
                         serial |-> chunk[p].serial, lock |-> rwlocks[chunk[p].serial]]

\* What open_multiple_for_reading() does: an instance of its own for each matching chunk.
LEMMA MultipleEffect ==
  ASSUME TypeOK, NEW t \in Threads, NEW U \in SUBSET Uids,
         NEW f \in [Matching(U) -> Unused], OpenMultiple(t, U, f)
  PROVE  MultipleDid(U, f)
<1>1. \A p \in Matching(U) : f[p] \in Instances /\ st[f[p]] = "none"
  BY DEF Unused
<1>2. ASSUME NEW p \in Matching(U)
      PROVE  /\ st'[f[p]] = "open"
             /\ inst'[f[p]] = [uid |-> chunk[p].uid, mode |-> "read", ptr |-> p,
                               serial |-> chunk[p].serial, lock |-> rwlocks[chunk[p].serial]]
  <2>1. (CHOOSE q \in Matching(U) : f[q] = f[p]) = p
    BY DEF OpenMultiple
  <2> QED
    BY <1>1, <2>1 DEF OpenMultiple
<1>3. \A i \in Instances \ {f[p] : p \in Matching(U)} : inst'[i] = inst[i] /\ st'[i] = st[i]
  BY DEF OpenMultiple
<1>4. Live' = Live \cup {f[p] : p \in Matching(U)}
  <2> DEFINE N == {f[p] : p \in Matching(U)}
  <2>1. ASSUME NEW i \in N PROVE i \in Instances /\ st'[i] = "open"
    <3>1. PICK p \in Matching(U) : i = f[p]
      OBVIOUS
    <3> QED
      BY <1>1, <1>2, <3>1, Zenon
  <2>2. \A i \in Instances \ N : st'[i] = st[i]
    BY <1>3
  <2> HIDE DEF N
  <2>3. Live' = Live \cup N
    BY <1>1, <2>1, <2>2 DEF Live
  <2> QED
    BY <2>3 DEF N
<1> QED
  BY <1>1, <1>2, <1>3, <1>4 DEF MultipleDid

\* open_multiple_for_reading() takes one reference for each instance it makes.
LEMMA MultipleCounted ==
  ASSUME TypeOK, UnusedBlank, LocksCounted, NEW t \in Threads, NEW U \in SUBSET Uids,
         NEW f \in [Matching(U) -> Unused], OpenMultiple(t, U, f)
  PROVE  LocksCounted'
<1> SUFFICES ASSUME NEW l \in Locks
             PROVE  lockref'[l] = Cardinality({j \in Instances : inst'[j].lock = l})
  BY DEF LocksCounted
<1> DEFINE M == {p \in Matching(U) : rwlocks[chunk[p].serial] = l}
           N == {f[p] : p \in M}
           F == {j \in Instances : inst[j].lock = l}
           G == {j \in Instances : inst'[j].lock = l}
<1>1. lockref'[l] = lockref[l] + Cardinality(M)
  BY DEF OpenMultiple
<1>2. G = F \cup N /\ F \cap N = {}
  <2>0. /\ \A i \in Instances \ {f[p] : p \in Matching(U)} : inst'[i] = inst[i]
        /\ \A p \in Matching(U) :
             /\ f[p] \in Instances /\ st[f[p]] = "none"
             /\ inst'[f[p]] = [uid |-> chunk[p].uid, mode |-> "read", ptr |-> p,
                               serial |-> chunk[p].serial, lock |-> rwlocks[chunk[p].serial]]
    <3>1. MultipleDid(U, f)
      BY MultipleEffect
    <3> QED
      BY <3>1 DEF MultipleDid
  <2>1. ASSUME NEW p \in Matching(U)
        PROVE  /\ f[p] \in Instances /\ inst[f[p]].lock = None
               /\ inst'[f[p]].lock = rwlocks[chunk[p].serial]
    <3>1. /\ f[p] \in Instances /\ st[f[p]] = "none"
          /\ inst'[f[p]] = [uid |-> chunk[p].uid, mode |-> "read", ptr |-> p,
                            serial |-> chunk[p].serial, lock |-> rwlocks[chunk[p].serial]]
      BY <2>0, Zenon
    <3> QED
      BY <3>1 DEF UnusedBlank, NoFields
  <2>2. ASSUME NEW j \in Instances PROVE j \in G <=> j \in F \/ j \in N
    <3>1. CASE j \notin {f[p] : p \in Matching(U)}
      BY <2>0, <3>1
    <3>2. CASE \E p \in Matching(U) : j = f[p]
      <4>1. PICK p \in Matching(U) : j = f[p]
        BY <3>2
      <4>2. \A q \in Matching(U) : j = f[q] => q = p
        BY <4>1 DEF OpenMultiple
      <4> QED
        BY <2>1, <4>1, <4>2
    <3> QED
      BY <3>1, <3>2
  <2>3. N \subseteq Instances /\ F \cap N = {}
    <3>1. ASSUME NEW j \in N PROVE j \in Instances /\ j \notin F
      <4>1. PICK p \in Matching(U) : j = f[p]
        OBVIOUS
      <4> QED
        BY <2>1, <4>1
    <3> QED
      BY <3>1
  <2> QED
    BY <2>2, <2>3
<1>3. IsFiniteSet(M) /\ IsFiniteSet(F)
  <2>1. M \subseteq Ptrs /\ F \subseteq Instances
    BY DEF Matching, Allocated
  <2> QED
    BY <2>1, FS_Subset
<1>4. IsFiniteSet(N) /\ Cardinality(N) = Cardinality(M)
  <2> DEFINE g == [p \in M |-> f[p]]
  <2>1. g \in Bijection(M, N)
    BY DEF Bijection, Injection, Surjection, IsInjective, OpenMultiple
  <2>2. ExistsBijection(M, N)
    BY <2>1 DEF ExistsBijection
  <2> HIDE DEF M, N
  <2> QED
    BY <1>3, <2>2, FS_Bijection
<1>5. Cardinality(F) = lockref[l] /\ Cardinality(F) \in Nat /\ Cardinality(N) \in Nat
  BY <1>3, <1>4, FS_CardinalityType DEF LocksCounted
<1> HIDE DEF M, N, F, G
<1>6. Cardinality(G) = Cardinality(F) + Cardinality(N)
  <2>1. Cardinality(F \cap N) = 0
    BY <1>2, FS_EmptySet
  <2>2. Cardinality(F \cup N) = Cardinality(F) + Cardinality(N) - Cardinality(F \cap N)
    BY <1>3, <1>4, FS_Union
  <2> QED
    BY <1>2, <1>5, <2>1, <2>2
<1> QED
  BY <1>1, <1>4, <1>5, <1>6 DEF G

\* Every action keeps the reference counts of the locks exact.
LEMMA CountedStays ==
  ASSUME TypeOK, CallsTyped, UnusedBlank, LocksCounted, NEW t \in Threads,
         OpenStep(t) \/ MultipleStep(t) \/ CloseStep(t) \/ List(t) \/ ListDone(t)
  PROVE  LocksCounted'
<1> USE DEF memory
<1>1. CASE UNCHANGED <<inst, lockref>>
  BY <1>1 DEF LocksCounted
<1>2. ASSUME NEW i \in Unused, OpenMismatch(t, i) \/ OpenOutOfMemory(t, i)
      PROVE  LocksCounted'
  <2>1. /\ i \in Instances /\ inst[i].lock = None /\ inst'[i].lock = None /\ lockref' = lockref
        /\ \A j \in Instances \ {i} : inst'[j] = inst[j]
    BY <1>2 DEF Unused, UnusedBlank, NoFields, OpenMismatch, OpenOutOfMemory, TypeOK
  <2>2. \A l \in Locks : lockref[l] \in Int
    BY DEF TypeOK
  <2> QED
    BY <2>1, <2>2, OneHolder
<1>3. ASSUME NEW i \in Unused, NEW p \in Ptrs, OpenExisting(t, i, p)
      PROVE  LocksCounted'
  <2> DEFINE k == rwlocks[chunk[p].serial]
  <2>1. /\ i \in Instances /\ inst[i].lock = None /\ inst'[i].lock = k
        /\ \A j \in Instances \ {i} : inst'[j] = inst[j]
    BY <1>3 DEF Unused, UnusedBlank, NoFields, OpenExisting, TypeOK
  <2>2. \A l \in Locks : lockref[l] \in Int /\ lockref'[l] = lockref[l] + IF k = l THEN 1 ELSE 0
    BY <1>3 DEF OpenExisting, TypeOK
  <2> HIDE DEF k
  <2> QED
    BY <2>1, <2>2, OneHolder
<1>4. ASSUME NEW i \in Unused, NEW p \in Ptrs, NEW k \in Locks, OpenCreate(t, i, p, k)
      PROVE  LocksCounted'
  <2>1. /\ i \in Instances /\ inst[i].lock = None /\ inst'[i].lock = k
        /\ \A j \in Instances \ {i} : inst'[j] = inst[j]
    BY <1>4 DEF Unused, UnusedBlank, NoFields, OpenCreate, TypeOK
  <2>2. \A l \in Locks : lockref[l] \in Int /\ lockref'[l] = lockref[l] + IF k = l THEN 1 ELSE 0
    BY <1>4 DEF OpenCreate, TypeOK
  <2> QED
    BY <2>1, <2>2, OneHolder
<1>5. ASSUME NEW i \in Instances, Destroy(i)
      PROVE  LocksCounted'
  BY <1>5, DestroyCounted
<1>6. ASSUME NEW U \in SUBSET Uids, NEW f \in [Matching(U) -> Unused], OpenMultiple(t, U, f)
      PROVE  LocksCounted'
  BY <1>6, MultipleCounted
<1>7. CASE OpenFail(t)
  <2>1. iface[t] \in Instances \cup {None}
    BY DEF TypeOK
  <2> QED
    BY <1>1, <1>5, <1>7, <2>1 DEF OpenFail
<1>8. CASE CloseDelete(t)
  BY <1>5, <1>8 DEF CloseDelete, CallsTyped
<1> QED
  BY <1>1, <1>2, <1>3, <1>4, <1>6, <1>7, <1>8
     DEF OpenStep, MultipleStep, CloseStep, List, ListDone, Open, OpenLockMemory, OpenRefused,
         OpenCommit, OpenMultipleMismatch, Close, CloseRelease
-----------------------------------------------------------------------------
(* What holds until an allocation fails.  First what a step may change     *)
(* without disturbing a part of the books                                  *)

Published == {i \in Instances : st[i] \in {"open", "closing", "closed"}}

\* Chunks may go and headers may be counted up and down.
LEMMA SerialsFrame ==
  ASSUME SerialsDistinct,
         \A q \in Allocated' : q \in Allocated /\ chunk'[q].serial = chunk[q].serial
  PROVE  SerialsDistinct'
BY DEF SerialsDistinct

\* Instances may go.
LEMMA LocksFrame ==
  ASSUME LocksMapped,
         \A i \in Attached' : /\ i \in Attached /\ inst'[i] = inst[i]
                              /\ rwlocks'[inst[i].serial] = rwlocks[inst[i].serial]
  PROVE  LocksMapped'
BY DEF LocksMapped

\* Instances may be made and deleted as long as they are not live.
LEMMA WritersFrame ==
  ASSUME WritersMapped, Live' = Live, \A i \in Live : inst'[i] = inst[i],
         writer_interfaces' = writer_interfaces
  PROVE  WritersMapped'
BY DEF WritersMapped, is_writer

\* Instances may be made and closed as long as none is published or deleted.
LEMMA OwnersFrame ==
  ASSUME TypeOK, OwnersAgree, OwnersWrite, Live' \subseteq Live, Published' = Published,
         \A i \in Published : inst'[i] = inst[i], UNCHANGED owners
  PROVE  OwnersAgree' /\ OwnersWrite'
<1>1. /\ owner_readers' = owner_readers /\ owner_writer' = owner_writer
      /\ Live \subseteq Published
      /\ owner_writer \in [Uids -> Instances \cup {None}]
  BY DEF owners, Live, Published, TypeOK
<1>2. \A i \in Instances : /\ i \in Published <=> st[i] \in {"open", "closing", "closed"}
                           /\ i \in Published' <=> st'[i] \in {"open", "closing", "closed"}
  BY DEF Published
<1>3. OwnersWrite'
  BY <1>1, <1>2 DEF OwnersWrite, is_writer
<1>4. ASSUME NEW u \in Uids
      PROVE  owner_readers'[u] = {i \in Instances : /\ st'[i] \in {"open", "closing", "closed"}
                                                   /\ inst'[i].uid = u /\ ~is_writer(i)'}
  <2>1. owner_readers[u] = {i \in Instances : /\ st[i] \in {"open", "closing", "closed"}
                                              /\ inst[i].uid = u /\ ~is_writer(i)}
    BY DEF OwnersAgree
  <2> QED
    BY <1>1, <1>2, <2>1 DEF is_writer
<1>5. ASSUME NEW u \in Uids, owner_writer'[u] # None
      PROVE  st'[owner_writer'[u]] # "none" /\ inst'[owner_writer'[u]].uid = u
  BY <1>1, <1>2, <1>3, <1>5 DEF OwnersAgree, OwnersWrite
<1>6. ASSUME NEW u \in Uids, NEW i \in Live', inst'[i].uid = u, is_writer(i)'
      PROVE  owner_writer'[u] = i
  BY <1>1, <1>6 DEF OwnersAgree, is_writer
<1> QED
  BY <1>3, <1>4, <1>5, <1>6 DEF OwnersAgree

\* The quiet steps: no instance is published, released or deleted.
LEMMA QuietBooks ==
  ASSUME TypeOK, Books,
         \A q \in Allocated' : q \in Allocated /\ chunk'[q].serial = chunk[q].serial,
         Attached' \subseteq Attached, Live' = Live, Published' = Published,
         \A i \in Attached \cup Published : inst'[i] = inst[i],
         UNCHANGED <<rwlocks, writer_interfaces, owners>>
  PROVE  Books'
<1>1. SerialsDistinct'
  BY SerialsFrame DEF Books
<1>2. LocksMapped'
  BY LocksFrame DEF Books
<1>3. WritersMapped'
  <2>1. \A i \in Live : inst'[i] = inst[i]
    BY DEF Attached
  <2> QED
    BY <2>1, WritersFrame DEF Books
<1>4. OwnersAgree' /\ OwnersWrite'
  BY OwnersFrame DEF Books
<1> QED
  BY <1>1, <1>2, <1>3, <1>4 DEF Books

\* An attached instance exists, and only the thread that opens it has it unpublished.
LEMMA AttachedExist ==
  ASSUME TypeOK, CallsTyped, ThreadPart, NEW i \in Attached
  PROVE  /\ i \in Instances
         /\ i \in Live \/ /\ st[i] = "fresh"
                          /\ \E v \in Threads : pc[v] = "commit" /\ mutex = v /\ iface[v] = i
BY DEF Attached, Live, CallsTyped, ThreadPart, StagesMatch, SectionsGuarded, CommitReady

\* An attached instance has the memory of an allocated chunk of its uid.
LEMMA AttachedMemory ==
  ASSUME TypeOK, CallsTyped, ThreadPart, MemoryPart, NEW i \in Attached
  PROVE  /\ inst[i].ptr \in Allocated
         /\ chunk[inst[i].ptr].uid = inst[i].uid /\ chunk[inst[i].ptr].serial = inst[i].serial
BY DEF Attached, ThreadPart, StagesMatch, CommitReady, MemoryPart, MemoryAlive

LEMMA AttachedFrame ==
  ASSUME Live' = Live,
         \A v \in Threads : pc'[v] = "commit" => pc[v] = "commit" /\ iface'[v] = iface[v]
  PROVE  Attached' \subseteq Attached
BY DEF Attached

\* The steps that publish, release or delete nothing keep the books.
LEMMA QuietSteps ==
  ASSUME TypeOK, CallsTyped, ThreadPart, Books, NEW t \in Threads,
         \/ \E u \in Uids, m \in Mode : Open(t, u, m)
         \/ OpenLockMemory(t) \/ OpenRefused(t) \/ OpenFail(t)
         \/ \E i \in Unused : OpenMismatch(t, i)
         \/ \E U \in SUBSET Uids, P \in SUBSET Ptrs : OpenMultipleMismatch(t, U, P)
         \/ \E i \in Instances : Close(t, i)
         \/ List(t) \/ ListDone(t)
  PROVE  Books'
<1> USE DEF TypeOK, Goto, Return, UnlockBoth, locks, memory, owners
<1> DEFINE Small == \/ \E u \in Uids, m \in Mode : Open(t, u, m)
                    \/ OpenLockMemory(t) \/ OpenRefused(t) \/ List(t) \/ ListDone(t)
           Multi == \E U \in SUBSET Uids, P \in SUBSET Ptrs : OpenMultipleMismatch(t, U, P)
<1>1. UNCHANGED <<rwlocks, writer_interfaces, owners>>
  BY DEF Open, OpenLockMemory, OpenRefused, OpenFail, OpenMismatch, OpenMultipleMismatch, Close,
         List, ListDone
<1>2. \A q \in Allocated' : q \in Allocated /\ chunk'[q].serial = chunk[q].serial
  <2>1. CASE chunk' = chunk
    BY <2>1 DEF Allocated
  <2>2. ASSUME NEW U \in SUBSET Uids, NEW P \in SUBSET Ptrs, OpenMultipleMismatch(t, U, P)
        PROVE  \A q \in Allocated' : q \in Allocated /\ chunk'[q].serial = chunk[q].serial
    <3>1. P \in SUBSET Allocated /\ CountReaders(P)
      BY <2>2 DEF OpenMultipleMismatch, Matching
    <3> QED
      BY <3>1, CountedHeaders
  <2> QED
    BY <2>1, <2>2 DEF Open, OpenLockMemory, OpenRefused, OpenFail, OpenMismatch, Close, List, ListDone
<1>3. CASE UNCHANGED <<st, inst>> /\ \A v \in Threads : pc'[v] = "commit" =>
                                         pc[v] = "commit" /\ iface'[v] = iface[v]
  <2>1. Live' = Live /\ Published' = Published
    BY <1>3 DEF Live, Published
  <2>2. Attached' \subseteq Attached
    BY <1>3, <2>1, AttachedFrame
  <2>3. \A i \in Attached \cup Published : inst'[i] = inst[i]
    BY <1>3
  <2> QED
    BY <1>1, <1>2, <2>1, <2>2, <2>3, QuietBooks
<1>4. ASSUME NEW i \in Unused, OpenMismatch(t, i)
      PROVE  Books'
  <2>1. Live' = Live /\ Published' = Published /\ i \notin Published /\ st[i] = "none"
    BY <1>4 DEF OpenMismatch, Live, Published, Unused
  <2>2. Attached' \subseteq Attached
    <3>1. \A v \in Threads : pc'[v] = "commit" => pc[v] = "commit" /\ iface'[v] = iface[v]
      BY <1>4 DEF OpenMismatch
    <3> QED
      BY <2>1, <3>1, AttachedFrame
  <2>3. i \notin Attached
    BY <2>1, AttachedExist DEF Live
  <2>4. \A j \in Attached \cup Published : inst'[j] = inst[j]
    <3>1. \A j \in Instances \ {i} : inst'[j] = inst[j]
      BY <1>4 DEF OpenMismatch
    <3>2. \A j \in Attached \cup Published : j \in Instances
      BY AttachedExist DEF Published
    <3> QED
      BY <2>1, <2>3, <3>1, <3>2
  <2> QED
    BY <1>1, <1>2, <2>1, <2>2, <2>4, QuietBooks
<1>5. ASSUME NEW i \in Instances, Close(t, i)
      PROVE  Books'
  <2>1. Live' = Live /\ Published' = Published
    BY <1>5 DEF Close, Live, Published
  <2>2. Attached' \subseteq Attached
    <3>1. \A v \in Threads : pc'[v] = "commit" => pc[v] = "commit" /\ iface'[v] = iface[v]
      BY <1>5 DEF Close
    <3> QED
      BY <2>1, <3>1, AttachedFrame
  <2>3. \A j \in Attached \cup Published : inst'[j] = inst[j]
    BY <1>5 DEF Close
  <2> QED
    BY <1>1, <1>2, <2>1, <2>2, <2>3, QuietBooks
<1>6. CASE OpenFail(t)
  <2>1. CASE iface[t] = None
    BY <1>3, <1>6, <2>1 DEF OpenFail
  <2>2. CASE iface[t] # None
    <3>1. PICK i \in Instances : i = iface[t] /\ st[i] = "fresh" /\ Destroy(i) /\ mutex = t
      BY <1>6, <2>2 DEF OpenFail, ThreadPart, StagesMatch, SectionsGuarded
    <3>2. Live' = Live /\ Published' = Published /\ i \notin Published /\ i \notin Live
      BY <3>1 DEF Destroy, Live, Published
    <3>3. Attached' \subseteq Attached
      <4>1. \A v \in Threads : pc'[v] = "commit" => pc[v] = "commit" /\ iface'[v] = iface[v]
        BY <1>6 DEF OpenFail
      <4> QED
        BY <3>2, <4>1, AttachedFrame
    <3>4. i \notin Attached
      <4>1. \A v \in Threads : pc[v] = "commit" => v # t
        BY <1>6 DEF OpenFail
      <4> QED
        BY <3>1, <3>2, <4>1, AttachedExist
    <3>5. \A j \in Attached \cup Published : inst'[j] = inst[j]
      <4>1. \A j \in Instances \ {i} : inst'[j] = inst[j]
        BY <3>1 DEF Destroy
      <4>2. \A j \in Attached \cup Published : j \in Instances
        BY AttachedExist DEF Published
      <4> QED
        BY <3>2, <3>4, <4>1, <4>2
    <3> QED
      BY <1>1, <1>2, <3>2, <3>3, <3>5, QuietBooks
  <2> QED
    BY <2>1, <2>2
<1>7. CASE Small \/ Multi
  BY <1>3, <1>7 DEF Open, OpenLockMemory, OpenRefused, List, ListDone, OpenMultipleMismatch
<1> QED
  BY <1>4, <1>5, <1>6, <1>7

\* A new instance takes the memory of a chunk and the lock of its serial.
LEMMA AttachBooks ==
  ASSUME TypeOK, Books, NEW i \in Instances, i \notin Published,
         Live' = Live, Published' = Published, SerialsDistinct',
         \A j \in Attached' : j = i \/ j \in Attached,
         \A j \in Instances \ {i} : inst'[j] = inst[j],
         \A j \in Attached : /\ j \in Instances \ {i}
                             /\ rwlocks'[inst[j].serial] = rwlocks[inst[j].serial],
         inst'[i].lock = rwlocks'[inst'[i].serial],
         UNCHANGED <<writer_interfaces, owners>>
  PROVE  Books'
<1>1. LocksMapped'
  BY DEF Books, LocksMapped
<1>2. \A j \in Published : inst'[j] = inst[j]
  BY DEF Published
<1>3. WritersMapped'
  <2>1. \A j \in Live : inst'[j] = inst[j]
    BY <1>2 DEF Published, Live
  <2> QED
    BY <2>1, WritersFrame DEF Books
<1>4. OwnersAgree' /\ OwnersWrite'
  BY <1>2, OwnersFrame DEF Books
<1> QED
  BY <1>1, <1>3, <1>4 DEF Books

\* An open that finds its chunk shares the chunk's lock.
LEMMA ExistingBooks ==
  ASSUME TypeOK, CallsTyped, ThreadPart, Books, NEW t \in Threads, NEW i \in Unused,
         NEW p \in Ptrs, OpenExisting(t, i, p)
  PROVE  Books'
<1> USE DEF TypeOK, Goto, Return, locks, memory, owners
<1>1. /\ i \in Instances /\ i \notin Published /\ st[i] = "none"
      /\ Live' = Live /\ Published' = Published
  BY DEF OpenExisting, Unused, Live, Published
<1>2. SerialsDistinct' /\ rwlocks' = rwlocks /\ UNCHANGED <<writer_interfaces, owners>>
  BY DEF OpenExisting, Books, SerialsDistinct, Allocated
<1>3. \A j \in Attached' : j = i \/ j \in Attached
  BY <1>1 DEF Attached, OpenExisting
<1>4. \A j \in Instances \ {i} : inst'[j] = inst[j]
  BY DEF OpenExisting
<1>5. \A j \in Attached : j \in Instances \ {i}
  BY <1>1, AttachedExist DEF Live
<1>6. inst'[i].lock = rwlocks'[inst'[i].serial]
  BY <1>1, <1>2 DEF OpenExisting
<1> QED
  BY <1>1, <1>2, <1>3, <1>4, <1>5, <1>6, AttachBooks

\* The serial and the lock of a new chunk belong to no other instance.
LEMMA CreateBooks ==
  ASSUME TypeOK, CallsTyped, ThreadPart, MemoryPart, Books, NEW t \in Threads, NEW i \in Unused,
         NEW p \in Ptrs, NEW l \in Locks, OpenCreate(t, i, p, l)
  PROVE  Books'
<1> USE DEF TypeOK, Goto, Return, locks, memory, owners
<1>1. /\ i \in Instances /\ i \notin Published /\ st[i] = "none"
      /\ Live' = Live /\ Published' = Published
  BY DEF OpenCreate, Unused, Live, Published
<1>2. UNCHANGED <<writer_interfaces, owners>>
  BY DEF OpenCreate
<1>3. \A q \in Allocated : chunk[q].serial # next_mem_serial
  BY SerialIsNew DEF OpenCreate
<1>4. SerialsDistinct'
  <2>1. \A q \in Ptrs \ {p} : chunk'[q] = chunk[q]
    BY DEF OpenCreate
  <2>2. chunk'[p].serial = next_mem_serial
    BY DEF OpenCreate
  <2>3. \A q \in Allocated' : q = p \/ q \in Allocated
    BY <2>1 DEF Allocated
  <2> QED
    BY <1>3, <2>1, <2>2, <2>3 DEF Books, SerialsDistinct, Allocated
<1>5. \A j \in Attached' : j = i \/ j \in Attached
  BY <1>1 DEF Attached, OpenCreate
<1>6. \A j \in Instances \ {i} : inst'[j] = inst[j]
  BY DEF OpenCreate
<1>7. ASSUME NEW j \in Attached
      PROVE  j \in Instances \ {i} /\ rwlocks'[inst[j].serial] = rwlocks[inst[j].serial]
  <2>1. j \in Instances \ {i}
    BY <1>1, AttachedExist DEF Live
  <2>2. inst[j].serial # next_mem_serial
    BY <1>3, AttachedMemory
  <2> QED
    BY <2>1, <2>2 DEF OpenCreate
<1>8. inst'[i].lock = rwlocks'[inst'[i].serial]
  <2>1. inst'[i].lock = l /\ inst'[i].serial = next_mem_serial
    BY <1>1 DEF OpenCreate
  <2>2. rwlocks'[next_mem_serial] = l
    BY DEF OpenCreate
  <2> QED
    BY <2>1, <2>2
<1> QED
  BY <1>1, <1>2, <1>4, <1>5, <1>6, <1>7, <1>8, AttachBooks

\* What the commit of an open does: it publishes one instance of an allocated chunk.
\* An instance that is to write finds no other live writer of its uid.
LEMMA CommitEffect ==
  ASSUME TypeOK, CallsTyped, ThreadPart, MemoryPart, NEW t \in Threads, OpenCommit(t)
  PROVE  \E i \in Instances :
    /\ i = iface[t] /\ st[i] = "fresh"
    /\ inst[i].uid = call[t].uid /\ inst[i].uid \in Uids /\ inst[i].mode = call[t].mode
    /\ i \notin Published /\ i \notin Live
    /\ Live' = Live \cup {i} /\ Published' = Published \cup {i}
    /\ UNCHANGED <<inst, rwlocks>> /\ Allocated' = Allocated
    /\ \A q \in Allocated : chunk'[q].serial = chunk[q].serial
    /\ is_writer(i) => \A j \in Live : is_writer(j) => /\ inst[j].uid # inst[i].uid
                                                       /\ inst[j].ptr # inst[i].ptr
<1> USE DEF TypeOK, Goto, Return
<1>0. PICK i \in Instances, p \in Ptrs : i = iface[t] /\ p = inst[i].ptr /\ CommitReady(t)
  BY DEF CallsTyped, CommitReady, OpenCommit, Allocated, ThreadPart, StagesMatch
<1>1. /\ st[i] = "fresh" /\ chunk[p] \in Header /\ p \in Allocated
      /\ inst[i].uid = call[t].uid /\ inst[i].uid \in Uids /\ inst[i].mode = call[t].mode
      /\ chunk[p].uid = inst[i].uid
  BY <1>0 DEF CommitReady, Allocated, CallsTyped, OpenCommit
<1>2. /\ i \notin Published /\ i \notin Live
      /\ Live' = Live \cup {i} /\ Published' = Published \cup {i}
      /\ UNCHANGED <<inst, rwlocks>>
  BY <1>0, <1>1 DEF OpenCommit, Live, Published
<1>3. Allocated' = Allocated /\ \A q \in Allocated : chunk'[q].serial = chunk[q].serial
  <2>1. \A q \in Ptrs \ {p} : chunk'[q] = chunk[q]
    BY <1>0, <1>1 DEF OpenCommit
  <2>2. chunk'[p] = AddWriter(chunk[p]) \/ chunk'[p] = AddReader(chunk[p])
    BY <1>0, <1>1 DEF OpenCommit
  <2>3. chunk'[p] \in Header /\ chunk'[p].serial = chunk[p].serial
    BY <1>1, <2>2, HeaderOps
  <2> QED
    BY <1>1, <2>1, <2>3 DEF Allocated
<1>4. ASSUME is_writer(i), NEW j \in Live, is_writer(j)
      PROVE  inst[j].uid # inst[i].uid /\ inst[j].ptr # inst[i].ptr
  <2>1. chunk[p].writer # 1
    BY <1>0, <1>1, <1>4 DEF CommitReady, WriterActive, is_writer
  <2>2. chunk[inst[j].ptr].writer = 1 /\ inst[j].ptr \in Allocated
        /\ chunk[inst[j].ptr].uid = inst[j].uid
    BY <1>4 DEF MemoryPart, MemoryAlive, WritersFlagged
  <2> QED
    BY <1>0, <1>1, <2>1, <2>2 DEF MemoryPart, ChunksDistinct
<1> QED
  BY <1>0, <1>1, <1>2, <1>3, <1>4

\* The commit of an open enters the instance into the maps of writers and owners.
LEMMA CommitBooks ==
  ASSUME TypeOK, CallsTyped, ThreadPart, MemoryPart, Books, NEW t \in Threads, OpenCommit(t)
  PROVE  Books'
<1> USE DEF TypeOK, Goto, Return
<1>0. PICK i \in Instances :
    /\ i = iface[t] /\ st[i] = "fresh"
    /\ inst[i].uid = call[t].uid /\ inst[i].uid \in Uids /\ inst[i].mode = call[t].mode
    /\ i \notin Published /\ i \notin Live
    /\ Live' = Live \cup {i} /\ Published' = Published \cup {i}
    /\ UNCHANGED <<inst, rwlocks>> /\ Allocated' = Allocated
    /\ \A q \in Allocated : chunk'[q].serial = chunk[q].serial
    /\ is_writer(i) => \A j \in Live : is_writer(j) => /\ inst[j].uid # inst[i].uid
                                                       /\ inst[j].ptr # inst[i].ptr
  BY CommitEffect
<1> DEFINE u == inst[i].uid
           s == inst[i].serial
<1>1. i \in Attached
  BY <1>0 DEF Attached, OpenCommit
<1>2. SerialsDistinct'
  BY <1>0, SerialsFrame DEF Books
<1>3. LocksMapped'
  <2>1. \A j \in Attached' : j \in Attached
    BY <1>0, <1>1 DEF Attached, OpenCommit
  <2> QED
    BY <1>0, <2>1, LocksFrame DEF Books
<1>4. s \in Serials
  BY AttachedMemory, <1>1 DEF Header, Allocated
<1>5. \A j \in Instances : is_writer(j)' <=> is_writer(j)
  BY <1>0 DEF is_writer
<1>6. is_writer(i) => \A j \in Live : is_writer(j) => inst[j].serial # s
  <2>1. ASSUME is_writer(i), NEW j \in Live, is_writer(j) PROVE inst[j].serial # s
    <3>1. j \in Attached
      BY DEF Attached
    <3>2. inst[j].ptr # inst[i].ptr
      BY <1>0, <2>1
    <3> QED
      BY <1>1, <3>1, <3>2, AttachedMemory DEF Books, SerialsDistinct
  <2> QED
    BY <2>1
<1>7. Published = {j \in Instances : st[j] \in {"open", "closing", "closed"}}
      /\ Published' = {j \in Instances : st'[j] \in {"open", "closing", "closed"}}
      /\ Live \subseteq Published
  BY DEF Published, Live
<1>A. CASE is_writer(i)
  <2>1. /\ owner_writer' = [owner_writer EXCEPT ![u] = i]
        /\ writer_interfaces' = [writer_interfaces EXCEPT ![s] = i]
        /\ owner_readers' = owner_readers
    BY <1>0, <1>A DEF OpenCommit, is_writer
  <2>2. WritersMapped'
    <3>1. ASSUME NEW r \in Serials, NEW j \in Instances
          PROVE  writer_interfaces'[r] = j <=> j \in Live' /\ is_writer(j)' /\ inst'[j].serial = r
      <4>1. writer_interfaces[r] = j <=> j \in Live /\ is_writer(j) /\ inst[j].serial = r
        BY DEF Books, WritersMapped
      <4>2. writer_interfaces[r] = i => i \in Live
        BY DEF Books, WritersMapped
      <4> QED
        BY <1>0, <1>4, <1>5, <1>6, <1>A, <2>1, <4>1, <4>2
    <3> QED
      BY <3>1 DEF WritersMapped
  <2>3. OwnersWrite'
    BY <1>0, <1>5, <1>7, <1>A, <2>1 DEF Books, OwnersWrite
  <2>4. OwnersAgree'
    <3>1. ASSUME NEW v \in Uids
          PROVE  owner_readers'[v] = {j \in Instances : /\ st'[j] \in {"open", "closing", "closed"}
                                                       /\ inst'[j].uid = v /\ ~is_writer(j)'}
      <4>1. owner_readers[v] = {j \in Instances : /\ st[j] \in {"open", "closing", "closed"}
                                                  /\ inst[j].uid = v /\ ~is_writer(j)}
        BY DEF Books, OwnersAgree
      <4> QED
        BY <1>0, <1>5, <1>7, <1>A, <2>1, <4>1
    <3>2. ASSUME NEW v \in Uids, owner_writer'[v] # None
          PROVE  st'[owner_writer'[v]] # "none" /\ inst'[owner_writer'[v]].uid = v
      <4>1. CASE v = u
        BY <1>0, <1>7, <2>1, <4>1
      <4>2. CASE v # u
        <5>1. owner_writer'[v] = owner_writer[v] /\ owner_writer[v] \in Instances
          BY <2>1, <3>2, <4>2
        <5>2. inst[owner_writer[v]].uid = v /\ owner_writer[v] \in Published
          BY <3>2, <5>1 DEF Books, OwnersAgree, OwnersWrite, Published
        <5> QED
          BY <1>0, <1>7, <5>1, <5>2
      <4> QED
        BY <4>1, <4>2
    <3>3. ASSUME NEW v \in Uids, NEW j \in Live', inst'[j].uid = v, is_writer(j)'
          PROVE  owner_writer'[v] = j
      BY <1>0, <1>5, <1>7, <1>A, <2>1, <3>3 DEF Books, OwnersAgree
    <3> QED
      BY <3>1, <3>2, <3>3 DEF OwnersAgree
  <2> QED
    BY <1>2, <1>3, <2>2, <2>3, <2>4 DEF Books
<1>B. CASE ~is_writer(i)
  <2>1. /\ owner_readers' = [owner_readers EXCEPT ![u] = @ \cup {i}]
        /\ writer_interfaces' = writer_interfaces /\ owner_writer' = owner_writer
    BY <1>0, <1>B DEF OpenCommit, is_writer
  <2>2. WritersMapped'
    <3>1. ASSUME NEW r \in Serials, NEW j \in Instances
          PROVE  writer_interfaces'[r] = j <=> j \in Live' /\ is_writer(j)' /\ inst'[j].serial = r
      <4>1. writer_interfaces[r] = j <=> j \in Live /\ is_writer(j) /\ inst[j].serial = r
        BY DEF Books, WritersMapped
      <4> QED
        BY <1>0, <1>5, <1>B, <2>1, <4>1
    <3> QED
      BY <3>1 DEF WritersMapped
  <2>3. OwnersWrite'
    BY <1>0, <1>5, <1>7, <1>B, <2>1 DEF Books, OwnersWrite
  <2>4. OwnersAgree'
    <3>1. ASSUME NEW v \in Uids
          PROVE  owner_readers'[v] = {j \in Instances : /\ st'[j] \in {"open", "closing", "closed"}
                                                       /\ inst'[j].uid = v /\ ~is_writer(j)'}
      <4>1. owner_readers[v] = {j \in Instances : /\ st[j] \in {"open", "closing", "closed"}
                                                  /\ inst[j].uid = v /\ ~is_writer(j)}
        BY DEF Books, OwnersAgree
      <4>2. owner_readers'[v] = IF v = u THEN owner_readers[v] \cup {i} ELSE owner_readers[v]
        BY <1>0, <2>1
      <4> QED
        BY <1>0, <1>5, <1>7, <1>B, <4>1, <4>2
    <3>2. ASSUME NEW v \in Uids, owner_writer'[v] # None
          PROVE  st'[owner_writer'[v]] # "none" /\ inst'[owner_writer'[v]].uid = v
      <4>1. inst[owner_writer[v]].uid = v /\ owner_writer[v] \in Published
        BY <2>1, <3>2 DEF Books, OwnersAgree, OwnersWrite, Published
      <4> QED
        BY <1>0, <1>7, <2>1, <4>1
    <3>3. ASSUME NEW v \in Uids, NEW j \in Live', inst'[j].uid = v, is_writer(j)'
          PROVE  owner_writer'[v] = j
      BY <1>0, <1>5, <1>7, <1>B, <2>1, <3>3 DEF Books, OwnersAgree
    <3> QED
      BY <3>1, <3>2, <3>3 DEF OwnersAgree
  <2> QED
    BY <1>2, <1>3, <2>2, <2>3, <2>4 DEF Books
<1> QED
  BY <1>A, <1>B

\* open_multiple_for_reading() enters its instances as readers that share their locks.
LEMMA MultipleBooks ==
  ASSUME TypeOK, CallsTyped, ThreadPart, Books, NEW t \in Threads, NEW U \in SUBSET Uids,
         NEW f \in [Matching(U) -> Unused], OpenMultiple(t, U, f)
  PROVE  Books'
<1> DEFINE N == {f[p] : p \in Matching(U)}
<1>1. /\ Live' = Live \cup N
      /\ \A i \in Instances \ N : inst'[i] = inst[i] /\ st'[i] = st[i]
      /\ \A p \in Matching(U) :
           /\ f[p] \in Instances /\ st[f[p]] = "none" /\ st'[f[p]] = "open"
           /\ inst'[f[p]] = [uid |-> chunk[p].uid, mode |-> "read", ptr |-> p,
                             serial |-> chunk[p].serial, lock |-> rwlocks[chunk[p].serial]]
  <2>1. MultipleDid(U, f)
    BY MultipleEffect
  <2> QED
    BY <2>1 DEF MultipleDid
<1> USE DEF TypeOK, locks
<1>2. ASSUME NEW i \in N
      PROVE  /\ i \in Instances /\ st[i] = "none" /\ st'[i] = "open"
             /\ ~is_writer(i)' /\ inst'[i].lock = rwlocks[inst'[i].serial]
  <2>1. PICK p \in Matching(U) : i = f[p]
    OBVIOUS
  <2>2. /\ f[p] \in Instances /\ st[f[p]] = "none" /\ st'[f[p]] = "open"
        /\ inst'[f[p]] = [uid |-> chunk[p].uid, mode |-> "read", ptr |-> p,
                          serial |-> chunk[p].serial, lock |-> rwlocks[chunk[p].serial]]
    BY <1>1, Zenon
  <2> QED
    BY <2>1, <2>2 DEF is_writer
<1>3. UNCHANGED <<rwlocks, writer_interfaces, owner_writer, pc, iface>>
  BY DEF OpenMultiple
<1>4. SerialsDistinct'
  <2>1. Matching(U) \in SUBSET Allocated /\ CountReaders(Matching(U))
    BY DEF OpenMultiple, Matching
  <2> QED
    BY <2>1, CountedHeaders, SerialsFrame DEF Books
<1>5. \A v \in Threads : pc[v] # "commit"
  BY DEF OpenMultiple, ThreadPart, SectionsGuarded
<1>6. ASSUME NEW u \in Uids
      PROVE  owner_readers'[u] = owner_readers[u] \cup {i \in N : inst'[i].uid = u}
  <2>1. owner_readers'[u] = owner_readers[u] \cup
                            {f[p] : p \in {q \in Matching(U) : chunk[q].uid = u}}
    BY DEF OpenMultiple
  <2>2. \A p \in Matching(U) : inst'[f[p]].uid = chunk[p].uid
    <3>1. ASSUME NEW p \in Matching(U) PROVE inst'[f[p]].uid = chunk[p].uid
      <4>1. inst'[f[p]] = [uid |-> chunk[p].uid, mode |-> "read", ptr |-> p,
                          serial |-> chunk[p].serial, lock |-> rwlocks[chunk[p].serial]]
        BY <1>1, Zenon
      <4> QED
        BY <4>1
    <3> QED
      BY <3>1
  <2>3. {f[p] : p \in {q \in Matching(U) : chunk[q].uid = u}} = {i \in N : inst'[i].uid = u}
    BY <2>2
  <2> QED
    BY <2>1, <2>3
<1> HIDE DEF N
<1>7. Live \subseteq Instances /\ Live \cap N = {} /\ Live \subseteq Published
  BY <1>2 DEF Live, Published
<1>8. /\ Published = {j \in Instances : st[j] \in {"open", "closing", "closed"}}
      /\ Published' = {j \in Instances : st'[j] \in {"open", "closing", "closed"}}
      /\ Published' = Published \cup N /\ Published \cap N = {}
  BY <1>1, <1>2 DEF Published
<1>9. \A j \in Published : inst'[j] = inst[j] /\ (is_writer(j)' <=> is_writer(j))
  BY <1>1, <1>8 DEF is_writer
<1>10. LocksMapped'
  <2>1. Attached = Live /\ Attached' = Live'
    BY <1>3, <1>5 DEF Attached
  <2> QED
    BY <1>1, <1>2, <1>3, <1>7, <1>9, <2>1 DEF Books, LocksMapped
<1>11. WritersMapped'
  <2>1. ASSUME NEW r \in Serials, NEW j \in Instances
        PROVE  writer_interfaces'[r] = j <=> j \in Live' /\ is_writer(j)' /\ inst'[j].serial = r
    <3>1. writer_interfaces[r] = j <=> j \in Live /\ is_writer(j) /\ inst[j].serial = r
      BY DEF Books, WritersMapped
    <3> QED
      BY <1>1, <1>2, <1>3, <1>7, <1>9, <3>1
  <2> QED
    BY <2>1 DEF WritersMapped
<1>12. OwnersWrite'
  BY <1>3, <1>8, <1>9 DEF Books, OwnersWrite
<1>13. OwnersAgree'
  <2>1. ASSUME NEW v \in Uids
        PROVE  owner_readers'[v] = {j \in Instances : /\ st'[j] \in {"open", "closing", "closed"}
                                                     /\ inst'[j].uid = v /\ ~is_writer(j)'}
    <3>1. owner_readers[v] = {j \in Instances : /\ st[j] \in {"open", "closing", "closed"}
                                                /\ inst[j].uid = v /\ ~is_writer(j)}
      BY DEF Books, OwnersAgree
    <3>2. owner_readers[v] = {j \in Published : inst[j].uid = v /\ ~is_writer(j)}
      BY <1>8, <3>1
    <3>3. owner_readers'[v] = {j \in Published' : inst'[j].uid = v /\ ~is_writer(j)'}
      BY <1>2, <1>6, <1>8, <1>9, <3>2
    <3> QED
      BY <1>8, <3>3
  <2>2. ASSUME NEW v \in Uids, owner_writer'[v] # None
        PROVE  st'[owner_writer'[v]] # "none" /\ inst'[owner_writer'[v]].uid = v
    <3>1. inst[owner_writer[v]].uid = v /\ owner_writer[v] \in Published
      BY <1>3, <2>2 DEF Books, OwnersAgree, OwnersWrite, Published
    <3> QED
      BY <1>3, <1>8, <1>9, <3>1
  <2>3. ASSUME NEW v \in Uids, NEW j \in Live', inst'[j].uid = v, is_writer(j)'
        PROVE  owner_writer'[v] = j
    BY <1>1, <1>2, <1>3, <1>7, <1>9, <2>3 DEF Books, OwnersAgree
  <2> QED
    BY <2>1, <2>2, <2>3 DEF OwnersAgree
<1> QED
  BY <1>4, <1>10, <1>11, <1>12, <1>13 DEF Books

\* What the release of a chunk does: it takes one live instance out of service.
LEMMA ReleaseEffect ==
  ASSUME TypeOK, CallsTyped, ThreadPart, MemoryPart, NEW t \in Threads, CloseRelease(t)
  PROVE  \E i \in Live, p \in Allocated :
    /\ i = iface[t] /\ p = inst[i].ptr /\ chunk[p] \in Header
    /\ Live' = Live \ {i} /\ Published' = Published /\ inst' = inst
    /\ Allocated' = IF chunk[p].refcount - 1 = 0 THEN Allocated \ {p} ELSE Allocated
    /\ \A q \in Allocated \ {p} : chunk'[q] = chunk[q]
    /\ p \in Allocated' => chunk'[p] = IF is_writer(i) THEN DropWriter(chunk[p])
                                                       ELSE DropReader(chunk[p])
<1> USE DEF TypeOK
<1>0. PICK i \in Live, p \in Allocated : i = iface[t] /\ p = inst[i].ptr /\ st[i] = "closing"
  BY DEF CallsTyped, CloseRelease, MemoryPart, MemoryAlive, Live, ThreadPart, StagesMatch
<1>1. chunk[p] \in Header /\ p \in Ptrs /\ i \in Instances
  BY DEF Allocated, Live
<1>2. Live' = Live \ {i} /\ Published' = Published /\ inst' = inst
  BY <1>0, <1>1 DEF CloseRelease, Live, Published
<1>3. \A q \in Ptrs \ {p} : chunk'[q] = chunk[q]
  BY <1>0 DEF CloseRelease
<1>A. CASE chunk[p].refcount - 1 = 0
  <2>1. chunk'[p] = None /\ Allocated' = Allocated \ {p}
    BY <1>0, <1>1, <1>3, <1>A DEF CloseRelease, Allocated
  <2> QED
    BY <1>0, <1>1, <1>2, <1>3, <1>A, <2>1 DEF Allocated
<1>B. CASE chunk[p].refcount - 1 # 0
  <2>1. chunk'[p] = IF is_writer(i) THEN DropWriter(chunk[p]) ELSE DropReader(chunk[p])
    BY <1>0, <1>1, <1>B DEF CloseRelease
  <2>2. chunk'[p] \in Header
    BY <1>1, <2>1, HeaderOps
  <2>3. Allocated' = Allocated
    BY <1>1, <1>3, <2>2 DEF Allocated
  <2> QED
    BY <1>0, <1>1, <1>2, <1>3, <1>B, <2>1, <2>3 DEF Allocated
<1> QED
  BY <1>A, <1>B

\* close() takes a writer out of the map of writers together with its chunk.
LEMMA ReleaseBooks ==
  ASSUME TypeOK, CallsTyped, ThreadPart, MemoryPart, Books, NEW t \in Threads, CloseRelease(t)
  PROVE  Books'
<1> USE DEF TypeOK, owners, Goto
<1>0. PICK i \in Live, p \in Allocated :
    /\ i = iface[t] /\ p = inst[i].ptr /\ chunk[p] \in Header
    /\ Live' = Live \ {i} /\ Published' = Published /\ inst' = inst
    /\ Allocated' = IF chunk[p].refcount - 1 = 0 THEN Allocated \ {p} ELSE Allocated
    /\ \A q \in Allocated \ {p} : chunk'[q] = chunk[q]
    /\ p \in Allocated' => chunk'[p] = IF is_writer(i) THEN DropWriter(chunk[p])
                                                       ELSE DropReader(chunk[p])
  BY ReleaseEffect
<1>1. SerialsDistinct'
  <2>1. p \in Allocated' => chunk'[p].serial = chunk[p].serial
    BY <1>0, HeaderOps
  <2>2. \A q \in Allocated' : q \in Allocated /\ chunk'[q].serial = chunk[q].serial
    BY <1>0, <2>1
  <2> QED
    BY <2>2, SerialsFrame DEF Books
<1>2. rwlocks' = rwlocks /\ UNCHANGED owners
  BY DEF CloseRelease
<1>3. LocksMapped'
  <2>1. \A j \in Attached' : j \in Attached
    BY <1>0 DEF Attached, CloseRelease
  <2> QED
    BY <1>0, <1>2, <2>1, LocksFrame DEF Books
<1>4. OwnersAgree' /\ OwnersWrite'
  BY <1>0, <1>2, OwnersFrame DEF Books
<1>5. \A j \in Instances : is_writer(j)' <=> is_writer(j)
  BY <1>0 DEF is_writer
<1>6. i \in Instances
  BY DEF Live
<1>7. WritersMapped'
  <2>1. ASSUME NEW r \in Serials, NEW j \in Instances
        PROVE  writer_interfaces'[r] = j <=> j \in Live' /\ is_writer(j)' /\ inst'[j].serial = r
    <3>1. /\ writer_interfaces[r] = j <=> j \in Live /\ is_writer(j) /\ inst[j].serial = r
          /\ writer_interfaces[r] = i <=> i \in Live /\ is_writer(i) /\ inst[i].serial = r
      BY <1>6 DEF Books, WritersMapped
    <3>2. j # None
      OBVIOUS
    <3>3. CASE is_writer(i)
      <4>1. writer_interfaces' = [writer_interfaces EXCEPT ![inst[i].serial] = None]
        BY <1>0, <3>3 DEF CloseRelease
      <4>2. CASE inst[i].serial = r
        <5>1. writer_interfaces'[r] = None /\ writer_interfaces[r] = i
          BY <3>1, <3>3, <4>1, <4>2
        <5> QED
          BY <1>0, <1>5, <3>1, <3>2, <5>1
      <4>3. CASE inst[i].serial # r
        <5>1. writer_interfaces'[r] = writer_interfaces[r]
          BY <4>1, <4>3
        <5> QED
          BY <1>0, <1>5, <3>1, <4>3, <5>1
      <4> QED
        BY <4>2, <4>3
    <3>4. CASE ~is_writer(i)
      <4>1. writer_interfaces' = writer_interfaces
        BY <1>0, <3>4 DEF CloseRelease
      <4> QED
        BY <1>0, <1>5, <3>1, <3>4, <4>1
    <3> QED
      BY <3>3, <3>4
  <2> QED
    BY <2>1 DEF WritersMapped
<1> QED
  BY <1>1, <1>3, <1>4, <1>7 DEF Books

\* A late delete takes its own instance out of owner_info_ and leaves a new writer there.
LEMMA DeleteBooks ==
  ASSUME TypeOK, CallsTyped, ThreadPart, Books, NEW t \in Threads, CloseDelete(t)
  PROVE  Books'
<1> USE DEF TypeOK, Goto, Return
<1>0. PICK i \in Instances : i = iface[t] /\ st[i] = "closed"
  BY DEF CallsTyped, CloseDelete, ThreadPart, StagesMatch
<1>1. /\ Live' = Live /\ i \notin Live /\ Published' = Published \ {i} /\ i \in Published
      /\ \A j \in Instances \ {i} : inst'[j] = inst[j]
      /\ UNCHANGED <<chunk, rwlocks, writer_interfaces>> /\ ForgetOwner(i)
  BY <1>0 DEF CloseDelete, Destroy, Live, Published
<1>2. SerialsDistinct'
  BY <1>1 DEF Books, SerialsDistinct, Allocated
<1>3. LocksMapped'
  <2>1. \A j \in Attached' : j \in Attached
    BY <1>1 DEF Attached, CloseDelete
  <2>2. \A j \in Attached : j \in Instances \ {i}
    BY <1>0, <1>1, AttachedExist
  <2> QED
    BY <1>1, <2>1, <2>2, LocksFrame DEF Books
<1>4. WritersMapped'
  <2>1. \A j \in Live : inst'[j] = inst[j]
    BY <1>1 DEF Live
  <2> QED
    BY <1>1, <2>1, WritersFrame DEF Books
<1>5. /\ Published = {j \in Instances : st[j] \in {"open", "closing", "closed"}}
      /\ Published' = {j \in Instances : st'[j] \in {"open", "closing", "closed"}}
      /\ Live \subseteq Published
  BY DEF Published, Live
<1>6. \A j \in Published' : inst'[j] = inst[j] /\ (is_writer(j)' <=> is_writer(j))
  BY <1>1, <1>5 DEF is_writer
<1>7. \A v \in Uids : owner_readers[v] = {j \in Published : inst[j].uid = v /\ ~is_writer(j)}
  <2>1. ASSUME NEW v \in Uids
        PROVE  owner_readers[v] = {j \in Published : inst[j].uid = v /\ ~is_writer(j)}
    <3>1. owner_readers[v] = {j \in Instances : /\ st[j] \in {"open", "closing", "closed"}
                                                /\ inst[j].uid = v /\ ~is_writer(j)}
      BY DEF Books, OwnersAgree
    <3> QED
      BY <1>5, <3>1
  <2> QED
    BY <2>1
<1>8. \A v \in Uids : owner_writer[v] # None => /\ inst[owner_writer[v]].uid = v
                                                /\ owner_writer[v] \in Published
                                                /\ is_writer(owner_writer[v])
  BY <1>5 DEF Books, OwnersAgree, OwnersWrite
<1>9. \A v \in Uids : owner_writer'[v] = IF owner_writer[v] = i THEN None ELSE owner_writer[v]
  <2>1. ASSUME NEW v \in Uids
        PROVE  owner_writer'[v] = IF owner_writer[v] = i THEN None ELSE owner_writer[v]
    <3>1. owner_writer[v] = i => is_writer(i) /\ inst[i].uid = v
      BY <1>8
    <3> QED
      BY <1>1, <3>1 DEF ForgetOwner
  <2> QED
    BY <2>1
<1>10. \A v \in Uids : owner_readers'[v] = owner_readers[v] \ {i}
  <2>1. ASSUME NEW v \in Uids
        PROVE  owner_readers'[v] = owner_readers[v] \ {i}
    <3>1. i \in owner_readers[v] => ~is_writer(i) /\ inst[i].uid = v
      BY <1>7
    <3>2. CASE is_writer(i)
      <4>1. owner_readers' = owner_readers
        BY <1>1, <3>2 DEF ForgetOwner
      <4> QED
        BY <3>1, <3>2, <4>1
    <3>3. CASE ~is_writer(i)
      <4>1. owner_readers' = [owner_readers EXCEPT ![inst[i].uid] = @ \ {i}]
        BY <1>1, <3>3 DEF ForgetOwner
      <4>2. CASE inst[i].uid = v
        BY <4>1, <4>2
      <4>3. CASE inst[i].uid # v
        <5>1. owner_readers'[v] = owner_readers[v]
          BY <4>1, <4>3
        <5> QED
          BY <3>1, <4>3, <5>1
      <4> QED
        BY <4>2, <4>3
    <3> QED
      BY <3>2, <3>3
  <2> QED
    BY <2>1
<1>11. OwnersWrite'
  <2>1. ASSUME NEW v \in Uids, owner_writer'[v] # None
        PROVE  st'[owner_writer'[v]] \in {"open", "closing", "closed"} /\ is_writer(owner_writer[v])'
    <3>1. owner_writer'[v] = owner_writer[v] /\ owner_writer[v] \in Published'
      BY <1>1, <1>8, <1>9, <2>1
    <3> QED
      BY <1>5, <1>6, <1>8, <2>1, <3>1
  <2> QED
    BY <2>1 DEF OwnersWrite
<1>12. OwnersAgree'
  <2>1. ASSUME NEW v \in Uids
        PROVE  owner_readers'[v] = {j \in Instances : /\ st'[j] \in {"open", "closing", "closed"}
                                                     /\ inst'[j].uid = v /\ ~is_writer(j)'}
    <3>1. owner_readers'[v] = {j \in Published' : inst'[j].uid = v /\ ~is_writer(j)'}
      BY <1>1, <1>6, <1>7, <1>10
    <3> QED
      BY <1>5, <3>1
  <2>2. ASSUME NEW v \in Uids, owner_writer'[v] # None
        PROVE  st'[owner_writer'[v]] # "none" /\ inst'[owner_writer'[v]].uid = v
    <3>1. owner_writer'[v] = owner_writer[v] /\ owner_writer[v] \in Published'
      BY <1>1, <1>8, <1>9, <2>2
    <3> QED
      BY <1>5, <1>6, <1>8, <2>2, <3>1
  <2>3. ASSUME NEW v \in Uids, NEW j \in Live', inst'[j].uid = v, is_writer(j)'
        PROVE  owner_writer'[v] = j
    <3>1. owner_writer[v] = j
      BY <1>1, <1>5, <1>6, <2>3 DEF Books, OwnersAgree
    <3> QED
      BY <1>1, <1>9, <2>3, <3>1
  <2> QED
    BY <2>1, <2>2, <2>3 DEF OwnersAgree
<1> QED
  BY <1>2, <1>3, <1>4, <1>11, <1>12 DEF Books
-----------------------------------------------------------------------------
(* The counters of the headers                                             *)

\* What the counting operations do to the number of readers and to the flag.
LEMMA ReaderOps ==
  ASSUME NEW h \in Header
  PROVE  /\ AddReader(h).readers = h.readers + 1 /\ DropReader(h).readers = h.readers - 1
         /\ AddWriter(h).readers = h.readers /\ DropWriter(h).readers = h.readers
         /\ DropWriter(h).writer = 0
<1>1. DOMAIN h = {"uid", "writer", "readers", "refcount", "serial"}
  BY DEF Header
<1> QED
  BY <1>1 DEF AddReader, AddWriter, DropReader, DropWriter

\* the header of p describes its users, or p was made for the open under way
Exact(p) ==
  /\ chunk[p].refcount = Cardinality(Users(p))
  /\ chunk[p].readers = Cardinality(Readers(p))
  /\ chunk[p].writer = 1 => \E i \in Users(p) : is_writer(i)
  /\ Users(p) = {} => \E t \in Threads : pc[t] = "commit" /\ inst[iface[t]].ptr = p

\* A chunk whose users and counters a step leaves alone stays exact.
LEMMA ExactFrame ==
  ASSUME NEW p, Exact(p), Users(p)' = Users(p), chunk'[p] = chunk[p],
         \A i \in Users(p) : inst'[i] = inst[i],
         Users(p) # {} \/ \A v \in Threads : pc[v] = "commit" =>
           pc'[v] = "commit" /\ inst'[iface'[v]].ptr = inst[iface[v]].ptr
  PROVE  Exact(p)'
<1>1. Readers(p)' = Readers(p)
  BY DEF Readers, is_writer
<1> QED
  BY <1>1 DEF Exact, is_writer

\* Steps that leave all headers and live instances alone.
LEMMA HeadersFrame ==
  ASSUME HeadersCount, chunk' = chunk, Live' = Live, \A i \in Live : inst'[i] = inst[i],
         \A v \in Threads : pc[v] = "commit" =>
           pc'[v] = "commit" /\ inst'[iface'[v]].ptr = inst[iface[v]].ptr,
         miscounted' = miscounted
  PROVE  HeadersCount'
<1>1. Allocated' = Allocated /\ \A p : Users(p)' = Users(p)
  BY DEF Allocated, Users
<1>2. ASSUME NEW p \in Allocated \ miscounted PROVE Exact(p)'
  <2>1. \A i \in Users(p) : inst'[i] = inst[i]
    BY DEF Users
  <2>2. Exact(p) /\ chunk'[p] = chunk[p]
    BY DEF HeadersCount, Exact
  <2>3. Users(p)' = Users(p)
    BY <1>1
  <2> QED
    BY <2>1, <2>2, <2>3, ExactFrame
<1> QED
  BY <1>1, <1>2 DEF HeadersCount, Exact

LEMMA HeadersQuiet ==
  ASSUME TypeOK, CallsTyped, ThreadPart, HeadersCount, NEW t \in Threads,
         \/ \E u \in Uids, m \in Mode : Open(t, u, m)
         \/ OpenLockMemory(t) \/ OpenRefused(t) \/ OpenFail(t)
         \/ \E i \in Unused : OpenMismatch(t, i)
         \/ \E i \in Unused, p \in Ptrs : OpenExisting(t, i, p)
         \/ \E i \in Instances : Close(t, i)
         \/ CloseDelete(t) \/ List(t) \/ ListDone(t)
  PROVE  HeadersCount'
<1> USE DEF TypeOK, Goto, Return, UnlockBoth, locks, memory, owners
<1>1. chunk' = chunk /\ miscounted' = miscounted
  BY DEF Open, OpenLockMemory, OpenRefused, OpenFail, OpenMismatch, OpenExisting, Close,
         CloseDelete, List, ListDone
<1>2. ASSUME NEW v \in Threads, pc[v] = "commit"
      PROVE  v # t /\ pc'[v] = "commit" /\ iface'[v] = iface[v] /\ mutex = v
             /\ iface[v] \in Instances /\ st[iface[v]] = "fresh"
  BY <1>2 DEF Open, OpenLockMemory, OpenRefused, OpenFail, OpenMismatch, OpenExisting, Close,
         CloseDelete, List, ListDone, CallsTyped, ThreadPart, SectionsGuarded, StagesMatch, CommitReady
<1>3. CASE UNCHANGED <<st, inst>>
  BY <1>1, <1>2, <1>3, HeadersFrame DEF Live
<1>4. ASSUME NEW i \in Instances, st[i] \notin {"open", "closing"},
             st[i] = "fresh" => mutex = t,
             st'[i] \notin {"open", "closing"},
             \A j \in Instances \ {i} : st'[j] = st[j] /\ inst'[j] = inst[j]
      PROVE  HeadersCount'
  <2>1. Live' = Live /\ \A j \in Live : inst'[j] = inst[j]
    BY <1>4 DEF Live
  <2>2. \A v \in Threads : pc[v] = "commit" =>
           pc'[v] = "commit" /\ inst'[iface'[v]].ptr = inst[iface[v]].ptr
    BY <1>2, <1>4
  <2> QED
    BY <1>1, <2>1, <2>2, HeadersFrame
<1>5. ASSUME NEW i \in Unused, OpenMismatch(t, i) PROVE HeadersCount'
  BY <1>4, <1>5 DEF OpenMismatch, Unused
<1>6. ASSUME NEW i \in Unused, NEW p \in Ptrs, OpenExisting(t, i, p) PROVE HeadersCount'
  BY <1>4, <1>6 DEF OpenExisting, Unused
<1>7. ASSUME NEW i \in Instances, Close(t, i) PROVE HeadersCount'
  <2>1. Live' = Live /\ inst' = inst
    BY <1>7 DEF Live, Close
  <2> QED
    BY <1>1, <1>2, <2>1, HeadersFrame
<1>8. CASE OpenFail(t)
  <2>1. CASE iface[t] = None
    BY <1>3, <1>8, <2>1 DEF OpenFail
  <2>2. CASE iface[t] # None
    BY <1>4, <1>8, <2>2 DEF OpenFail, Destroy, ThreadPart, SectionsGuarded, StagesMatch
  <2> QED
    BY <2>1, <2>2
<1>9. CASE CloseDelete(t)
  BY <1>4, <1>9 DEF CloseDelete, Destroy, CallsTyped, ThreadPart, StagesMatch
<1> QED
  BY <1>3, <1>5, <1>6, <1>7, <1>8, <1>9 DEF Open, OpenLockMemory, OpenRefused, List, ListDone

\* The instances of a chunk that only read can be counted.
LEMMA ReadersCount ==
  ASSUME NEW p
  PROVE  IsFiniteSet(Readers(p)) /\ Cardinality(Readers(p)) \in Nat
<1>1. Readers(p) \subseteq Instances
  BY DEF Readers, Users, Live
<1> QED
  BY <1>1, FS_Subset, FS_CardinalityType

\* A new chunk has no users: its thread is about to become the first.
LEMMA HeadersCreate ==
  ASSUME TypeOK, CallsTyped, ThreadPart, MemoryPart, HeadersCount, NEW t \in Threads,
         NEW i \in Unused, NEW p \in Ptrs, NEW l \in Locks, OpenCreate(t, i, p, l)
  PROVE  HeadersCount'
<1> USE DEF TypeOK, Goto, locks
<1>1. Live' = Live /\ i \notin Live /\ i \in Instances /\ st[i] = "none"
  BY DEF OpenCreate, Live, Unused
<1>2. \A j \in Instances \ {i} : inst'[j] = inst[j]
  BY DEF OpenCreate
<1>3. \A j \in Live : j \in Instances \ {i}
  BY <1>1 DEF Live
<1>4. \A q : Users(q)' = Users(q)
  BY <1>1, <1>2, <1>3 DEF Users
<1>5. Users(p) = {} /\ Readers(p)' = {}
  <2>1. \A j \in Live : inst[j].ptr # p
    BY DEF OpenCreate, MemoryPart, MemoryAlive, Allocated
  <2>2. Users(p) = {}
    BY <2>1 DEF Users
  <2> QED
    BY <1>4, <2>2 DEF Readers
<1>6. Exact(p)'
  <2>1. chunk'[p].refcount = 0 /\ chunk'[p].readers = 0 /\ chunk'[p].writer = 0
    BY DEF OpenCreate
  <2>2. pc'[t] = "commit" /\ inst'[iface'[t]].ptr = p
    BY <1>1 DEF OpenCreate
  <2>3. Users(p)' = {} /\ Cardinality({}) = 0
    BY <1>4, <1>5, FS_EmptySet
  <2> QED
    BY <1>5, <2>1, <2>2, <2>3 DEF Exact
<1>7. ASSUME NEW q \in Allocated \ {p}, q \notin miscounted PROVE Exact(q)'
  <2>1. Exact(q) /\ chunk'[q] = chunk[q]
    BY <1>7 DEF HeadersCount, Exact, OpenCreate, Allocated
  <2>2. \A j \in Users(q) : inst'[j] = inst[j]
    BY <1>2, <1>3 DEF Users
  <2>3. \A v \in Threads : pc[v] = "commit" =>
          pc'[v] = "commit" /\ inst'[iface'[v]].ptr = inst[iface[v]].ptr
    BY <1>1, <1>2 DEF OpenCreate, CallsTyped, ThreadPart, StagesMatch, CommitReady
  <2>4. Users(q)' = Users(q)
    BY <1>4
  <2> QED
    BY <2>1, <2>2, <2>3, <2>4, ExactFrame
<1>8. /\ \A q \in Allocated' : q = p \/ q \in Allocated \ {p}
      /\ miscounted' = miscounted
  BY DEF Allocated, OpenCreate
<1> QED
  BY <1>6, <1>7, <1>8 DEF HeadersCount, Exact

\* The commit counts its instance in the header of its chunk.
LEMMA HeadersCommit ==
  ASSUME TypeOK, CallsTyped, ThreadPart, MemoryPart, HeadersCount, NEW t \in Threads, OpenCommit(t)
  PROVE  HeadersCount'
<1>0. PICK i \in Instances :
    /\ i = iface[t] /\ st[i] = "fresh" /\ inst[i].mode = call[t].mode /\ i \notin Live
    /\ Live' = Live \cup {i} /\ inst' = inst /\ Allocated' = Allocated
  BY CommitEffect
<1>1. PICK p \in Ptrs : p = inst[i].ptr /\ p \in Allocated /\ chunk[p] \in Header
  BY <1>0, AttachedMemory DEF Attached, OpenCommit, Allocated, TypeOK
<1>2. chunk' = [chunk EXCEPT ![p] = IF is_writer(i) THEN AddWriter(@) ELSE AddReader(@)]
  BY <1>0, <1>1 DEF OpenCommit, is_writer
<1>3. chunk'[p] = IF is_writer(i) THEN AddWriter(chunk[p]) ELSE AddReader(chunk[p])
  BY <1>1, <1>2 DEF TypeOK
<1>4. Users(p)' = Users(p) \cup {i} /\ i \notin Users(p) /\ \A q : q # p => Users(q)' = Users(q)
  BY <1>0, <1>1 DEF Users
<1>5. \A j : is_writer(j)' <=> is_writer(j)
  BY <1>0 DEF is_writer
<1>6. p \notin miscounted => Exact(p)
  BY <1>1 DEF HeadersCount, Exact
<1>7. Readers(p)' = IF is_writer(i) THEN Readers(p) ELSE Readers(p) \cup {i}
  BY <1>4, <1>5 DEF Readers
<1>8. Cardinality(Users(p)') = Cardinality(Users(p)) + 1
  BY <1>4, UsersCount, FS_AddElement
<1>9. i \notin Readers(p) /\ Cardinality(Readers(p) \cup {i}) = Cardinality(Readers(p)) + 1
  <2>1. i \notin Readers(p)
    BY <1>4 DEF Readers
  <2> QED
    BY <2>1, ReadersCount, FS_AddElement
<1>10. ASSUME p \notin miscounted PROVE Exact(p)'
  <2>0. Exact(p)
    BY <1>6, <1>10
  <2>1. Users(p)' # {}
    BY <1>4
  <2>2. CASE is_writer(i)
    <3>1. chunk'[p].refcount = chunk[p].refcount + 1 /\ chunk'[p].readers = chunk[p].readers
      <4>1. chunk[p] \in Header /\ chunk'[p] = AddWriter(chunk[p])
        BY <1>1, <1>3, <2>2
      <4> QED
        BY <4>1, HeaderOps, ReaderOps
    <3> QED
      BY <1>4, <1>5, <1>7, <1>8, <2>0, <2>1, <2>2, <3>1 DEF Exact
  <2>3. CASE ~is_writer(i)
    <3>1. /\ chunk'[p].refcount = chunk[p].refcount + 1 /\ chunk'[p].readers = chunk[p].readers + 1
          /\ chunk'[p].writer = chunk[p].writer
      <4>1. chunk[p] \in Header /\ chunk'[p] = AddReader(chunk[p])
        BY <1>1, <1>3, <2>3
      <4> QED
        BY <4>1, HeaderOps, ReaderOps
    <3>2. Cardinality(Readers(p)') = Cardinality(Readers(p)) + 1
      BY <1>7, <1>9, <2>3
    <3> QED
      BY <1>4, <1>5, <1>8, <2>0, <2>1, <3>1, <3>2 DEF Exact
  <2> QED
    BY <2>2, <2>3
<1>11. ASSUME NEW q \in Allocated \ {p}, q \notin miscounted PROVE Exact(q)'
  <2>1. Exact(q) /\ chunk'[q] = chunk[q]
    BY <1>2, <1>11 DEF HeadersCount, Exact, Allocated, TypeOK
  <2>2. Users(q) # {}
    <3>1. \A v \in Threads : pc[v] = "commit" => v = t
      BY DEF OpenCommit, ThreadPart, SectionsGuarded
    <3> QED
      BY <1>0, <1>1, <2>1, <3>1 DEF Exact
  <2>3. Users(q)' = Users(q) /\ \A j \in Users(q) : inst'[j] = inst[j]
    BY <1>0, <1>4
  <2> QED
    BY <2>1, <2>2, <2>3, ExactFrame
<1>12. miscounted' = miscounted
  BY DEF OpenCommit
<1> QED
  BY <1>0, <1>10, <1>11, <1>12 DEF HeadersCount, Exact

\* open_multiple_for_reading() counts one reader in every matching header.
LEMMA HeadersMultiple ==
  ASSUME TypeOK, CallsTyped, ThreadPart, HeadersCount, NEW t \in Threads, NEW U \in SUBSET Uids,
         NEW f \in [Matching(U) -> Unused], OpenMultiple(t, U, f)
  PROVE  HeadersCount'
<1> DEFINE N == {f[p] : p \in Matching(U)}
<1>1. /\ Live' = Live \cup N
      /\ \A i \in Instances \ N : inst'[i] = inst[i] /\ st'[i] = st[i]
      /\ \A p \in Matching(U) :
           /\ f[p] \in Instances /\ st[f[p]] = "none" /\ st'[f[p]] = "open"
           /\ inst'[f[p]] = [uid |-> chunk[p].uid, mode |-> "read", ptr |-> p,
                             serial |-> chunk[p].serial, lock |-> rwlocks[chunk[p].serial]]
  <2>1. MultipleDid(U, f)
    BY MultipleEffect
  <2> QED
    BY <2>1 DEF MultipleDid
<1>2. ASSUME NEW p \in Matching(U)
      PROVE  /\ f[p] \in N /\ f[p] \notin Live
             /\ inst'[f[p]].ptr = p /\ inst'[f[p]].mode = "read"
  <2>1. /\ f[p] \in Instances /\ st[f[p]] = "none"
        /\ inst'[f[p]] = [uid |-> chunk[p].uid, mode |-> "read", ptr |-> p,
                          serial |-> chunk[p].serial, lock |-> rwlocks[chunk[p].serial]]
    BY <1>1, Zenon
  <2> QED
    BY <2>1 DEF Live
<1>3. \A i \in N : \E p \in Matching(U) : i = f[p]
  OBVIOUS
<1>4. Live \cap N = {}
  BY <1>2, <1>3
<1>5. Matching(U) \in SUBSET Allocated /\ CountReaders(Matching(U))
  BY DEF OpenMultiple, Matching
<1>6. \A v \in Threads : pc[v] # "commit"
  BY DEF OpenMultiple, ThreadPart, SectionsGuarded
<1> HIDE DEF N
<1>7. \A i \in Live : inst'[i] = inst[i] /\ (is_writer(i)' <=> is_writer(i))
  BY <1>1, <1>4 DEF Live, is_writer
<1>8. ASSUME NEW q \in Allocated \ miscounted PROVE Exact(q)'
  <2>1. Exact(q) /\ Users(q) # {}
    BY <1>6 DEF HeadersCount, Exact
  <2>2. CASE q \in Matching(U)
    <3>1. Users(q)' = Users(q) \cup {f[q]} /\ f[q] \notin Users(q)
      <4>1. \A i \in N : inst'[i].ptr = q => i = f[q]
        BY <1>2, <1>3
      <4> QED
        BY <1>1, <1>2, <1>7, <2>2, <4>1 DEF Users
    <3>2. Readers(q)' = Readers(q) \cup {f[q]} /\ f[q] \notin Readers(q)
      <4>1. ~is_writer(f[q])'
        <5>1. inst'[f[q]].mode = "read" /\ f' = f
          BY <1>2, <2>2
        <5> QED
          BY <5>1 DEF is_writer
      <4> QED
        BY <1>7, <3>1, <4>1 DEF Readers, Users
    <3>3. /\ Cardinality(Users(q)') = Cardinality(Users(q)) + 1
          /\ Cardinality(Readers(q)') = Cardinality(Readers(q)) + 1
      BY <3>1, <3>2, UsersCount, ReadersCount, FS_AddElement
    <3>4. /\ chunk'[q].refcount = chunk[q].refcount + 1 /\ chunk'[q].writer = chunk[q].writer
          /\ chunk'[q].readers = chunk[q].readers + 1
      <4>1. chunk'[q] = AddReader(chunk[q]) /\ chunk[q] \in Header
        BY <1>5, <2>2 DEF CountReaders, Allocated, TypeOK
      <4> QED
        BY <4>1, HeaderOps, ReaderOps
    <3> QED
      BY <1>7, <2>1, <3>1, <3>3, <3>4 DEF Exact, Users
  <2>3. CASE q \notin Matching(U)
    <3>1. Users(q)' = Users(q)
      <4>1. \A i \in N : inst'[i].ptr # q
        BY <1>2, <1>3, <2>3
      <4> QED
        BY <1>1, <1>7, <4>1 DEF Users
    <3>2. \A i \in Users(q) : inst'[i] = inst[i]
      BY <1>7 DEF Users
    <3>3. chunk'[q] = chunk[q]
      BY <1>5, <2>3 DEF CountReaders, Allocated
    <3> QED
      BY <2>1, <3>1, <3>2, <3>3, ExactFrame
  <2> QED
    BY <2>2, <2>3
<1>9. Allocated' = Allocated /\ miscounted' = miscounted
  BY <1>5, CountedHeaders DEF OpenMultiple
<1> QED
  BY <1>8, <1>9 DEF HeadersCount, Exact

\* A failed open_multiple_for_reading() leaves alone the chunks that it has not visited.
LEMMA HeadersMismatch ==
  ASSUME TypeOK, HeadersCount, NEW t \in Threads, NEW U \in SUBSET Uids, NEW P \in SUBSET Ptrs,
         OpenMultipleMismatch(t, U, P)
  PROVE  HeadersCount'
<1>1. P \in SUBSET Allocated /\ CountReaders(P) /\ miscounted' = miscounted \cup P
  BY DEF OpenMultipleMismatch, Matching
<1>2. Allocated' = Allocated
  BY <1>1, CountedHeaders
<1>3. UNCHANGED <<st, inst, pc, iface>>
  BY DEF OpenMultipleMismatch
<1>4. ASSUME NEW q \in Allocated \ miscounted' PROVE Exact(q)'
  <2>1. Exact(q)
    BY <1>1, <1>4 DEF HeadersCount, Exact
  <2>2. chunk'[q] = chunk[q]
    BY <1>1, <1>4 DEF CountReaders, Allocated
  <2>3. Users(q)' = Users(q)
    BY <1>3 DEF Users, Live
  <2> QED
    BY <1>3, <2>1, <2>2, <2>3, ExactFrame
<1> QED
  BY <1>2, <1>4 DEF HeadersCount, Exact

\* close() counts its instance out, and frees the chunk with its last user.
LEMMA HeadersRelease ==
  ASSUME TypeOK, CallsTyped, ThreadPart, MemoryPart, HeadersCount, NEW t \in Threads, CloseRelease(t)
  PROVE  HeadersCount'
<1>0. PICK i \in Live, p \in Allocated :
    /\ i = iface[t] /\ p = inst[i].ptr /\ chunk[p] \in Header
    /\ Live' = Live \ {i} /\ inst' = inst
    /\ Allocated' = IF chunk[p].refcount - 1 = 0 THEN Allocated \ {p} ELSE Allocated
    /\ \A q \in Allocated \ {p} : chunk'[q] = chunk[q]
    /\ p \in Allocated' => chunk'[p] = IF is_writer(i) THEN DropWriter(chunk[p])
                                                       ELSE DropReader(chunk[p])
  BY ReleaseEffect
<1>1. Users(p)' = Users(p) \ {i} /\ i \in Users(p) /\ \A q : q # p => Users(q)' = Users(q)
  BY <1>0 DEF Users
<1>2. \A j : is_writer(j)' <=> is_writer(j)
  BY <1>0 DEF is_writer
<1>3. Readers(p)' = Readers(p) \ {i} /\ (i \in Readers(p) <=> ~is_writer(i))
  BY <1>1, <1>2 DEF Readers
<1>4. p \notin miscounted => Exact(p)
  BY <1>0 DEF HeadersCount, Exact
<1>5. /\ Cardinality(Users(p)') = Cardinality(Users(p)) - 1
      /\ Cardinality(Readers(p)') = IF is_writer(i) THEN Cardinality(Readers(p))
                                                     ELSE Cardinality(Readers(p)) - 1
  <2>1. Cardinality(Users(p) \ {i}) = Cardinality(Users(p)) - 1
    BY <1>1, UsersCount, FS_RemoveElement
  <2>2. CASE is_writer(i)
    BY <1>1, <1>3, <2>1, <2>2
  <2>3. CASE ~is_writer(i)
    <3>1. Cardinality(Readers(p) \ {i}) = Cardinality(Readers(p)) - 1
      BY <1>3, <2>3, ReadersCount, FS_RemoveElement
    <3> QED
      BY <1>1, <1>3, <2>1, <2>3, <3>1
  <2> QED
    BY <2>2, <2>3
<1>6. ASSUME p \in Allocated', p \notin miscounted PROVE Exact(p)'
  <2>0. Exact(p)
    BY <1>4, <1>6
  <2>1. /\ chunk'[p].refcount = chunk[p].refcount - 1
        /\ chunk'[p].readers = IF is_writer(i) THEN chunk[p].readers ELSE chunk[p].readers - 1
        /\ chunk'[p].writer = IF is_writer(i) THEN 0 ELSE chunk[p].writer
    <3>1. chunk[p] \in Header /\ chunk'[p] = IF is_writer(i) THEN DropWriter(chunk[p])
                                                             ELSE DropReader(chunk[p])
      BY <1>0, <1>6
    <3> QED
      BY <3>1, HeaderOps, ReaderOps
  <2>2. Users(p)' # {}
    <3>1. chunk[p].refcount - 1 # 0
      BY <1>0, <1>6
    <3>2. Cardinality(Users(p)') # 0
      BY <1>5, <2>0, <3>1 DEF Exact
    <3> QED
      BY <3>2, FS_EmptySet
  <2>3. chunk'[p].writer = 1 => \E j \in Users(p)' : is_writer(j)'
    BY <1>1, <1>2, <2>0, <2>1 DEF Exact
  <2>4. chunk'[p].refcount = Cardinality(Users(p)') /\ chunk'[p].readers = Cardinality(Readers(p)')
    BY <1>5, <2>0, <2>1 DEF Exact
  <2> QED
    BY <2>2, <2>3, <2>4 DEF Exact
<1>7. ASSUME NEW q \in Allocated \ {p}, q \notin miscounted PROVE Exact(q)'
  <2>1. Exact(q) /\ chunk'[q] = chunk[q]
    BY <1>0, <1>7 DEF HeadersCount, Exact
  <2>2. Users(q)' = Users(q) /\ \A j \in Users(q) : inst'[j] = inst[j]
    BY <1>0, <1>1
  <2>3. \A v \in Threads : pc[v] = "commit" =>
          pc'[v] = "commit" /\ inst'[iface'[v]].ptr = inst[iface[v]].ptr
    BY <1>0 DEF CloseRelease, Goto, TypeOK
  <2> QED
    BY <2>1, <2>2, <2>3, ExactFrame
<1>8. miscounted' = miscounted
  BY DEF CloseRelease
<1> QED
  BY <1>0, <1>6, <1>7, <1>8 DEF HeadersCount, Exact
-----------------------------------------------------------------------------
(* The books are an invariant                                              *)

\* No step forgets that an allocation failed.
LEMMA OomStays ==
  ASSUME NEW t \in Threads,
         OpenStep(t) \/ MultipleStep(t) \/ CloseStep(t) \/ List(t) \/ ListDone(t), oom
  PROVE  oom'
BY DEF OpenStep, List, ListDone, MultipleStep, CloseStep, Open, OpenLockMemory, OpenRefused,
       OpenMismatch, OpenExisting, OpenCreate, OpenOutOfMemory, OpenCommit, OpenFail,
       OpenMultiple, OpenMultipleMismatch, Close, CloseRelease, CloseDelete

\* As long as no allocation has failed, every step keeps the books.
LEMMA BooksStay ==
  ASSUME TypeOK, CallsTyped, ThreadPart, MemoryPart, Books, NEW t \in Threads,
         OpenStep(t) \/ MultipleStep(t) \/ CloseStep(t) \/ List(t) \/ ListDone(t), ~oom'
  PROVE  Books'
<1>1. ASSUME NEW i \in Unused, OpenOutOfMemory(t, i) PROVE FALSE
  BY <1>1 DEF OpenOutOfMemory
<1>2. CASE OpenStep(t)
  BY <1>1, <1>2, QuietSteps, ExistingBooks, CreateBooks, CommitBooks DEF OpenStep
<1>3. CASE MultipleStep(t)
  BY <1>3, QuietSteps, MultipleBooks DEF MultipleStep
<1>4. CASE CloseStep(t)
  BY <1>4, QuietSteps, ReleaseBooks, DeleteBooks DEF CloseStep
<1> QED
  BY <1>2, <1>3, <1>4, QuietSteps

\* Every step keeps the counters exact, except of chunks that it miscounts.
LEMMA HeadersStay ==
  ASSUME TypeOK, CallsTyped, ThreadPart, MemoryPart, HeadersCount, NEW t \in Threads,
         OpenStep(t) \/ MultipleStep(t) \/ CloseStep(t) \/ List(t) \/ ListDone(t), ~oom'
  PROVE  HeadersCount'
<1>1. ASSUME NEW i \in Unused, OpenOutOfMemory(t, i) PROVE FALSE
  BY <1>1 DEF OpenOutOfMemory
<1>3. CASE OpenStep(t)
  BY <1>1, <1>3, HeadersQuiet, HeadersCreate, HeadersCommit DEF OpenStep
<1>4. CASE MultipleStep(t)
  BY <1>4, HeadersMultiple, HeadersMismatch DEF MultipleStep
<1>5. CASE CloseStep(t)
  BY <1>5, HeadersQuiet, HeadersRelease DEF CloseStep
<1> QED
  BY <1>3, <1>4, <1>5, HeadersQuiet

\* BInv is an invariant of the interface manager.
THEOREM BooksInductive == Spec => []BInv
<1>1. Init => BInv
  <2> SUFFICES ASSUME Init PROVE BInv
    OBVIOUS
  <2>1. Live = {} /\ Allocated = {} /\ Attached = {}
    BY DEF Init, Live, Allocated, Attached
  <2>2. UnusedBlank /\ LocksGivenBack
    BY DEF Init, UnusedBlank, LocksGivenBack
  <2>3. LocksCounted
    <3>1. \A l \in Locks : {i \in Instances : inst[i].lock = l} = {}
      BY DEF Init, NoFields
    <3> QED
      BY <3>1, FS_EmptySet DEF Init, LocksCounted
  <2>4. SerialsDistinct /\ LocksMapped /\ HeadersCount
    BY <2>1 DEF SerialsDistinct, LocksMapped, HeadersCount
  <2>5. WritersMapped /\ OwnersWrite
    BY <2>1 DEF Init, WritersMapped, OwnersWrite
  <2>6. OwnersAgree
    BY <2>1 DEF Init, OwnersAgree
  <2> QED
    BY <2>2, <2>3, <2>4, <2>5, <2>6 DEF BInv, Books
<1>2. IInv /\ BInv /\ [Next]_vars => BInv'
  <2> SUFFICES ASSUME IInv, BInv, [Next]_vars PROVE BInv'
    OBVIOUS
  <2>1. CASE UNCHANGED vars
    <3>1. /\ SerialsDistinct' = SerialsDistinct /\ LocksMapped' = LocksMapped
          /\ WritersMapped' = WritersMapped /\ OwnersAgree' = OwnersAgree
          /\ OwnersWrite' = OwnersWrite /\ UnusedBlank' = UnusedBlank
          /\ LocksCounted' = LocksCounted /\ LocksGivenBack' = LocksGivenBack
          /\ HeadersCount' = HeadersCount
      BY <2>1 DEF vars, locks, memory, owners, SerialsDistinct, Allocated, LocksMapped, Attached,
                  Live, WritersMapped, is_writer, OwnersAgree, OwnersWrite, UnusedBlank,
                  LocksCounted, LocksGivenBack, HeadersCount, Users, Readers
    <3>2. oom' = oom
      BY <2>1 DEF vars
    <3> QED
      BY <3>1, <3>2 DEF BInv, Books
  <2>2. CASE Next
    <3>1. PICK t \in Threads : \/ OpenStep(t) \/ MultipleStep(t) \/ CloseStep(t)
                              \/ List(t) \/ ListDone(t)
      BY <2>2 DEF Next
    <3>2. TypeOK /\ CallsTyped
      BY DEF IInv
    <3>3. UnusedBlank' /\ LocksGivenBack' /\ LocksCounted'
      BY <3>1, <3>2, BlankStays, CountedStays DEF BInv
    <3>4. ASSUME ~oom' PROVE ThreadPart /\ MemoryPart /\ Books /\ ~oom
      BY <3>1, <3>4, OomStays DEF IInv, BInv, Consistent, ThreadPart, MemoryPart
    <3>5. ASSUME ~oom' PROVE Books'
      BY <3>1, <3>2, <3>4, <3>5, BooksStay
    <3>6. ASSUME ~oom' PROVE HeadersCount'
      <4>1. HeadersCount
        BY <3>4, <3>6 DEF BInv
      <4> QED
        BY <3>1, <3>2, <3>4, <3>6, <4>1, HeadersStay
    <3> QED
      BY <3>3, <3>5, <3>6 DEF BInv
  <2> QED
    BY <2>1, <2>2
<1> QED
  BY <1>1, <1>2, Inductive, PTL DEF Spec

\* Every way out of a call gives back the mutexes it took, out of memory or not.
THEOREM MutexesReturned == Spec => []LocksGivenBack
<1>1. BInv => LocksGivenBack
  BY DEF BInv
<1> QED
  BY <1>1, BooksInductive, PTL

\* As long as no open call ran out of memory, all live instances of an interface have
\* one RWLock; and its references are exactly the instances that point at it.
THEOREM OneLock == Spec => []SharedLock
<1>1. IInv /\ BInv => SharedLock
  <2> SUFFICES ASSUME IInv, BInv PROVE SharedLock
    OBVIOUS
  <2>1. ASSUME ~oom, NEW i \in Live, NEW j \in Live, inst[i].uid = inst[j].uid
        PROVE  inst[i].lock = inst[j].lock
    <3>1. inst[i].ptr = inst[j].ptr
      BY <2>1 DEF IInv, Consistent, MemoryAlive, ChunksDistinct
    <3>2. inst[i].serial = inst[j].serial
      BY <2>1, <3>1 DEF IInv, Consistent, MemoryAlive
    <3> QED
      BY <2>1, <3>2 DEF BInv, Books, LocksMapped, Attached
  <2> QED
    BY <2>1 DEF BInv, LocksCounted, SharedLock
<1> QED
  BY <1>1, Inductive, BooksInductive, PTL

\* As long as no open call ran out of memory, the map that message transmission looks
\* into holds exactly the live writers, under their serials.
THEOREM WritersFound == Spec => []WriterMapAgrees
<1>1. BInv => WriterMapAgrees
  BY DEF BInv, Books, WritersMapped, WriterMapAgrees
<1> QED
  BY <1>1, BooksInductive, PTL

\* As long as no open call ran out of memory, owner_info_ names all live instances and
\* no deleted one.
THEOREM OwnersKnown == Spec => []OwnersAgreeUnlessOom
<1>1. BInv => OwnersAgreeUnlessOom
  BY DEF BInv, Books, OwnersAgreeUnlessOom
<1> QED
  BY <1>1, BooksInductive, PTL

\* As long as no open call ran out of memory, the header of every chunk that no failed
\* open_multiple_for_reading() visited counts its live instances whenever no call is
\* under way.
THEOREM HeadersExact == Spec => []HeaderExact
<1>1. IInv /\ BInv => HeaderExact
  <2> SUFFICES ASSUME IInv, BInv, ~oom, mutex = None, NEW p \in Allocated \ miscounted
               PROVE  /\ Users(p) # {}
                      /\ chunk[p].refcount = Cardinality(Users(p))
                      /\ chunk[p].writer = 1 <=> \E i \in Users(p) : is_writer(i)
                      /\ chunk[p].readers = Cardinality({i \in Users(p) : ~is_writer(i)})
    BY DEF HeaderExact
  <2>1. Exact(p)
    BY DEF BInv, HeadersCount, Exact
  <2>2. \A t \in Threads : pc[t] # "commit"
    BY DEF IInv, Consistent, SectionsGuarded
  <2>3. \A i \in Users(p) : is_writer(i) => chunk[p].writer = 1
    BY DEF IInv, Consistent, WritersFlagged, Users
  <2> QED
    BY <2>1, <2>2, <2>3 DEF Exact, Readers
<1> QED
  BY <1>1, Inductive, BooksInductive, PTL
-----------------------------------------------------------------------------
(* The registry of module BlackBoard, as long as no call runs out of memory *)

\* The only element of a set, or None.
LEMMA OnlyElement ==
  ASSUME NEW S, \A i, j \in S : i = j, None \notin S
  PROVE  LET w == IF S = {} THEN None ELSE CHOOSE i \in S : TRUE
         IN  \A x : w = x <=> x \in S \/ (S = {} /\ x = None)
OBVIOUS

\* Until an allocation fails, the registry's writer of an interface is its live writer.
LEMMA WriterOfIs ==
  ASSUME MemoryPart, NEW u \in Uids
  PROVE  /\ \A x : WriterOf[u] = x <=> x \in LiveWriters(u) \/ (LiveWriters(u) = {} /\ x = None)
         /\ \A i, j \in LiveWriters(u) : i = j
<1>1. \A i, j \in LiveWriters(u) : i = j
  BY DEF LiveWriters, MemoryPart, MemoryAlive, ChunksDistinct, WritersFlagged
<1>2. None \notin LiveWriters(u)
  BY DEF LiveWriters, Live
<1>3. WriterOf[u] = IF LiveWriters(u) = {} THEN None ELSE CHOOSE i \in LiveWriters(u) : TRUE
  BY DEF WriterOf
<1> QED
  BY <1>1, <1>2, <1>3, OnlyElement

\* The same in the next state.
LEMMA WriterOfWillBe ==
  ASSUME MemoryPart', NEW u \in Uids
  PROVE  \A x : WriterOf'[u] = x <=> x \in LiveWriters(u)' \/ (LiveWriters(u)' = {} /\ x = None)
<1>1. \A i, j \in LiveWriters(u)' : i = j
  BY DEF LiveWriters, MemoryPart, MemoryAlive, ChunksDistinct, WritersFlagged
<1>2. None \notin LiveWriters(u)'
  BY DEF LiveWriters, Live
<1>3. WriterOf'[u] = IF LiveWriters(u)' = {} THEN None ELSE CHOOSE i \in LiveWriters(u)' : TRUE
  BY DEF WriterOf
<1> QED
  BY <1>1, <1>2, <1>3, OnlyElement

\* What the registry calls opened are the live instances.
LEMMA OpenedAreLive ==
  ASSUME TypeOK, MemoryPart
  PROVE  Registry!Opened = Live
<1>1. \A i \in Live : inst[i].uid \in Uids /\ i \in Instances
  BY DEF MemoryPart, MemoryAlive, Allocated, TypeOK, Header, Live
<1>2. ASSUME NEW i \in Registry!Opened PROVE i \in Live
  <2>1. PICK u \in Uids : i \in Instances /\ (WriterOf[u] = i \/ i \in ReadersOf[u])
    BY DEF Registry!Opened
  <2>2. WriterOf[u] = i => i \in LiveWriters(u)
    BY <2>1, WriterOfIs
  <2> QED
    BY <2>1, <2>2 DEF LiveWriters, ReadersOf
<1>3. ASSUME NEW i \in Live PROVE i \in Registry!Opened
  <2>1. is_writer(i) => i \in LiveWriters(inst[i].uid)
    BY DEF LiveWriters
  <2>2. is_writer(i) => WriterOf[inst[i].uid] = i
    BY <1>1, <2>1, WriterOfIs
  <2>3. ~is_writer(i) => i \in ReadersOf[inst[i].uid]
    BY <1>1 DEF ReadersOf
  <2> QED
    BY <1>1, <2>2, <2>3 DEF Registry!Opened
<1> QED
  BY <1>2, <1>3

\* A step that keeps the live instances and their fields is invisible.
LEMMA Invisible ==
  ASSUME Live' = Live, \A i \in Live : inst'[i] = inst[i]
  PROVE  UNCHANGED <<WriterOf, ReadersOf>>
<1>1. \A u \in Uids : LiveWriters(u)' = LiveWriters(u)
  BY DEF LiveWriters, is_writer
<1>2. WriterOf' = WriterOf
  <2> DEFINE Only(S) == IF S = {} THEN None ELSE CHOOSE i \in S : TRUE
  <2>1. WriterOf = [u \in Uids |-> Only(LiveWriters(u))]
    BY DEF WriterOf
  <2>2. WriterOf' = [u \in Uids |-> Only(LiveWriters(u)')]
    BY DEF WriterOf
  <2> HIDE DEF Only
  <2> QED
    BY <1>1, <2>1, <2>2
<1>3. ReadersOf' = ReadersOf
  BY DEF ReadersOf, is_writer
<1> QED
  BY <1>2, <1>3

\* Steps before the commit and after the release are invisible.
LEMMA InvisibleSteps ==
  ASSUME TypeOK, CallsTyped, ThreadPart, NEW t \in Threads,
         \/ \E u \in Uids, m \in Mode : Open(t, u, m)
         \/ OpenLockMemory(t) \/ OpenRefused(t) \/ OpenFail(t)
         \/ \E i \in Unused : OpenMismatch(t, i)
         \/ \E i \in Unused, p \in Ptrs : OpenExisting(t, i, p)
         \/ \E i \in Unused, p \in Ptrs, l \in Locks : OpenCreate(t, i, p, l)
         \/ \E U \in SUBSET Uids, P \in SUBSET Ptrs : OpenMultipleMismatch(t, U, P)
         \/ \E i \in Instances : Close(t, i)
         \/ CloseDelete(t) \/ List(t) \/ ListDone(t)
  PROVE  UNCHANGED <<WriterOf, ReadersOf>>
<1> USE DEF TypeOK
<1>1. CASE UNCHANGED <<st, inst>>
  BY <1>1, Invisible DEF Live
<1>2. ASSUME NEW i \in Instances, i \notin Live, st'[i] \notin {"open", "closing"},
             \A j \in Instances \ {i} : st'[j] = st[j] /\ inst'[j] = inst[j]
      PROVE  UNCHANGED <<WriterOf, ReadersOf>>
  BY <1>2, Invisible DEF Live
<1>3. ASSUME NEW i \in Unused,
             \/ OpenMismatch(t, i)
             \/ \E p \in Ptrs : OpenExisting(t, i, p)
             \/ \E p \in Ptrs, l \in Locks : OpenCreate(t, i, p, l)
      PROVE  UNCHANGED <<WriterOf, ReadersOf>>
  BY <1>2, <1>3 DEF OpenMismatch, OpenExisting, OpenCreate, Unused, Live
<1>4. ASSUME NEW i \in Instances, Close(t, i)
      PROVE  UNCHANGED <<WriterOf, ReadersOf>>
  <2>1. Live' = Live /\ inst' = inst
    BY <1>4 DEF Live, Close
  <2> QED
    BY <2>1, Invisible
<1>5. CASE OpenFail(t)
  <2>1. CASE iface[t] = None
    BY <1>1, <1>5, <2>1 DEF OpenFail
  <2>2. CASE iface[t] # None
    BY <1>2, <1>5, <2>2 DEF OpenFail, Destroy, ThreadPart, StagesMatch, Live
  <2> QED
    BY <2>1, <2>2
<1>6. CASE CloseDelete(t)
  BY <1>2, <1>6 DEF CloseDelete, Destroy, CallsTyped, ThreadPart, StagesMatch, Live
<1> QED
  BY <1>1, <1>3, <1>4, <1>5, <1>6
     DEF Open, OpenLockMemory, OpenRefused, OpenMultipleMismatch, List, ListDone
-----------------------------------------------------------------------------
\* The commit of an open is the registry's open.
LEMMA CommitRefines ==
  ASSUME TypeOK, CallsTyped, ThreadPart, MemoryPart, MemoryPart', NEW t \in Threads, OpenCommit(t)
  PROVE  Registry!Next
<1>0. PICK i \in Instances :
    /\ inst[i].uid \in Uids /\ i \notin Live
    /\ Live' = Live \cup {i} /\ inst' = inst
    /\ is_writer(i) => \A j \in Live : is_writer(j) => inst[j].uid # inst[i].uid
  BY CommitEffect
<1> USE DEF Registry!Next
<1>1. PICK u \in Uids : u = inst[i].uid
  BY <1>0
<1>2. \A j : is_writer(j)' <=> is_writer(j)
  BY <1>0 DEF is_writer
<1>3. Registry!Opened = Live
  BY OpenedAreLive
<1>A. CASE is_writer(i)
  <2>1. LiveWriters(u) = {} /\ \A v \in Uids : LiveWriters(v)' = IF v = u THEN {i} ELSE LiveWriters(v)
    BY <1>0, <1>1, <1>2, <1>A DEF LiveWriters
  <2>2. WriterOf[u] = None
    BY <2>1, WriterOfIs
  <2>3. \A v \in Uids : WriterOf'[v] = IF v = u THEN i ELSE WriterOf[v]
    <3>1. ASSUME NEW v \in Uids PROVE WriterOf'[v] = IF v = u THEN i ELSE WriterOf[v]
      <4>1. /\ \A x : WriterOf'[v] = x <=> x \in LiveWriters(v)' \/ (LiveWriters(v)' = {} /\ x = None)
            /\ \A x : WriterOf[v] = x <=> x \in LiveWriters(v) \/ (LiveWriters(v) = {} /\ x = None)
        BY WriterOfIs, WriterOfWillBe
      <4> QED
        BY <2>1, <4>1
    <3> QED
      BY <3>1
  <2>4. WriterOf' = [WriterOf EXCEPT ![u] = i]
    BY <2>3 DEF WriterOf
  <2>5. ReadersOf' = ReadersOf
    BY <1>0, <1>2, <1>A DEF ReadersOf
  <2>6. Registry!OpenForWriting(u, i)
    BY <1>0, <1>3, <2>2, <2>4, <2>5 DEF Registry!OpenForWriting
  <2> QED
    BY <2>6
<1>B. CASE ~is_writer(i)
  <2>1. WriterOf' = WriterOf
    <3>1. \A v \in Uids : LiveWriters(v)' = LiveWriters(v)
      BY <1>0, <1>2, <1>B DEF LiveWriters
    <3>2. ASSUME NEW v \in Uids PROVE WriterOf'[v] = WriterOf[v]
      <4>1. /\ \A x : WriterOf'[v] = x <=> x \in LiveWriters(v)' \/ (LiveWriters(v)' = {} /\ x = None)
            /\ \A x : WriterOf[v] = x <=> x \in LiveWriters(v) \/ (LiveWriters(v) = {} /\ x = None)
        BY WriterOfIs, WriterOfWillBe
      <4> QED
        BY <3>1, <4>1
    <3> QED
      BY <3>2 DEF WriterOf
  <2>2. \A v \in Uids : ReadersOf'[v] = IF v = u THEN ReadersOf[v] \cup {i} ELSE ReadersOf[v]
    BY <1>0, <1>1, <1>2, <1>B DEF ReadersOf
  <2>3. \A v \in Uids : i \notin ReadersOf[v]
    BY <1>0 DEF ReadersOf
  <2>4. \A v \in Uids : Registry!NewReaders[v] = IF v = u THEN {i} ELSE {}
    BY <2>2, <2>3 DEF Registry!NewReaders
  <2>5. ReadersOf' = [v \in Uids |-> ReadersOf[v] \cup Registry!NewReaders[v]]
    BY <2>2, <2>4 DEF ReadersOf
  <2>6. Registry!OpenForReading(Registry!NewReaders)
    BY <1>0, <1>3, <2>1, <2>4, <2>5 DEF Registry!OpenForReading
  <2> QED
    BY <2>6
<1> QED
  BY <1>A, <1>B

\* open_multiple_for_reading() opens one new reader for each interface it finds.
LEMMA MultipleRefines ==
  ASSUME TypeOK, MemoryPart, MemoryPart', NEW t \in Threads, NEW U \in SUBSET Uids,
         NEW f \in [Matching(U) -> Unused], OpenMultiple(t, U, f)
  PROVE  Registry!Next
<1>0. /\ Live' = Live \cup {f[p] : p \in Matching(U)}
      /\ \A i \in Instances \ {f[p] : p \in Matching(U)} : inst'[i] = inst[i] /\ st'[i] = st[i]
      /\ \A p \in Matching(U) :
           /\ f[p] \in Instances /\ st[f[p]] = "none" /\ st'[f[p]] = "open"
           /\ inst'[f[p]] = [uid |-> chunk[p].uid, mode |-> "read", ptr |-> p,
                             serial |-> chunk[p].serial, lock |-> rwlocks[chunk[p].serial]]
  <2>1. MultipleDid(U, f)
    BY MultipleEffect
  <2> QED
    BY <2>1 DEF MultipleDid
<1> DEFINE N == {f[p] : p \in Matching(U)}
<1>1. /\ Live' = Live \cup N
      /\ \A i \in Instances \ N : inst'[i] = inst[i] /\ st'[i] = st[i]
      /\ \A p \in Matching(U) :
           /\ f[p] \in Instances /\ st[f[p]] = "none"
           /\ inst'[f[p]] = [uid |-> chunk[p].uid, mode |-> "read", ptr |-> p,
                             serial |-> chunk[p].serial, lock |-> rwlocks[chunk[p].serial]]
  BY <1>0, Zenon
<1>2. ASSUME NEW i \in N
      PROVE  /\ i \in Instances /\ i \notin Live /\ ~is_writer(i)'
             /\ \E p \in Allocated : i = f[p] /\ p \in Matching(U) /\ inst'[i].uid = chunk[p].uid
  <2>1. PICK p \in Matching(U) : i = f[p]
    OBVIOUS
  <2>2. /\ f[p] \in Instances /\ st[f[p]] = "none"
        /\ inst'[f[p]] = [uid |-> chunk[p].uid, mode |-> "read", ptr |-> p,
                          serial |-> chunk[p].serial, lock |-> rwlocks[chunk[p].serial]]
    BY <1>1, Zenon
  <2> QED
    BY <2>1, <2>2 DEF is_writer, Live, Matching
<1>3. ASSUME NEW i \in N, NEW j \in N, inst'[i].uid = inst'[j].uid
      PROVE  i = j
  <2>1. PICK p \in Allocated : i = f[p] /\ inst'[i].uid = chunk[p].uid
    BY <1>2
  <2>2. PICK q \in Allocated : j = f[q] /\ inst'[j].uid = chunk[q].uid
    BY <1>2
  <2>3. p = q
    BY <1>3, <2>1, <2>2 DEF MemoryPart, ChunksDistinct
  <2> QED
    BY <2>1, <2>2, <2>3
<1> HIDE DEF N
<1>4. \A j \in Live : inst'[j] = inst[j] /\ (is_writer(j)' <=> is_writer(j))
  BY <1>1, <1>2 DEF is_writer, Live
<1>5. Registry!Opened = Live
  BY OpenedAreLive
<1>6. WriterOf' = WriterOf
  <2>1. \A v \in Uids : LiveWriters(v)' = LiveWriters(v)
    BY <1>1, <1>2, <1>4 DEF LiveWriters
  <2>2. ASSUME NEW v \in Uids PROVE WriterOf'[v] = WriterOf[v]
    <3>1. /\ \A x : WriterOf'[v] = x <=> x \in LiveWriters(v)' \/ (LiveWriters(v)' = {} /\ x = None)
          /\ \A x : WriterOf[v] = x <=> x \in LiveWriters(v) \/ (LiveWriters(v) = {} /\ x = None)
      BY WriterOfIs, WriterOfWillBe
    <3> QED
      BY <2>1, <3>1
  <2> QED
    BY <2>2 DEF WriterOf
<1>7. \A v \in Uids : ReadersOf'[v] = ReadersOf[v] \cup {i \in N : inst'[i].uid = v}
  BY <1>1, <1>2, <1>4 DEF ReadersOf
<1>8. \A v \in Uids : Registry!NewReaders[v] = {i \in N : inst'[i].uid = v}
  <2>1. \A v \in Uids : ReadersOf[v] \subseteq Live
    BY DEF ReadersOf
  <2> QED
    BY <1>2, <1>7, <2>1 DEF Registry!NewReaders
<1>9. ReadersOf' = [v \in Uids |-> ReadersOf[v] \cup Registry!NewReaders[v]]
  BY <1>7, <1>8 DEF ReadersOf
<1>10. Registry!OpenForReading(Registry!NewReaders)
  BY <1>2, <1>3, <1>5, <1>6, <1>8, <1>9 DEF Registry!OpenForReading
<1> QED
  BY <1>10 DEF Registry!Next

\* The release of a chunk by close() is the registry's close.
LEMMA ReleaseRefines ==
  ASSUME TypeOK, CallsTyped, ThreadPart, MemoryPart, MemoryPart', NEW t \in Threads, CloseRelease(t)
  PROVE  Registry!Next
<1>0. PICK i \in Live : Live' = Live \ {i} /\ inst' = inst
  BY ReleaseEffect
<1>1. i \in Instances /\ i \in Registry!Opened /\ i # None
  BY OpenedAreLive DEF Live
<1>2. \A j : is_writer(j)' <=> is_writer(j)
  BY <1>0 DEF is_writer
<1>3. ASSUME NEW v \in Uids
      PROVE  WriterOf'[v] = IF WriterOf[v] = i THEN None ELSE WriterOf[v]
  <2>1. LiveWriters(v)' = LiveWriters(v) \ {i}
    BY <1>0, <1>2 DEF LiveWriters
  <2>2. /\ \A x : WriterOf'[v] = x <=> x \in LiveWriters(v)' \/ (LiveWriters(v)' = {} /\ x = None)
        /\ \A x : WriterOf[v] = x <=> x \in LiveWriters(v) \/ (LiveWriters(v) = {} /\ x = None)
        /\ \A x, y \in LiveWriters(v) : x = y
    BY WriterOfIs, WriterOfWillBe
  <2>3. CASE WriterOf[v] = i
    BY <1>1, <2>1, <2>2, <2>3
  <2>4. CASE WriterOf[v] # i
    BY <1>1, <2>1, <2>2, <2>4
  <2> QED
    BY <2>3, <2>4
<1>4. WriterOf' = [v \in Uids |-> IF WriterOf[v] = i THEN None ELSE WriterOf[v]]
  BY <1>3 DEF WriterOf
<1>5. ReadersOf' = [v \in Uids |-> ReadersOf[v] \ {i}]
  BY <1>0, <1>2 DEF ReadersOf
<1>6. Registry!Close(i)
  BY <1>1, <1>4, <1>5 DEF Registry!Close
<1> QED
  BY <1>1, <1>6 DEF Registry!Next
-----------------------------------------------------------------------------
\* Until an open call runs out of memory, open, open_multiple and close look to their
\* clients like atomic changes of a single-writer, multiple-reader registry.
THEOREM Refinement == Spec => ImplementsBlackBoard
<1>1. Init => Registry!Init
  <2> SUFFICES ASSUME Init PROVE Registry!Init
    OBVIOUS
  <2>1. Live = {}
    BY DEF Init, Live
  <2>2. \A u \in Uids : LiveWriters(u) = {}
    BY <2>1 DEF LiveWriters
  <2> QED
    BY <2>1, <2>2 DEF Registry!Init, WriterOf, ReadersOf
<1>2. IInv /\ IInv' /\ [Next]_vars => [~oom' => Registry!Next]_<<WriterOf, ReadersOf>>
  <2> SUFFICES ASSUME IInv, IInv', ~oom', [Next]_vars
               PROVE  Registry!Next \/ UNCHANGED <<WriterOf, ReadersOf>>
    OBVIOUS
  <2>0. ~oom
    BY OomStays DEF Next, vars
  <2>1. TypeOK /\ CallsTyped /\ ThreadPart /\ MemoryPart
    BY <2>0 DEF IInv, Consistent, ThreadPart, MemoryPart
  <2>2. MemoryPart'
    BY DEF IInv, Consistent, MemoryPart
  <2>3. CASE UNCHANGED vars
    BY <2>3, Invisible DEF vars, Live
  <2>4. CASE Next
    <3>1. PICK t \in Threads : \/ OpenStep(t) \/ MultipleStep(t) \/ CloseStep(t)
                              \/ List(t) \/ ListDone(t)
      BY <2>4 DEF Next
    <3>2. ASSUME NEW i \in Unused, OpenOutOfMemory(t, i) PROVE FALSE
      BY <3>2 DEF OpenOutOfMemory
    <3>3. CASE OpenStep(t)
      BY <2>1, <2>2, <3>2, <3>3, InvisibleSteps, CommitRefines DEF OpenStep
    <3>4. CASE MultipleStep(t)
      BY <2>1, <2>2, <3>4, InvisibleSteps, MultipleRefines DEF MultipleStep
    <3>5. CASE CloseStep(t)
      BY <2>1, <2>2, <3>5, InvisibleSteps, ReleaseRefines DEF CloseStep
    <3> QED
      BY <2>1, <3>1, <3>3, <3>4, <3>5, InvisibleSteps
  <2> QED
    BY <2>3, <2>4
<1> QED
  BY <1>1, <1>2, Inductive, PTL DEF Spec, ImplementsBlackBoard
=============================================================================
