-------------------------- MODULE InterfaceManager --------------------------
(***************************************************************************)
(* BlackBoardInterfaceManager (libs/blackboard/internal): how threads open *)
(* and close interface instances on shared memory chunks.                  *)
(*                                                                         *)
(* A chunk holds an interface_header_t.  An interface instance points at a *)
(* chunk, and all instances of one chunk share one RefCountRWLock.  Two    *)
(* non-recursive mutexes guard the bookkeeping: `mutex' (open, close) and  *)
(* `memlock' (the memory manager's, taken by open, list and free).  Their  *)
(* unlock is that of a NORMAL pthread mutex: it frees the mutex whoever    *)
(* holds it.  Two history variables record what the code gets wrong:       *)
(* `oom' that an OutOfMemoryException went through the unlocking handler   *)
(* of create_interface, and `miscounted' the chunks whose counters kept    *)
(* the readers of a failed open_multiple_for_reading.                      *)
(***************************************************************************)
EXTENDS Integers, FiniteSets, FiniteSetsExt

CONSTANTS Threads,         \* threads calling the interface manager
          Uids,            \* interface type/identifier pairs
          Instances,       \* C++ addresses of Interface objects
          Ptrs,            \* memory chunks: the capacity of the BlackBoard
          Locks,           \* C++ addresses of RefCountRWLock objects
          MaxSerial,       \* bound on the memory serials handed out
          MaxRefs,         \* bound on the references a failing open may leave behind
          OpenAfterOom,    \* bound: whether calls of open start after one ran out of memory
          HashMayDiffer,   \* uids whose library was rebuilt since its chunk was made
          UnknownTypes,    \* uids whose type has no factory function
          None             \* the NULL pointer

Serials == 1..MaxSerial

\* interface_header_t
Header == [uid : Uids, writer : {0, 1}, readers : Int, refcount : Int, serial : Serials]

ASSUME ConstantsAssumption ==
  /\ IsFiniteSet(Instances) /\ IsFiniteSet(Ptrs)
  /\ MaxSerial \in Nat /\ MaxRefs \in Nat /\ OpenAfterOom \in BOOLEAN
  /\ HashMayDiffer \subseteq Uids /\ UnknownTypes \subseteq Uids
  /\ None \notin Threads \cup Uids \cup Instances \cup Ptrs \cup Locks \cup Header

VARIABLES
  mutex, memlock,     \* holders of the two mutexes
  chunk,              \* per chunk its header, or None if the chunk is free
  st, inst,           \* per instance its life-cycle state and its fields
  lockref, rwlocks,   \* reference counts of the locks; the map serial -> lock
  writer_interfaces,  \* the map serial -> writing instance
  owner_writer, owner_readers,   \* owner_info_
  pc, call, iface,    \* per thread: where it is, its arguments, its instance
  oom, miscounted

locks  == <<mutex, memlock>>
memory == <<chunk, rwlocks, lockref>>
owners == <<owner_writer, owner_readers>>
vars   == <<locks, memory, st, inst, writer_interfaces, owners, pc, call, iface, oom,
            miscounted>>

Mode == {"read", "write"}

Fields == [uid   : Uids \cup {None}, mode : Mode,              ptr  : Ptrs \cup {None},
           serial : Serials \cup {0}, lock  : Locks \cup {None}]

\* Life cycle of an instance: no object; under construction; usable; a close()
\* is going to release its chunk; chunk released, object still to be deleted.
InstState == {"none", "fresh", "open", "closing", "closed"}

Pc == {"idle", "memlock", "find", "commit", "fail", "close", "delete", "list"}

NoCall   == [uid |-> None, mode |-> "read"]
NoFields == [uid |-> None, mode |-> "read", ptr |-> None, serial |-> 0, lock |-> None]

TypeOK ==
  /\ mutex \in Threads \cup {None} /\ memlock \in Threads \cup {None}
  /\ chunk \in [Ptrs -> Header \cup {None}]
  /\ st \in [Instances -> InstState]
  /\ inst \in [Instances -> Fields]
  /\ lockref \in [Locks -> Int]
  /\ rwlocks \in [Serials -> Locks \cup {None}]
  /\ writer_interfaces \in [Serials -> Instances \cup {None}]
  /\ owner_writer \in [Uids -> Instances \cup {None}]
  /\ owner_readers \in [Uids -> SUBSET Instances]
  /\ pc \in [Threads -> Pc]
  /\ call \in [Threads -> [uid : Uids \cup {None}, mode : Mode]]
  /\ iface \in [Threads -> Instances \cup {None}]
  /\ oom \in BOOLEAN /\ miscounted \subseteq Ptrs

Init ==
  /\ mutex = None /\ memlock = None
  /\ chunk = [p \in Ptrs |-> None]
  /\ st = [i \in Instances |-> "none"]
  /\ inst = [i \in Instances |-> NoFields]
  /\ lockref = [l \in Locks |-> 0]
  /\ rwlocks = [s \in Serials |-> None]
  /\ writer_interfaces = [s \in Serials |-> None]
  /\ owner_writer = [u \in Uids |-> None]
  /\ owner_readers = [u \in Uids |-> {}]
  /\ pc = [t \in Threads |-> "idle"]
  /\ call = [t \in Threads |-> NoCall]
  /\ iface = [t \in Threads |-> None]
  /\ oom = FALSE /\ miscounted = {}

Allocated == {p \in Ptrs : chunk[p] # None}

\* find_interface_in_memory(): the chunks with this type and identifier
Found(u) == {p \in Allocated : chunk[p].uid = u}

\* Mutant: the number of chunks instead of the largest serial.
next_mem_serial_counting == Cardinality(Allocated) + 1
next_mem_serial == Max({0} \cup {chunk[p].serial : p \in Allocated}) + 1

\* Mutants: a missing refcount++, flag or num_readers--.
AddReaderUncounted(h) == [h EXCEPT !.readers = @ + 1]
AddWriterUnflagged(h) == [h EXCEPT !.refcount = @ + 1]
DropReaderUncounted(h) == [h EXCEPT !.refcount = @ - 1]

\* a header counts one more reader or the writer, or one less
AddReader(h)  == [h EXCEPT !.readers = @ + 1, !.refcount = @ + 1]
AddWriter(h)  == [h EXCEPT !.writer = 1, !.refcount = @ + 1]
DropReader(h) == [h EXCEPT !.readers = @ - 1, !.refcount = @ - 1]
DropWriter(h) == [h EXCEPT !.writer = 0, !.refcount = @ - 1]

\* new_interface_instance() allocates at an unused address
Unused == {i \in Instances : st[i] = "none"}

Opening == {v \in Threads : pc[v] \in {"memlock", "find"}}

\* the model's bound on instances: there are n left besides one for each open under way
Room(n) == Cardinality(Unused) >= n + Cardinality(Opening)

\* the bound on serials: there is one left besides one for each open under way, or
\* the open will not need one
SerialLeft(u) == \/ next_mem_serial + Cardinality(Opening) \in Serials
                 \/ ~oom /\ (Found(u) # {} \/ Allocated = Ptrs)

is_writer(i) == inst[i].mode = "write"

\* Mutant: the wrong kind of open looks at the flag.
WriterActiveForReaders(t, p) == call[t].mode = "read" /\ chunk[p].writer = 1

\* the call wants to write, but the header says that there is a writer
WriterActive(t, p) == call[t].mode = "write" /\ chunk[p].writer = 1

Goto(t, where) == pc' = [pc EXCEPT ![t] = where]

\* the call of thread t ends
Return(t) == /\ Goto(t, "idle")
             /\ call' = [call EXCEPT ![t] = NoCall]
             /\ iface' = [iface EXCEPT ![t] = None]

UnlockBoth == mutex' = None /\ memlock' = None
-----------------------------------------------------------------------------
(* open_for_reading() and open_for_writing()                               *)

\* Either call starts by locking the mutex; m tells which one it is.  The second
\* line is the model's bound on instances and serials.
Open(t, u, m) ==
  /\ pc[t] = "idle" /\ mutex = None
  /\ Room(1) /\ SerialLeft(u) /\ (oom => OpenAfterOom)
  /\ mutex' = t
  /\ Goto(t, "memlock")
  /\ call' = [call EXCEPT ![t] = [uid |-> u, mode |-> m]]
  /\ UNCHANGED <<memlock, memory, st, inst, writer_interfaces, owners, iface, oom, miscounted>>

OpenLockMemory(t) ==
  /\ pc[t] = "memlock" /\ memlock = None
  /\ memlock' = t
  /\ Goto(t, "find")
  /\ UNCHANGED <<mutex, memory, st, inst, writer_interfaces, owners, call, iface, oom, miscounted>>

\* BlackBoardWriterActiveException, or no factory for the type: nothing made yet
OpenRefused(t) ==
  /\ pc[t] = "find"
  /\ \/ \E p \in Found(call[t].uid) : WriterActive(t, p)
     \/ call[t].uid \in UnknownTypes
  /\ Goto(t, "fail")
  /\ UNCHANGED <<locks, memory, st, inst, writer_interfaces, owners, call, iface, oom, miscounted>>

\* BlackBoardInterfaceVersionMismatchException: the instance has no memory yet
OpenMismatch(t, i) ==
  /\ pc[t] = "find" /\ call[t].uid \in HashMayDiffer
  /\ \E p \in Found(call[t].uid) : ~WriterActive(t, p)
  /\ st' = [st EXCEPT ![i] = "fresh"]
  /\ inst' = [inst EXCEPT ![i] = [NoFields EXCEPT !.uid = call[t].uid]]
  /\ iface' = [iface EXCEPT ![t] = i]
  /\ Goto(t, "fail")
  /\ UNCHANGED <<locks, memory, writer_interfaces, owners, call, oom, miscounted>>

\* The chunk exists: the instance gets its memory and a reference to its lock.
OpenExisting(t, i, p) ==
  /\ pc[t] = "find" /\ call[t].uid \notin UnknownTypes
  /\ p \in Found(call[t].uid)
  /\ ~WriterActive(t, p)
  /\ LET l == rwlocks[chunk[p].serial] IN
       /\ lockref' = [lockref EXCEPT ![l] = @ + 1]
       /\ inst' = [inst EXCEPT ![i] = [uid |-> call[t].uid, mode |-> call[t].mode, ptr |-> p,
                                       serial |-> chunk[p].serial, lock |-> l]]
  /\ st' = [st EXCEPT ![i] = "fresh"]
  /\ iface' = [iface EXCEPT ![t] = i]
  /\ Goto(t, "commit")
  /\ UNCHANGED <<locks, chunk, rwlocks, writer_interfaces, owners, call, oom, miscounted>>

\* create_interface(): a new chunk, serial and lock
OpenCreate(t, i, p, l) ==
  /\ pc[t] = "find" /\ call[t].uid \notin UnknownTypes
  /\ Found(call[t].uid) = {} /\ chunk[p] = None /\ lockref[l] = 0
  /\ next_mem_serial \in Serials
  /\ chunk' = [chunk EXCEPT ![p] = [uid |-> call[t].uid, writer |-> 0, readers |-> 0,
                                    refcount |-> 0, serial |-> next_mem_serial]]
  /\ rwlocks' = [rwlocks EXCEPT ![next_mem_serial] = l]
  /\ lockref' = [lockref EXCEPT ![l] = 1]
  /\ inst' = [inst EXCEPT ![i] = [uid |-> call[t].uid, mode |-> call[t].mode, ptr |-> p,
                                  serial |-> next_mem_serial, lock |-> l]]
  /\ st' = [st EXCEPT ![i] = "fresh"]
  /\ iface' = [iface EXCEPT ![t] = i]
  /\ Goto(t, "commit")
  /\ UNCHANGED <<locks, writer_interfaces, owners, call, oom, miscounted>>

\* create_interface(): no chunk is free.  Its handler unlocks both mutexes and
\* throws again, so that the caller's handler (OpenFail) unlocks them once more.
OpenOutOfMemory(t, i) ==
  /\ pc[t] = "find" /\ call[t].uid \notin UnknownTypes
  /\ Found(call[t].uid) = {} /\ Allocated = Ptrs
  /\ st' = [st EXCEPT ![i] = "fresh"]
  /\ inst' = [inst EXCEPT ![i] = [NoFields EXCEPT !.uid = call[t].uid]]
  /\ iface' = [iface EXCEPT ![t] = i]
  /\ UnlockBoth
  /\ oom' = TRUE
  /\ Goto(t, "fail")
  /\ UNCHANGED <<memory, writer_interfaces, owners, call, miscounted>>

\* the common end: owners, access mode, header counters, unlock, notify
OpenCommit(t) ==
  LET i == iface[t]
      p == inst[i].ptr
      w == call[t].mode = "write"
  IN
  /\ pc[t] = "commit"
  /\ chunk[p] # None
  /\ IF w THEN /\ owner_writer' = [owner_writer EXCEPT ![call[t].uid] = i]
               /\ chunk' = [chunk EXCEPT ![p] = AddWriter(@)]
               /\ writer_interfaces' = [writer_interfaces EXCEPT ![inst[i].serial] = i]
               /\ UNCHANGED owner_readers
          ELSE /\ owner_readers' = [owner_readers EXCEPT ![call[t].uid] = @ \cup {i}]
               /\ chunk' = [chunk EXCEPT ![p] = AddReader(@)]
               /\ UNCHANGED <<owner_writer, writer_interfaces>>
  /\ st' = [st EXCEPT ![i] = "open"]
  /\ UnlockBoth
  /\ Return(t)
  /\ UNCHANGED <<rwlocks, lockref, inst, oom, miscounted>>

\* Mutant: the lock is not unreferenced.
DestroyKeepsLock(i) ==
  /\ st' = [st EXCEPT ![i] = "none"]
  /\ inst' = [inst EXCEPT ![i] = NoFields]
  /\ UNCHANGED lockref

\* ~Interface(): drop the lock reference if set_readwrite() was reached
Destroy(i) ==
  /\ st' = [st EXCEPT ![i] = "none"]
  /\ inst' = [inst EXCEPT ![i] = NoFields]
  /\ lockref' = [l \in Locks |-> IF l = inst[i].lock THEN lockref[l] - 1 ELSE lockref[l]]

\* Mutant: the catch block does not unlock.
OpenFailLocked(t) ==
  /\ pc[t] = "fail"
  /\ IF iface[t] # None THEN Destroy(iface[t]) ELSE UNCHANGED <<st, inst, lockref>>
  /\ Return(t)
  /\ UNCHANGED <<locks, chunk, rwlocks, writer_interfaces, owners, oom, miscounted>>

\* the catch block: delete the instance, unlock both mutexes, throw again
OpenFail(t) ==
  /\ pc[t] = "fail"
  /\ IF iface[t] # None THEN Destroy(iface[t]) ELSE UNCHANGED <<st, inst, lockref>>
  /\ UnlockBoth
  /\ Return(t)
  /\ UNCHANGED <<chunk, rwlocks, writer_interfaces, owners, oom, miscounted>>
-----------------------------------------------------------------------------
(* open_multiple_for_reading(): the chunks whose type and id match a       *)
(* pattern, here the set U of uids it matches, under both mutexes          *)

Matching(U) == {p \in Allocated : chunk[p].uid \in U}

CountReaders(P) ==
  chunk' = [p \in Ptrs |-> IF p \in P THEN AddReader(chunk[p]) ELSE chunk[p]]

OpenMultiple(t, U, f) ==
  /\ pc[t] = "idle" /\ mutex = None /\ memlock = None
  /\ Room(Cardinality(Matching(U)))
  /\ \A p, q \in Matching(U) : p # q => f[p] # f[q]
  /\ CountReaders(Matching(U))
  /\ st' = [i \in Instances |-> IF \E p \in Matching(U) : f[p] = i THEN "open" ELSE st[i]]
  /\ inst' = [i \in Instances |->
                IF \E p \in Matching(U) : f[p] = i
                THEN LET p == CHOOSE p \in Matching(U) : f[p] = i
                     IN  [uid |-> chunk[p].uid, mode |-> "read", ptr |-> p,
                          serial |-> chunk[p].serial, lock |-> rwlocks[chunk[p].serial]]
                ELSE inst[i]]
  /\ lockref' = [l \in Locks |->
                   lockref[l] + Cardinality({p \in Matching(U) : rwlocks[chunk[p].serial] = l})]
  /\ owner_readers' = [u \in Uids |-> owner_readers[u] \cup
                                      {f[p] : p \in {q \in Matching(U) : chunk[q].uid = u}}]
  /\ UNCHANGED <<locks, rwlocks, writer_interfaces, owner_writer, pc, call, iface, oom, miscounted>>

\* A version mismatch at some chunk: the instances made for the chunks P visited
\* before are deleted, but the counters of those chunks keep their increments.
OpenMultipleMismatch(t, U, P) ==
  /\ pc[t] = "idle" /\ mutex = None /\ memlock = None
  /\ P \subseteq Matching(U)
  /\ \E q \in Matching(U) \ P : chunk[q].uid \in HashMayDiffer
  /\ \A p \in P : chunk[p].refcount < MaxRefs
  /\ CountReaders(P)
  /\ miscounted' = miscounted \cup P
  /\ UNCHANGED <<locks, rwlocks, lockref, st, inst, writer_interfaces, owners, pc, call,
                 iface, oom>>
-----------------------------------------------------------------------------
(* close()                                                                 *)

Close(t, i) ==
  /\ pc[t] = "idle" /\ mutex = None /\ st[i] = "open"
  /\ mutex' = t
  /\ st' = [st EXCEPT ![i] = "closing"]
  /\ iface' = [iface EXCEPT ![t] = i]
  /\ Goto(t, "close")
  /\ UNCHANGED <<memlock, memory, inst, writer_interfaces, owners, call, oom, miscounted>>

\* Drop the reference.  The last one frees the chunk, for which
\* BlackBoardMemoryManager::free() takes the memory manager's mutex.
CloseRelease(t) ==
  LET i == iface[t]
      p == inst[i].ptr
      w == is_writer(i)
  IN
  /\ pc[t] = "close"
  /\ chunk[p] # None
  /\ IF chunk[p].refcount - 1 = 0
     THEN memlock = None /\ chunk' = [chunk EXCEPT ![p] = None]
     ELSE chunk' = [chunk EXCEPT ![p] = IF w THEN DropWriter(@) ELSE DropReader(@)]
  /\ IF w THEN writer_interfaces' = [writer_interfaces EXCEPT ![inst[i].serial] = None]
          ELSE UNCHANGED writer_interfaces
  /\ st' = [st EXCEPT ![i] = "closed"]
  /\ mutex' = None
  /\ Goto(t, "delete")
  /\ UNCHANGED <<memlock, rwlocks, lockref, inst, owners, call, iface, oom, miscounted>>

\* Mutant: whoever is the writer is forgotten.
ForgetAnyOwner(i) ==
  LET u == inst[i].uid IN
  IF is_writer(i)
  THEN owner_writer' = [owner_writer EXCEPT ![u] = None] /\ UNCHANGED owner_readers
  ELSE owner_readers' = [owner_readers EXCEPT ![u] = @ \ {i}] /\ UNCHANGED owner_writer

\* delete_interface_instance(): owner_info_ no longer names the instance
ForgetOwner(i) ==
  LET u == inst[i].uid IN
  IF is_writer(i)
  THEN /\ owner_writer' = [owner_writer EXCEPT ![u] = IF @ = i THEN None ELSE @]
       /\ UNCHANGED owner_readers
  ELSE /\ owner_readers' = [owner_readers EXCEPT ![u] = @ \ {i}]
       /\ UNCHANGED owner_writer

\* after the notifications, under the mutex again
CloseDelete(t) ==
  /\ pc[t] = "delete" /\ mutex = None
  /\ ForgetOwner(iface[t])
  /\ Destroy(iface[t])
  /\ Return(t)
  /\ UNCHANGED <<locks, chunk, rwlocks, writer_interfaces, oom, miscounted>>
-----------------------------------------------------------------------------
(* list_all() and list() read the headers under the memory manager's mutex *)

List(t) ==
  /\ pc[t] = "idle" /\ memlock = None
  /\ memlock' = t
  /\ Goto(t, "list")
  /\ UNCHANGED <<mutex, memory, st, inst, writer_interfaces, owners, call, iface, oom, miscounted>>

ListDone(t) ==
  /\ pc[t] = "list"
  /\ memlock' = None
  /\ Goto(t, "idle")
  /\ UNCHANGED <<mutex, memory, st, inst, writer_interfaces, owners, call, iface, oom, miscounted>>
-----------------------------------------------------------------------------
OpenStep(t) ==
  \/ \E u \in Uids, m \in Mode : Open(t, u, m)
  \/ OpenLockMemory(t)
  \/ OpenRefused(t)
  \/ \E i \in Unused : OpenMismatch(t, i)
  \/ \E i \in Unused, p \in Ptrs : OpenExisting(t, i, p)
  \/ \E i \in Unused, p \in Ptrs, l \in Locks : OpenCreate(t, i, p, l)
  \/ \E i \in Unused : OpenOutOfMemory(t, i)
  \/ OpenCommit(t)
  \/ OpenFail(t)

MultipleStep(t) ==
  \E U \in SUBSET Uids :
    \/ \E f \in [Matching(U) -> Unused] : OpenMultiple(t, U, f)
    \/ \E P \in SUBSET Ptrs : OpenMultipleMismatch(t, U, P)

CloseStep(t) ==
  \/ \E i \in Instances : Close(t, i)
  \/ CloseRelease(t)
  \/ CloseDelete(t)

Next == \E t \in Threads : OpenStep(t) \/ MultipleStep(t) \/ CloseStep(t) \/ List(t) \/ ListDone(t)

Spec == Init /\ [][Next]_vars
-----------------------------------------------------------------------------
(* Properties                                                              *)

\* the instances through which client code may access chunk memory
Live == {i \in Instances : st[i] \in {"open", "closing"}}

Users(p) == {i \in Live : inst[i].ptr = p}

\* "There can be only one writer at a time for any given interface": no two live
\* instances of one uid both went through open_for_writing().
SingleWriter ==
  \A i, j \in Live : is_writer(i) /\ is_writer(j) /\ inst[i].uid = inst[j].uid => i = j

\* Whoever may access memory through an instance finds its own interface there: the
\* chunk was not freed, nor freed and given to another interface, by some close().
MemoryAlive ==
  \A i \in Live : LET p == inst[i].ptr IN
    /\ p \in Allocated
    /\ chunk[p].uid = inst[i].uid /\ chunk[p].serial = inst[i].serial

\* close() frees a chunk when its refcount reaches zero: it never counts less than
\* the live instances of the chunk.
RefcountCovers ==
  \A p \in Allocated : chunk[p].refcount >= Cardinality(Users(p))

\* There is one writer at a time also while calls of other threads fail, unless they
\* run out of memory.
SingleWriterUnlessOom == ~oom => SingleWriter

\* No call that fails for want of a type or because of a version mismatch frees memory
\* that is in use: only one that runs out of memory may.
MemoryAliveUnlessOom == ~oom => MemoryAlive

\* Between the calls the header of a chunk describes its live instances: refcount
\* all of them, num_readers the reading ones, the flag the writing one; and a chunk
\* without instances is gone.  Only chunks that a failed open_multiple_for_reading()
\* had visited count too many.
HeaderExact ==
  ~oom /\ mutex = None => \A p \in Allocated \ miscounted :
    /\ Users(p) # {}
    /\ chunk[p].refcount = Cardinality(Users(p))
    /\ chunk[p].writer = 1 <=> \E i \in Users(p) : is_writer(i)
    /\ chunk[p].readers = Cardinality({i \in Users(p) : ~is_writer(i)})

\* Readers and the writer of an interface exclude each other through its RWLock:
\* they must all hold the same lock, and it must not have been deleted by the
\* last unref() of some other instance, nor kept alive by a leaked reference.
SharedLock ==
  /\ ~oom => \A i, j \in Live : inst[i].uid = inst[j].uid => inst[i].lock = inst[j].lock
  /\ \A l \in Locks : lockref[l] = Cardinality({i \in Instances : inst[i].lock = l})

\* writer_for_mem_serial() serves message transmission: the map holds exactly the
\* live writers, under the serial that the readers of the same chunk use, also
\* when serials are handed out again or an open fails.
WriterMapAgrees ==
  ~oom /\ mutex = None =>
    \A s \in Serials, i \in Instances :
      writer_interfaces[s] = i <=> i \in Live /\ is_writer(i) /\ inst[i].serial = s

\* owner_info_ is read by list_all() through pointers to instances: it names no
\* deleted instance, and a late delete of an old writer never hides the new one.
OwnersAgree ==
  \A u \in Uids :
    /\ owner_readers[u] = {i \in Instances : /\ st[i] \in {"open", "closing", "closed"}
                                             /\ inst[i].uid = u /\ ~is_writer(i)}
    /\ owner_writer[u] # None => /\ st[owner_writer[u]] # "none"
                                 /\ inst[owner_writer[u]].uid = u
    /\ \A i \in Live : inst[i].uid = u /\ is_writer(i) => owner_writer[u] = i

\* That holds while calls fail, but not once one has run out of memory.
OwnersAgreeUnlessOom == ~oom => OwnersAgree

\* Every way out of a call gives back the mutexes it took: a held mutex belongs to
\* a thread that is inside the section it guards.
LocksGivenBack ==
  /\ mutex # None => pc[mutex] \in {"memlock", "find", "commit", "fail", "close"}
  /\ memlock # None => pc[memlock] \in {"find", "commit", "fail", "list"}

(* The inductive invariant behind SingleWriter and MemoryAlive             *)

\* the arguments a thread works on
CallsTyped ==
  \A t \in Threads :
    /\ pc[t] \in {"memlock", "find", "commit"} => call[t].uid \in Uids
    /\ pc[t] \in {"commit", "close", "delete"} => iface[t] \in Instances

\* the sections that the two mutexes guard
SectionsGuarded ==
  \A t \in Threads :
    /\ pc[t] \in {"memlock", "find", "commit", "fail", "close"} => mutex = t
    /\ pc[t] \in {"find", "commit", "fail", "list"} => memlock = t

\* what a thread between find and commit knows about its chunk
CommitReady(t) ==
  LET i == iface[t]
      p == inst[i].ptr
  IN  /\ st[i] = "fresh"
      /\ inst[i].uid = call[t].uid /\ inst[i].mode = call[t].mode
      /\ p \in Allocated
      /\ chunk[p].uid = call[t].uid /\ chunk[p].serial = inst[i].serial
      /\ ~WriterActive(t, p)

\* the instance a thread works on is in the matching stage of its life
StagesMatch ==
  \A t \in Threads :
    /\ pc[t] \in {"idle", "memlock", "find", "list"} => iface[t] = None
    /\ pc[t] = "commit" => CommitReady(t)
    /\ pc[t] = "fail" => iface[t] = None \/ st[iface[t]] = "fresh"
    /\ pc[t] = "close" => st[iface[t]] = "closing"
    /\ pc[t] = "delete" => st[iface[t]] = "closed"

\* no two threads delete the same instance
DeletesDistinct ==
  \A t, v \in Threads :
    pc[t] = "delete" /\ pc[v] = "delete" /\ iface[t] = iface[v] => t = v

\* a chunk has at most one writing instance, and its flag tells
WritersFlagged ==
  /\ \A i \in Live : is_writer(i) => chunk[inst[i].ptr].writer = 1
  /\ \A i, j \in Live : is_writer(i) /\ is_writer(j) /\ inst[i].ptr = inst[j].ptr => i = j

ChunksDistinct == \A p, q \in Allocated : chunk[p].uid = chunk[q].uid => p = q

Consistent ==
  /\ SectionsGuarded /\ StagesMatch /\ DeletesDistinct
  /\ MemoryAlive /\ RefcountCovers /\ WritersFlagged /\ ChunksDistinct

\* All of it holds until a thread runs out of BlackBoard memory.
IInv == TypeOK /\ CallsTyped /\ (~oom => Consistent)

(* The bookkeeping behind the other invariants                             *)

SerialsDistinct == \A p, q \in Allocated : chunk[p].serial = chunk[q].serial => p = q

\* no object, no fields
UnusedBlank == \A i \in Instances : st[i] = "none" => inst[i] = NoFields

\* the instances that have the memory of an allocated chunk
Attached == Live \cup {iface[t] : t \in {v \in Threads : pc[v] = "commit"}}

LocksMapped == \A i \in Attached : inst[i].lock = rwlocks[inst[i].serial]

LocksCounted == \A l \in Locks : lockref[l] = Cardinality({i \in Instances : inst[i].lock = l})

WritersMapped ==
  \A s \in Serials, i \in Instances :
    writer_interfaces[s] = i <=> i \in Live /\ is_writer(i) /\ inst[i].serial = s

\* owner_info_ never names a reader as the writer, nor an instance not yet published
OwnersWrite ==
  \A u \in Uids : owner_writer[u] # None =>
    st[owner_writer[u]] \in {"open", "closing", "closed"} /\ is_writer(owner_writer[u])

\* The counters are exact, and a chunk without users was made for the open under way.
Readers(p) == {i \in Users(p) : ~is_writer(i)}

HeadersCount ==
  \A p \in Allocated \ miscounted :
    /\ chunk[p].refcount = Cardinality(Users(p))
    /\ chunk[p].readers = Cardinality(Readers(p))
    /\ chunk[p].writer = 1 => \E i \in Users(p) : is_writer(i)
    /\ Users(p) = {} => \E t \in Threads : pc[t] = "commit" /\ inst[iface[t]].ptr = p

Books == SerialsDistinct /\ LocksMapped /\ WritersMapped /\ OwnersAgree /\ OwnersWrite

\* Blank fields and lock references are right even after a failed allocation.
BInv == /\ UnusedBlank /\ LocksCounted /\ LocksGivenBack
        /\ ~oom => Books /\ HeadersCount

(* The registry of writers and readers that this module implements         *)
LiveWriters(u) == {i \in Live : inst[i].uid = u /\ is_writer(i)}

WriterOf  == [u \in Uids |-> IF LiveWriters(u) = {} THEN None
                             ELSE CHOOSE i \in LiveWriters(u) : TRUE]
ReadersOf == [u \in Uids |-> {i \in Live : inst[i].uid = u /\ ~is_writer(i)}]

Registry == INSTANCE BlackBoard WITH writer <- WriterOf, readers <- ReadersOf

\* open, open_multiple and close, with all their failures and interleavings, look to
\* the clients like atomic changes of a single-writer, multiple-reader registry, until
\* a call runs out of memory.
ImplementsBlackBoard ==
  Registry!Init /\ [][~oom' => Registry!Next]_<<WriterOf, ReadersOf>>
=============================================================================
