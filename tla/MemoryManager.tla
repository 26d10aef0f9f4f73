--------------------------- MODULE MemoryManager ----------------------------
(***************************************************************************)
(* BlackBoardMemoryManager: the segment is cut into chunks, each with its  *)
(* header in front of its data, and the headers are linked into a list of  *)
(* free and a list of allocated chunks, both sorted by address             *)
(* (libs/blackboard/internal/memory_manager.cpp).                          *)
(*                                                                         *)
(* A chunk is known by the address of its header; ptr is always Hdr beyond *)
(* it.  What a header that is in neither list still says is never read and *)
(* is forgotten.  alloc() and free() hold mutex_ throughout.               *)
(***************************************************************************)
EXTENDS Integers, FiniteSets, FiniteSetsExt, SequencesExt, Iteration

CONSTANTS
  MemSize,      \* memsize_
  Hdr,          \* sizeof(chunk_list_t), also BBMM_MIN_FREE_CHUNK_SIZE
  Sizes         \* the sizes that clients ask for

ASSUME MemoryAssumption == /\ Hdr \in Nat \ {0} /\ MemSize \in Nat /\ MemSize > Hdr
                           /\ Sizes \subseteq Nat \ {0}

VARIABLES free_list_head, alloc_list_head,
          mem                  \* the headers: next, size and overhang by address

vars == <<free_list_head, alloc_list_head, mem>>

Null == -1
Addr == 0 .. MemSize - 1

NoHeader == [next |-> Null, size |-> 0, overhang |-> 0]

\* what comes from each chunk on, if the headers are m
Along(m) ==
  LET from[x \in Addr \cup {Null}] == IF x = Null THEN <<>> ELSE <<x>> \o from[m[x].next]
  IN  from

\* the chunks of a list, from its head on
Chain(head, m) == Along(m)[head]

Free == ToSet(Chain(free_list_head, mem))
Allocated == ToSet(Chain(alloc_list_head, mem))

\* the address behind a chunk
Behind(x) == x + Hdr + mem[x].size

TypeOK ==
  /\ free_list_head \in Addr \cup {Null} /\ alloc_list_head \in Addr \cup {Null}
  /\ mem \in [Addr -> [next : Addr \cup {Null}, size : 0..MemSize, overhang : 0..2 * Hdr]]

\* the heap constructor: one free chunk
Init ==
  /\ free_list_head = 0 /\ alloc_list_head = Null
  /\ mem = [x \in Addr |-> IF x = 0 THEN [NoHeader EXCEPT !.size = MemSize - Hdr] ELSE NoHeader]
-----------------------------------------------------------------------------
(* The lists, as pairs of a head and the headers                           *)

\* Mutant: the new head is not set.
list_remove_head_stays(head, m, x) ==
  LET before == {p \in ToSet(Chain(head, m)) : m[p].next = x} IN
  [head |-> head,
   mem |-> [p \in Addr |-> IF p \in before THEN [m[p] EXCEPT !.next = m[x].next] ELSE m[p]]]

list_remove(head, m, x) ==
  LET before == {p \in ToSet(Chain(head, m)) : m[p].next = x} IN
  [head |-> IF head = x THEN m[x].next ELSE head,
   mem |-> [p \in Addr |-> IF p \in before THEN [m[p] EXCEPT !.next = m[x].next] ELSE m[p]]]

\* in front of the first chunk with a larger address, or at the end
list_add(head, m, x) ==
  LET chain == Chain(head, m)
      i == SelectInSeq(chain, LAMBDA l : x < l)
      l == IF i = 0 THEN Null ELSE chain[i]
      p == IF i = 0 THEN Len(chain) ELSE i - 1
  IN  [head |-> IF p = 0 THEN x ELSE head,
       mem |-> [y \in Addr |-> IF y = x THEN [m[x] EXCEPT !.next = l]
                               ELSE IF p > 0 /\ y = chain[p] THEN [m[y] EXCEPT !.next = x]
                               ELSE m[y]]]

\* both lists in place; headers that were merged away are forgotten
SetLists(fl, al, m) ==
  /\ free_list_head' = fl /\ alloc_list_head' = al
  /\ mem' = [x \in Addr |-> IF x \in ToSet(Chain(fl, m)) \cup ToSet(Chain(al, m))
                            THEN m[x] ELSE NoHeader]
-----------------------------------------------------------------------------
(* alloc()                                                                 *)

\* the smallest free chunk that is big enough, the first of several
Fitting(n) == {x \in Free : mem[x].size >= n}
BestFit(n) == CHOOSE x \in Fitting(n) : \A y \in Fitting(n) :
                \/ mem[x].size < mem[y].size
                \/ mem[x].size = mem[y].size /\ x <= y

\* Mutants: the header of the taken chunk is counted once more; the rest's header is not taken off its size.
WorthSplittingLate(f, n) == mem[f].size >= n + Hdr + Hdr + Hdr
RestSizeWithHeader(f, n) == mem[f].size - n

WorthSplitting(f, n) == mem[f].size >= n + Hdr + Hdr
RestSize(f, n) == mem[f].size - n - Hdr

alloc(n) ==
  /\ Fitting(n) # {}
  /\ LET f == BestFit(n)
         cut == list_remove(free_list_head, mem, f)
         nfc == f + Hdr + n
         rest == list_add(cut.head, [cut.mem EXCEPT ![nfc] = [NoHeader EXCEPT !.size = RestSize(f, n)]], nfc)
         split == IF WorthSplitting(f, n)
                  THEN [head |-> rest.head, mem |-> [rest.mem EXCEPT ![f].size = n]]
                  ELSE [cut EXCEPT !.mem[f].overhang = mem[f].size - n]
         al == list_add(alloc_list_head, split.mem, f)
     IN  SetLists(split.head, al.head, al.mem)

\* OutOfMemoryException
allocFails(n) == Fitting(n) = {} /\ UNCHANGED vars
-----------------------------------------------------------------------------
(* free()                                                                  *)

\* "re-unite" a free chunk with the next one
Merge(m, l) ==
  LET n == m[l].next IN
  IF n # Null /\ l + Hdr + m[l].size + Hdr = n + Hdr
  THEN [m EXCEPT ![l].size = @ + m[n].size + Hdr, ![l].next = m[n].next]
  ELSE m

\* one pass: it goes on from the chunk that was just merged away, so a run of three
\* is left as two
MergePass(head, m) == Iterated(Merge, m, Chain(head, m))

\* Mutant: one pass only.
cleanup_free_chunks_once(head, m) == MergePass(head, m)

\* passes until nothing changes; each but the last takes a chunk off the list
cleanup_free_chunks(head, m) ==
  LET passes[k \in 0..MemSize] == IF k = 0 THEN m ELSE MergePass(head, passes[k - 1])
  IN  passes[Len(Chain(head, m))]

free(ac) ==
  LET al == list_remove(alloc_list_head, mem, ac)
      fl == list_add(free_list_head, [al.mem EXCEPT ![ac].overhang = 0], ac)
  IN  SetLists(fl.head, al.head, cleanup_free_chunks(fl.head, fl.mem))

Next == \/ \E n \in Sizes : alloc(n) \/ allocFails(n)
        \/ \E ac \in Allocated : free(ac)

Spec == Init /\ [][Next]_vars
-----------------------------------------------------------------------------
(* Properties                                                              *)

\* Whatever sequence of calls came before, check() of the code finds nothing: no chunk
\* is in both lists, no unmanaged bytes between chunks, all of the memory covered.
CheckFindsNothing ==
  LET Other(x) == {y \in (IF x \in Free THEN Allocated ELSE Free) : y > x}
  IN  /\ Free \cap Allocated = {}
      /\ \A x \in Free \cup Allocated :
           IF Other(x) = {} THEN mem[x].next # Null => Behind(x) = mem[x].next
           ELSE Behind(x) \in {mem[x].next, Min(Other(x))}
      /\ MapThenSumSet(LAMBDA x : mem[x].size + Hdr, Free \cup Allocated) = MemSize

\* "After this method ran it is guaranteed that the maximum available memory resides in
\* one chunk": the longest run of bytes between allocated chunks is one free chunk.
MaxInOneChunk ==
  LET used == UNION {x .. Behind(x) - 1 : x \in Allocated}
      holes == {h \in Addr \X Addr : h[1] <= h[2] /\ (h[1]..h[2]) \cap used = {}}
      longest == Max({0} \cup {h[2] - h[1] + 1 : h \in holes})
  IN  longest = Max({0} \cup {mem[x].size + Hdr : x \in Free})

\* Both lists lead to higher addresses only.
LinksAscend == \A x \in Addr : mem[x].next # Null => mem[x].next > x

\* The chunks of both lists follow one another from the first byte of the segment to the
\* last.
Tiled ==
  /\ Free \cap Allocated = {}
  /\ 0 \in Free \cup Allocated
  /\ \A x \in Free \cup Allocated : Behind(x) \in Free \cup Allocated \cup {MemSize}
  /\ \A x, y \in Free \cup Allocated : x < y => Behind(x) <= y

\* No free chunk is left in front of another one.
FreeMerged == \A x \in Free : Behind(x) \notin Free

\* A client got at least one byte, a free chunk has nothing overhanging.
OverhangFits ==
  /\ \A x \in Free : mem[x].overhang = 0
  /\ \A x \in Allocated : mem[x].overhang < mem[x].size

\* the inductive invariant
HInv == TypeOK /\ LinksAscend /\ Tiled /\ FreeMerged /\ OverhangFits

\* The data areas that clients hold are kept apart and never moved.
Areas == {<<x + Hdr, mem[x].size - mem[x].overhang>> : x \in Allocated}
Regions == INSTANCE Allocator WITH regions <- Areas
ImplementsAllocator == Regions!Spec
=============================================================================
