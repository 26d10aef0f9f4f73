------------------------ MODULE MemoryManagerProofs -------------------------
(***************************************************************************)
(* The chunk lists of the BlackBoard memory, what alloc(), free() and the  *)
(* merging of free chunks make of them, and the areas that clients hold,   *)
(* for any size of the segment, of the headers and of the requests.        *)
(***************************************************************************)
EXTENDS MemoryManager, IterationProofs, FiniteSetTheorems

USE MemoryAssumption

-----------------------------------------------------------------------------
(* Lists of chunks                                                         *)

Places == Addr \cup {Null}
Header == [next : Places, size : Nat, overhang : Nat]

\* headers whose links lead to higher addresses
Heaps == {m \in [Addr -> Header] : \A x \in Addr : m[x].next # Null => m[x].next > x}

\* Addresses are numbers, and the null pointer is none of them.
LEMMA PlaceIs ==
  /\ Null = -1 /\ Addr \subseteq Nat /\ Null \notin Addr /\ Addr \subseteq Places /\ Null \in Places
  /\ \A x : x \in Addr <=> x \in Nat /\ x < MemSize
BY DEF Null, Addr, Places

\* A header and where its link leads.
LEMMA HeapAt ==
  ASSUME NEW m \in Heaps, NEW x \in Addr
  PROVE  /\ m[x] \in Header /\ m[x].size \in Nat /\ m[x].overhang \in Nat
         /\ m[x].next \in Places /\ (m[x].next # Null => m[x].next \in Addr /\ m[x].next > x)
<1>1. m[x] \in Header /\ (m[x].next # Null => m[x].next > x)
  BY DEF Heaps
<1> QED
  BY <1>1 DEF Header, Places

\* Induction from the end of the segment.
LEMMA CountDown ==
  ASSUME NEW T, Null \in T, \A x \in Addr : (\A y \in Addr : y > x => y \in T) => x \in T
  PROVE  Places \subseteq T
<1> SUFFICES ASSUME NEW z \in Addr, z \notin T PROVE FALSE
  BY DEF Places
<1> DEFINE D == {MemSize - x : x \in {y \in Addr : y \notin T}}
<1>1. D \in SUBSET Nat /\ D # {}
  <2>1. \A x \in Addr : MemSize - x \in Nat
    BY DEF Addr
  <2> QED
    BY <2>1
<1>2. PICK d \in D : \A e \in D : d <= e
  <2> HIDE DEF D
  <2> QED
    BY <1>1, SmallestExists
<1>3. PICK x \in Addr : x \notin T /\ d = MemSize - x
  OBVIOUS
<1>4. PICK y \in Addr : y > x /\ y \notin T
  BY <1>3
<1>5. MemSize - y \in D
  BY <1>4
<1>6. MemSize - x <= MemSize - y
  <2> HIDE DEF D
  <2> QED
    BY <1>2, <1>3, <1>5
<1> QED
  BY <1>4, <1>6, PlaceIs

\* g solves the recursive definition of what comes from each chunk on.
Solves(g, m) ==
  /\ g[Null] = <<>>
  /\ \A x \in Addr : g[x] = <<x>> \o g[m[x].next]

LEMMA ConsChunk ==
  ASSUME NEW x \in Addr, NEW r \in Seq(Addr)
  PROVE  /\ <<x>> \o r \in Seq(Addr) /\ Len(<<x>> \o r) = Len(r) + 1
         /\ (<<x>> \o r)[1] = x /\ \A k \in 1..Len(r) : (<<x>> \o r)[k + 1] = r[k]
OBVIOUS

\* Because links lead to higher addresses, following them comes to an end.
LEMMA AlongSolves ==
  ASSUME NEW m \in Heaps
  PROVE  Along(m) \in [Places -> Seq(Addr)] /\ Solves(Along(m), m)
<1> DEFINE Dom(k) == {Null} \cup {x \in Addr : x >= MemSize - k}
           Sol(k) == {f \in [Dom(k) -> Seq(Addr)] :
                        /\ f[Null] = <<>>
                        /\ \A x \in Addr : x >= MemSize - k => f[x] = <<x>> \o f[m[x].next]}
           T == {k \in 0..MemSize : Sol(k) # {}}
<1>1. 0 \in T
  <2>1. Dom(0) = {Null} /\ \A x \in Addr : ~(x >= MemSize - 0)
    BY DEF Addr
  <2>2. [x \in {Null} |-> <<>>] \in Sol(0)
    BY <2>1
  <2>3. Sol(0) # {}
    BY <2>2
  <2> HIDE DEF Sol
  <2> QED
    BY <2>3
<1>2. ASSUME NEW i \in 1..MemSize, i - 1 \in T PROVE i \in T
  <2>1. PICK f \in [Dom(i - 1) -> Seq(Addr)] :
          /\ f[Null] = <<>>
          /\ \A x \in Addr : x >= MemSize - (i - 1) => f[x] = <<x>> \o f[m[x].next]
    BY <1>2
  <2>2. PICK a \in Addr : a = MemSize - i
    BY DEF Addr
  <2>3. \A x \in Addr : /\ x >= MemSize - i <=> x = a \/ x >= MemSize - (i - 1)
                        /\ x > a => x >= MemSize - (i - 1)
                        /\ ~(a >= MemSize - (i - 1))
    BY <2>2 DEF Addr
  <2>4. \A x \in Addr : x >= MemSize - i => m[x].next \in Dom(i - 1)
    <3> SUFFICES ASSUME NEW x \in Addr, x >= MemSize - i, m[x].next # Null PROVE m[x].next \in Dom(i - 1)
      OBVIOUS
    <3>1. PICK y \in Addr : y = m[x].next /\ y > x
      BY HeapAt
    <3>2. y > a
      BY <2>2, <3>1 DEF Addr
    <3> QED
      BY <2>3, <3>1, <3>2
  <2>5. \A x \in Dom(i - 1) : f[x] \in Seq(Addr)
    BY <2>1
  <2> DEFINE h == [x \in Dom(i) |-> IF x = a THEN <<a>> \o f[m[a].next] ELSE f[x]]
  <2>6. a # Null /\ a >= MemSize - i /\ Dom(i) = Dom(i - 1) \cup {a} /\ a \notin Dom(i - 1)
    BY <2>2, <2>3, PlaceIs
  <2>7. <<a>> \o f[m[a].next] \in Seq(Addr)
    BY <2>4, <2>5, <2>6, ConsChunk
  <2>8. h \in [Dom(i) -> Seq(Addr)]
    BY <2>5, <2>6, <2>7
  <2>9. \A x \in Dom(i - 1) : h[x] = f[x]
    BY <2>6
  <2>10. h[a] = <<a>> \o f[m[a].next]
    BY <2>6
  <2>11. h[Null] = <<>>
    BY <2>1, <2>9
  <2>12. ASSUME NEW x \in Addr, x >= MemSize - i PROVE h[x] = <<x>> \o h[m[x].next]
    <3>1. h[m[x].next] = f[m[x].next]
      BY <2>4, <2>9, <2>12
    <3>2. CASE x = a
      BY <2>10, <3>1, <3>2
    <3>3. CASE x # a
      <4>1. x >= MemSize - (i - 1)
        BY <2>3, <2>12, <3>3
      <4>2. x \in Dom(i - 1)
        BY <4>1
      <4> QED
        BY <2>1, <2>9, <3>1, <4>1, <4>2
    <3> QED
      BY <3>2, <3>3
  <2>13. h \in Sol(i)
    <3> HIDE DEF h
    <3> QED
      BY <2>8, <2>11, <2>12
  <2>14. Sol(i) # {}
    BY <2>13
  <2> HIDE DEF Sol
  <2> QED
    BY <2>14
<1>3. 0..MemSize \subseteq T
  <2> HIDE DEF T
  <2> QED
    BY <1>1, <1>2, CountUp
<1>4. MemSize \in T /\ Dom(MemSize) = Places
  <2>1. \A x \in Addr : x >= MemSize - MemSize
    BY DEF Addr
  <2>2. Dom(MemSize) = Places
    BY <2>1 DEF Places
  <2>3. MemSize \in T
    <3> HIDE DEF T
    <3> QED
      BY <1>3
  <2> QED
    BY <2>2, <2>3
<1>5. PICK f \in [Places -> Seq(Addr)] : f[Null] = <<>> /\ \A x \in Addr : f[x] = <<x>> \o f[m[x].next]
  <2>1. \A x \in Addr : x >= MemSize - MemSize
    BY DEF Addr
  <2> QED
    BY <1>4, <2>1
<1> DEFINE Eq(g) == g = [x \in Addr \cup {Null} |-> IF x = Null THEN <<>> ELSE <<x>> \o g[m[x].next]]
<1>6. Eq(f)
  <2>1. f = [x \in Places |-> f[x]]
    BY <1>5
  <2>2. \A x \in Places : f[x] = IF x = Null THEN <<>> ELSE <<x>> \o f[m[x].next]
    BY <1>5 DEF Places
  <2> QED
    BY <2>1, <2>2 DEF Places
<1>7. Along(m) = CHOOSE g : Eq(g)
  BY DEF Along
<1>8. Eq(Along(m))
  <2> HIDE DEF Eq
  <2> QED
    BY <1>6, <1>7
<1>9. PICK g : g = Along(m)
  OBVIOUS
<1>10. g = [x \in Places |-> g[x]] /\ Solves(g, m)
  <2>1. Eq(g)
    BY <1>8, <1>9
  <2> QED
    BY <2>1, PlaceIs DEF Places, Solves
<1> HIDE DEF Eq
<1>11. Places \subseteq {x \in Places : g[x] \in Seq(Addr)}
  <2> DEFINE U == {x \in Places : g[x] \in Seq(Addr)}
  <2>1. Null \in U
    <3>1. g[Null] = <<>> /\ <<>> \in Seq(Addr)
      BY <1>10 DEF Solves
    <3> QED
      BY <3>1, PlaceIs
  <2>2. ASSUME NEW x \in Addr, \A y \in Addr : y > x => y \in U PROVE x \in U
    <3>1. m[x].next \in U
      BY <2>1, <2>2, HeapAt
    <3>2. PICK r \in Seq(Addr) : r = g[m[x].next]
      BY <3>1
    <3>3. g[x] = <<x>> \o r
      BY <1>10, <3>2 DEF Solves
    <3>4. g[x] \in Seq(Addr) /\ x \in Places
      BY <3>3, ConsChunk, PlaceIs
    <3> QED
      BY <3>4
  <2> HIDE DEF U
  <2>3. Places \subseteq U
    BY <2>1, <2>2, CountDown
  <2> QED
    BY <2>3 DEF U
<1>12. g \in [Places -> Seq(Addr)]
  BY <1>10, <1>11
<1> QED
  BY <1>9, <1>10, <1>12

\* q is in the order of the addresses, and each chunk has the link to the next.
InOrder(q, m) ==
  /\ \A i, j \in 1..Len(q) : i < j => q[i] < q[j]
  /\ \A i \in 1..Len(q) : m[q[i]].next = IF i = Len(q) THEN Null ELSE q[i + 1]

\* What comes from a place on: ascending addresses, each linked to the next.
LEMMA AlongInOrder ==
  ASSUME NEW m \in Heaps, NEW x \in Places
  PROVE  /\ Along(m)[x] \in Seq(Addr) /\ InOrder(Along(m)[x], m)
         /\ x # Null => Len(Along(m)[x]) >= 1 /\ Along(m)[x][1] = x
         /\ x = Null => Along(m)[x] = <<>>
<1>1. PICK g \in [Places -> Seq(Addr)] : g = Along(m) /\ Solves(g, m)
  BY AlongSolves
<1> DEFINE P(y) == /\ InOrder(g[y], m)
                   /\ y # Null => Len(g[y]) >= 1 /\ g[y][1] = y
           T == {y \in Places : P(y)}
<1>2. g[Null] = <<>>
  BY <1>1 DEF Solves
<1>3. Null \in T
  <2>1. \A i \in 1..0 : FALSE
    OBVIOUS
  <2>2. InOrder(<<>>, m)
    BY <2>1 DEF InOrder
  <2> QED
    BY <1>2, <2>2, PlaceIs
<1>4. ASSUME NEW y \in Addr, \A z \in Addr : z > y => z \in T PROVE y \in T
  <2>1. PICK z \in Places : z = m[y].next /\ z \in T /\ (z # Null => z \in Addr /\ z > y)
    BY <1>3, <1>4, HeapAt
  <2>2. PICK r \in Seq(Addr) : r = g[z]
    OBVIOUS
  <2>3. PICK q \in Seq(Addr) : q = g[y]
    BY PlaceIs
  <2>4. PICK n \in Nat : n = Len(r)
    OBVIOUS
  <2>5. Len(q) = n + 1 /\ q[1] = y /\ \A k \in 1..n : q[k + 1] = r[k]
    <3>1. q = <<y>> \o r
      BY <1>1, <2>1, <2>2, <2>3 DEF Solves
    <3> QED
      BY <2>4, <3>1, ConsChunk
  <2>6. /\ \A i, j \in 1..n : i < j => r[i] < r[j]
        /\ \A i \in 1..n : m[r[i]].next = IF i = n THEN Null ELSE r[i + 1]
        /\ z # Null => n >= 1 /\ r[1] = z
        /\ z = Null => n = 0
    BY <1>2, <2>1, <2>2, <2>4 DEF InOrder
  <2>7. \A k \in 1..n : r[k] \in Addr /\ r[k] > y
    <3> SUFFICES ASSUME NEW k \in 1..n PROVE r[k] \in Addr /\ r[k] > y
      OBVIOUS
    <3>1. z # Null /\ 1 \in 1..n /\ r[1] = z /\ z \in Addr /\ z > y /\ r[k] \in Addr
      BY <2>1, <2>4, <2>6
    <3>2. r[k] >= z
      BY <2>6, <3>1, PlaceIs
    <3> QED
      BY <3>1, <3>2, PlaceIs
  <2>8. ASSUME NEW k \in 1..(n + 1), k # 1 PROVE k - 1 \in 1..n /\ q[k] = r[k - 1]
    <3>1. PICK j \in 1..n : k = j + 1
      <4>1. k - 1 \in 1..n /\ k = (k - 1) + 1
        BY <2>8
      <4> QED
        BY <4>1
    <3> QED
      BY <2>5, <3>1
  <2>9. ASSUME NEW i \in 1..(n + 1), NEW j \in 1..(n + 1), i < j PROVE q[i] < q[j]
    <3>1. j # 1 /\ j - 1 \in 1..n /\ q[j] = r[j - 1]
      BY <2>8, <2>9
    <3>2. CASE i = 1
      BY <2>5, <2>7, <3>1, <3>2, PlaceIs
    <3>3. CASE i # 1
      <4>1. i - 1 \in 1..n /\ q[i] = r[i - 1] /\ i - 1 < j - 1
        BY <2>8, <2>9, <3>3
      <4> QED
        BY <2>6, <3>1, <4>1
    <3> QED
      BY <3>2, <3>3
  <2>10. ASSUME NEW i \in 1..(n + 1) PROVE m[q[i]].next = IF i = n + 1 THEN Null ELSE q[i + 1]
    <3>1. CASE i = 1
      <4>1. m[q[1]].next = z
        BY <2>1, <2>5
      <4>2. CASE n = 0
        BY <2>6, <3>1, <4>1, <4>2
      <4>3. CASE n # 0
        <5>1. 1 \in 1..n /\ q[1 + 1] = r[1] /\ r[1] = z /\ i # n + 1 /\ i + 1 = 1 + 1
          BY <2>5, <2>6, <3>1, <4>3
        <5> QED
          BY <3>1, <4>1, <5>1
      <4> QED
        BY <4>2, <4>3
    <3>2. CASE i # 1
      <4>1. PICK h \in 1..n : h = i - 1 /\ q[i] = r[h]
        BY <2>8, <3>2
      <4>2. m[r[h]].next = IF h = n THEN Null ELSE r[h + 1]
        BY <2>6
      <4>3. CASE h = n
        BY <4>1, <4>2, <4>3
      <4>4. CASE h # n
        <5>1. h + 1 \in 1..n /\ q[(h + 1) + 1] = r[h + 1] /\ i # n + 1 /\ i + 1 = (h + 1) + 1
          BY <2>5, <4>1, <4>4
        <5> QED
          BY <4>1, <4>2, <4>4, <5>1
      <4> QED
        BY <4>3, <4>4
    <3> QED
      BY <3>1, <3>2
  <2>11. InOrder(q, m) /\ Len(q) >= 1
    <3>1. PICK l \in Nat : l = n + 1 /\ l = Len(q) /\ l >= 1
      BY <2>5
    <3>2. \A i, j \in 1..l : i < j => q[i] < q[j]
      BY <2>9, <3>1
    <3>3. \A i \in 1..l : m[q[i]].next = IF i = l THEN Null ELSE q[i + 1]
      BY <2>10, <3>1
    <3> QED
      BY <3>1, <3>2, <3>3 DEF InOrder
  <2> QED
    BY <2>3, <2>5, <2>11, PlaceIs
<1>5. Places \subseteq T
  <2> HIDE DEF T
  <2> QED
    BY <1>3, <1>4, CountDown
<1>6. P(x) /\ g[x] \in Seq(Addr)
  BY <1>5
<1> QED
  BY <1>1, <1>2, <1>6

\* y comes after x in the order of S.
After(S, x, y) ==
  \/ y = Null /\ \A z \in S : z <= x
  \/ y \in S /\ y > x /\ \A z \in S : z > x => z >= y

\* With the headers m, head is the head of a list of the chunks in S.
ListOf(head, m, S) ==
  /\ S \subseteq Addr /\ After(S, Null, head)
  /\ \A x \in S : After(S, x, m[x].next)

\* The chunks on a chain, by their positions.
LEMMA InChain ==
  ASSUME NEW q \in Seq(Addr)
  PROVE  ToSet(q) \subseteq Addr /\ \A x : x \in ToSet(q) <=> \E k \in 1..Len(q) : q[k] = x
BY DEF ToSet

\* The chunks on a chain are a list.
LEMMA ChainLists ==
  ASSUME NEW m \in Heaps, NEW head \in Places
  PROVE  ListOf(head, m, ToSet(Chain(head, m)))
<1>1. PICK q \in Seq(Addr) : q = Chain(head, m) /\ InOrder(q, m)
                             /\ (head # Null => Len(q) >= 1 /\ q[1] = head) /\ (head = Null => q = <<>>)
  BY AlongInOrder DEF Chain
<1>2. PICK n \in Nat : n = Len(q)
  OBVIOUS
<1>3. /\ \A i, j \in 1..n : i < j => q[i] < q[j]
      /\ \A i \in 1..n : m[q[i]].next = IF i = n THEN Null ELSE q[i + 1]
  BY <1>1, <1>2 DEF InOrder
<1>4. ToSet(q) \subseteq Addr /\ \A x : x \in ToSet(q) <=> \E k \in 1..n : q[k] = x
  BY <1>2, InChain
<1>5. \A k \in 1..n : q[k] \in Nat
  BY <1>4, PlaceIs
<1>6. After(ToSet(q), Null, head)
  <2>1. CASE head = Null
    <3>1. \A x : x \notin ToSet(q)
      BY <1>1, <1>2, <1>4, <2>1
    <3> QED
      BY <2>1, <3>1 DEF After
  <2>2. CASE head # Null
    <3>1. 1 \in 1..n /\ q[1] = head /\ head \in ToSet(q) /\ head > Null
      BY <1>1, <1>2, <1>4, <2>2, PlaceIs DEF Places
    <3>2. \A k \in 1..n : q[k] >= head
      BY <1>3, <1>5, <3>1
    <3> QED
      BY <1>4, <3>1, <3>2 DEF After
  <2> QED
    BY <2>1, <2>2
<1>7. ASSUME NEW x \in ToSet(q) PROVE After(ToSet(q), x, m[x].next)
  <2>1. PICK k \in 1..n : q[k] = x
    BY <1>4
  <2>2. CASE k = n
    <3>1. \A j \in 1..n : q[j] <= x
      BY <1>3, <1>5, <2>1, <2>2
    <3> QED
      BY <1>3, <1>4, <2>1, <2>2, <3>1 DEF After
  <2>3. CASE k # n
    <3>1. PICK l \in 1..n : l = k + 1 /\ m[x].next = q[l]
      <4>1. k + 1 \in 1..n /\ m[x].next = q[k + 1]
        BY <1>3, <2>1, <2>3
      <4> QED
        BY <4>1
    <3>2. q[l] > x /\ q[l] \in ToSet(q)
      BY <1>3, <1>4, <1>5, <2>1, <3>1
    <3>3. ASSUME NEW j \in 1..n, q[j] > x PROVE q[j] >= q[l]
      <4>1. j > k
        <5>1. j # k /\ ~(j < k)
          BY <1>3, <1>5, <2>1, <3>3
        <5> QED
          BY <5>1
      <4>2. j = l \/ j > l
        BY <3>1, <4>1
      <4> QED
        BY <1>3, <1>5, <4>2
    <3> QED
      BY <1>4, <3>1, <3>2, <3>3 DEF After
  <2> QED
    BY <2>2, <2>3
<1> QED
  BY <1>1, <1>4, <1>6, <1>7 DEF ListOf

\* Its chunks are on the chain.
LEMMA ListChains ==
  ASSUME NEW m \in Heaps, NEW head, NEW S, ListOf(head, m, S)
  PROVE  head \in Places /\ ToSet(Chain(head, m)) = S
<1>1. PICK g \in [Places -> Seq(Addr)] : g = Along(m) /\ Solves(g, m)
  BY AlongSolves
<1>2. S \subseteq Addr /\ After(S, Null, head) /\ \A x \in S : After(S, x, m[x].next)
  BY DEF ListOf
<1> DEFINE T == {y \in Places : y \in S => \A z : z \in ToSet(g[y]) <=> z \in S /\ z >= y}
<1>3. Null \in T
  BY <1>2, PlaceIs
<1>4. ASSUME NEW y \in Addr, \A z \in Addr : z > y => z \in T PROVE y \in T
  <2> SUFFICES ASSUME y \in S, NEW v PROVE v \in ToSet(g[y]) <=> v \in S /\ v >= y
    BY PlaceIs
  <2>1. PICK z \in Places : z = m[y].next /\ (z # Null => z \in Addr /\ z > y)
    BY HeapAt
  <2>2. PICK r \in Seq(Addr) : r = g[z]
    OBVIOUS
  <2>3. PICK q \in Seq(Addr) : q = g[y] /\ q = <<y>> \o r
    BY <1>1, <2>1, <2>2, PlaceIs DEF Solves
  <2>4. v \in ToSet(q) <=> v = y \/ v \in ToSet(r)
    <3>1. PICK n \in Nat : n = Len(r)
      OBVIOUS
    <3>2. Len(q) = n + 1 /\ q[1] = y /\ \A k \in 1..n : q[k + 1] = r[k]
      BY <2>3, <3>1, ConsChunk
    <3>3. (v \in ToSet(q) <=> \E k \in 1..(n + 1) : q[k] = v) /\ (v \in ToSet(r) <=> \E k \in 1..n : r[k] = v)
      BY <3>1, <3>2, InChain
    <3>4. ASSUME v \in ToSet(q), v # y PROVE v \in ToSet(r)
      <4>1. PICK k \in 1..(n + 1) : q[k] = v
        BY <3>3, <3>4
      <4>2. PICK j \in 1..n : k = j + 1
        <5>1. k - 1 \in 1..n /\ k = (k - 1) + 1
          BY <3>2, <3>4, <4>1
        <5> QED
          BY <5>1
      <4> QED
        BY <3>2, <3>3, <4>1, <4>2
    <3>5. ASSUME v \in ToSet(r) PROVE v \in ToSet(q)
      <4>1. PICK k \in 1..n : r[k] = v
        BY <3>3, <3>5
      <4>2. k + 1 \in 1..(n + 1) /\ q[k + 1] = v
        BY <3>2, <4>1
      <4> QED
        BY <3>3, <4>2
    <3>6. 1 \in 1..(n + 1) /\ q[1] = y
      BY <3>2
    <3> QED
      BY <3>3, <3>4, <3>5, <3>6
  <2>5. After(S, y, z)
    BY <1>2, <2>1
  <2>6. CASE z = Null
    <3>1. r = <<>> /\ Len(r) = 0
      BY <1>1, <2>2, <2>6 DEF Solves
    <3>2. v \notin ToSet(r)
      <4>1. \A k \in 1..Len(r) : FALSE
        BY <3>1
      <4> QED
        BY <4>1, InChain
    <3>3. \A w \in S : w <= y /\ w \in Nat
      BY <1>2, <2>5, <2>6, PlaceIs DEF After
    <3>4. y >= y /\ (v \in S /\ v >= y => v = y)
      <4>1. y \in Nat
        BY PlaceIs
      <4>2. ASSUME v \in S, v >= y PROVE v = y
        <5>1. v <= y /\ v \in Nat
          BY <3>3, <4>2
        <5> QED
          BY <4>1, <4>2, <5>1
      <4> QED
        BY <4>1, <4>2
    <3>5. v \in ToSet(q) <=> v = y
      BY <2>4, <3>2
    <3> QED
      BY <2>3, <3>4, <3>5
  <2>7. CASE z # Null
    <3>1. z \in S /\ z > y /\ \A w \in S : w > y => w >= z
      BY <2>5, <2>7 DEF After
    <3>2. z \in T
      BY <1>4, <2>1, <2>7
    <3>3. v \in ToSet(r) <=> v \in S /\ v >= z
      BY <2>2, <3>1, <3>2
    <3>4. v \in S => v \in Nat
      BY <1>2, PlaceIs
    <3>5. y \in Nat /\ z \in Nat
      BY <2>1, <2>7, PlaceIs
    <3>6. v \in S => (v >= y <=> v = y \/ v >= z)
      BY <3>1, <3>4, <3>5
    <3> QED
      BY <2>3, <2>4, <3>3, <3>5, <3>6
  <2> QED
    BY <2>6, <2>7
<1>5. Places \subseteq T
  <2> HIDE DEF T
  <2> QED
    BY <1>3, <1>4, CountDown
<1>6. head \in Places
  BY <1>2, PlaceIs DEF After
<1>7. CASE head = Null
  <2>1. S = {}
    BY <1>2, <1>7, PlaceIs DEF After
  <2>2. g[head] = <<>>
    BY <1>1, <1>7 DEF Solves
  <2> QED
    BY <1>1, <1>6, <2>1, <2>2 DEF Chain, ToSet
<1>8. CASE head # Null
  <2>1. head \in S /\ \A z \in S : z > Null => z >= head
    BY <1>2, <1>8 DEF After
  <2>2. \A z : z \in ToSet(g[head]) <=> z \in S /\ z >= head
    BY <1>5, <1>6, <2>1
  <2>3. \A z \in S : z > Null
    BY <1>2, PlaceIs
  <2>4. ToSet(g[head]) = S
    BY <2>1, <2>2, <2>3
  <2> QED
    BY <1>1, <1>6, <2>4 DEF Chain
<1> QED
  BY <1>7, <1>8

-----------------------------------------------------------------------------
(* Taking chunks off a list and putting them on it                         *)

\* Only the links matter for what is on a list.
LEMMA SameLinks ==
  ASSUME NEW m, NEW k, NEW head, NEW S, ListOf(head, m, S), \A x \in S : k[x].next = m[x].next
  PROVE  ListOf(head, k, S)
BY DEF ListOf

\* Headers with the same contents up to the links, and the same links outside of S.
SameBut(k, m, S) ==
  /\ \A y \in Addr : k[y].size = m[y].size /\ k[y].overhang = m[y].overhang
  /\ \A y \in Addr : y \notin S => k[y] = m[y]

\* What comes next once x is gone.
LEMMA AfterRemoved ==
  ASSUME NEW S \in SUBSET Addr, NEW a \in Int, NEW b, NEW x \in S, NEW c, After(S, a, b), After(S, x, c)
  PROVE  After(S \ {x}, a, IF b = x THEN c ELSE b)
<1>1. \A z \in S : z \in Int /\ z # Null
  BY PlaceIs
<1>2. CASE b # x
  BY <1>1, <1>2 DEF After
<1>3. CASE b = x /\ c = Null
  <2>1. \A z \in S : (z > a => z >= x) /\ z <= x
    BY <1>1, <1>3 DEF After
  <2>2. \A z \in S : z # x => z <= a
    BY <1>1, <2>1
  <2> QED
    BY <1>3, <2>2 DEF After
<1>4. CASE b = x /\ c # Null
  <2>1. c \in S /\ c > x /\ x > a /\ \A z \in S : (z > a => z >= x) /\ (z > x => z >= c)
    BY <1>1, <1>4 DEF After
  <2>2. c # x /\ c > a /\ \A z \in S : z # x /\ z > a => z >= c
    BY <1>1, <2>1
  <2> QED
    BY <1>4, <2>1, <2>2 DEF After
<1> QED
  BY <1>2, <1>3, <1>4

\* What comes next once x is there.
LEMMA AfterAdded ==
  ASSUME NEW S \in SUBSET Addr, NEW a \in Int, NEW b, NEW x \in Addr, x \notin S, After(S, a, b), a # x
  PROVE  After(S \cup {x}, a, IF a < x /\ (b = Null \/ x < b) THEN x ELSE b)
<1>1. (\A z \in S : z \in Int /\ z # Null) /\ x \in Int /\ x # Null
  BY PlaceIs
<1>2. CASE b = Null
  <2>1. \A z \in S : z <= a
    BY <1>1, <1>2 DEF After
  <2>2. CASE a < x
    <3>1. \A z \in S \cup {x} : z > a => z >= x
      BY <1>1, <2>1, <2>2
    <3> QED
      BY <1>1, <1>2, <2>2, <3>1 DEF After
  <2>3. CASE ~(a < x)
    BY <1>1, <1>2, <2>1, <2>3 DEF After
  <2> QED
    BY <2>2, <2>3
<1>3. CASE b # Null
  <2>1. b \in S /\ b \in Int /\ b > a /\ \A z \in S : z > a => z >= b
    BY <1>1, <1>3 DEF After
  <2>2. CASE a < x /\ x < b
    <3>1. \A z \in S \cup {x} : z > a => z >= x
      BY <1>1, <2>1, <2>2
    <3> QED
      BY <1>3, <2>2, <3>1 DEF After
  <2>3. CASE ~(a < x /\ x < b)
    <3>1. \A z \in S \cup {x} : z > a => z >= b
      BY <1>1, <2>1, <2>3
    <3> QED
      BY <1>3, <2>1, <2>3, <3>1 DEF After
  <2> QED
    BY <2>2, <2>3
<1> QED
  BY <1>2, <1>3

\* Changing a link.
LEMMA LinkTo ==
  ASSUME NEW h \in Header, NEW y \in Places
  PROVE  /\ [h EXCEPT !.next = y] \in Header /\ [h EXCEPT !.next = y].next = y
         /\ [h EXCEPT !.next = y].size = h.size /\ [h EXCEPT !.next = y].overhang = h.overhang
BY DEF Header

\* list_remove() takes one chunk off its list and changes links of that list only.
LEMMA RemoveDoes ==
  ASSUME NEW m \in Heaps, NEW head, NEW S, ListOf(head, m, S), NEW x \in S,
         NEW r, r = list_remove(head, m, x)
  PROVE  r.mem \in Heaps /\ ListOf(r.head, r.mem, S \ {x}) /\ SameBut(r.mem, m, S)
<1>1. S \in SUBSET Addr /\ head \in Places /\ ToSet(Chain(head, m)) = S
  BY ListChains DEF ListOf
<1>2. PICK k : /\ r.mem = k /\ r.head = IF head = x THEN m[x].next ELSE head
               /\ k = [p \in Addr |-> IF p \in {y \in S : m[y].next = x} THEN [m[p] EXCEPT !.next = m[x].next]
                                      ELSE m[p]]
  BY <1>1 DEF list_remove
<1>3. PICK c \in Places : c = m[x].next /\ (c # Null => c \in Addr /\ c > x)
  BY <1>1, HeapAt
<1>4. ASSUME NEW p \in Addr
      PROVE  /\ k[p] \in Header /\ k[p].next = IF p \in S /\ m[p].next = x THEN c ELSE m[p].next
             /\ k[p].size = m[p].size /\ k[p].overhang = m[p].overhang
             /\ p \notin S => k[p] = m[p]
  <2>1. m[p] \in Header
    BY HeapAt
  <2>2. CASE p \in S /\ m[p].next = x
    <3>1. k[p] = [m[p] EXCEPT !.next = c]
      BY <1>2, <1>3, <2>2
    <3> QED
      BY <2>1, <2>2, <3>1, LinkTo
  <2>3. CASE ~(p \in S /\ m[p].next = x)
    BY <1>2, <2>1, <2>3
  <2> QED
    BY <2>2, <2>3
<1>5. k \in Heaps
  <2>1. k \in [Addr -> Header]
    BY <1>2, <1>4
  <2>2. ASSUME NEW p \in Addr, k[p].next # Null PROVE k[p].next > p
    <3>1. m[p].next # Null => m[p].next > p /\ m[p].next \in Addr
      BY HeapAt
    <3>2. CASE p \in S /\ m[p].next = x
      <4>1. x > p /\ c > x /\ c \in Nat /\ x \in Nat /\ p \in Nat
        BY <1>1, <1>3, <1>4, <2>2, <3>1, <3>2, PlaceIs
      <4> QED
        BY <1>4, <3>2, <4>1
    <3>3. CASE ~(p \in S /\ m[p].next = x)
      BY <1>4, <2>2, <3>1, <3>3
    <3> QED
      BY <3>2, <3>3
  <2> QED
    BY <2>1, <2>2 DEF Heaps
<1>6. After(S, x, c)
  BY <1>3 DEF ListOf
<1>7. After(S \ {x}, Null, r.head)
  <2>1. After(S, Null, head) /\ Null \in Int /\ r.head = IF head = x THEN c ELSE head
    BY <1>2, <1>3, PlaceIs DEF ListOf
  <2>2. After(S \ {x}, Null, IF head = x THEN c ELSE head)
    BY <1>1, <1>6, <2>1, AfterRemoved
  <2> QED
    BY <2>1, <2>2
<1>8. ASSUME NEW p \in S \ {x} PROVE After(S \ {x}, p, k[p].next)
  <2>1. PICK b : b = m[p].next
    OBVIOUS
  <2>2. After(S, p, b) /\ p \in Int /\ p \in Addr
    BY <1>1, <2>1, PlaceIs DEF ListOf
  <2>3. After(S \ {x}, p, IF b = x THEN c ELSE b)
    BY <1>1, <1>6, <2>2, AfterRemoved
  <2>4. k[p].next = IF b = x THEN c ELSE b
    BY <1>4, <2>1, <2>2
  <2> QED
    BY <2>3, <2>4
<1>9. ListOf(r.head, k, S \ {x})
  BY <1>1, <1>7, <1>8 DEF ListOf
<1>10. SameBut(k, m, S)
  BY <1>4 DEF SameBut
<1> QED
  BY <1>2, <1>5, <1>9, <1>10

\* i is the position of the first chunk behind x in q, or zero.
FirstAbove(q, x, i) ==
  \/ i = 0 /\ \A a \in 1..Len(q) : ~(x < q[a])
  \/ i \in 1..Len(q) /\ x < q[i] /\ \A a \in 1..Len(q) : x < q[a] => i <= a

\* The search of list_add() finds the first chunk behind x.
LEMMA SelectIs ==
  ASSUME NEW q \in Seq(Addr), NEW x \in Addr
  PROVE  FirstAbove(q, x, SelectInSeq(q, LAMBDA y : x < y))
<1> DEFINE I == {a \in 1..Len(q) : x < q[a]}
<1>1. SelectInSeq(q, LAMBDA y : x < y) = IF I # {} THEN Min(I) ELSE 0
  BY DEF SelectInSeq
<1>2. CASE I = {}
  BY <1>1, <1>2 DEF FirstAbove
<1>3. CASE I # {}
  <2>1. I \in SUBSET Nat
    OBVIOUS
  <2>2. PICK s \in I : \A y \in I : s <= y
    <3> HIDE DEF I
    <3> QED
      BY <1>3, <2>1, SmallestExists
  <2>3. Min(I) \in I /\ \A y \in I : Min(I) <= y
    <3> HIDE DEF I
    <3> QED
      BY <2>2 DEF Min
  <2> QED
    BY <1>1, <1>3, <2>3 DEF FirstAbove
<1> QED
  BY <1>2, <1>3

\* Where list_add() puts a chunk x: in front of l and behind position p.
LEMMA AddPlace ==
  ASSUME NEW m \in Heaps, NEW head \in Places, NEW q, q = Chain(head, m),
         NEW x \in Addr, x \notin ToSet(q),
         NEW i \in Nat, FirstAbove(q, x, i),
         NEW l, l = IF i = 0 THEN Null ELSE q[i],
         NEW p, p = IF i = 0 THEN Len(q) ELSE i - 1
  PROVE  /\ p \in Nat /\ l \in Places /\ After(ToSet(q), x, l)
         /\ p = 0 <=> head = Null \/ x < head
         /\ \A y \in ToSet(q) : p > 0 /\ y = q[p] <=> y < x /\ (m[y].next = Null \/ x < m[y].next)
<1>1. q \in Seq(Addr) /\ InOrder(q, m)
      /\ (head # Null => Len(q) >= 1 /\ q[1] = head) /\ (head = Null => q = <<>>)
  BY AlongInOrder DEF Chain
<1>2. PICK n \in Nat : n = Len(q)
  BY <1>1
<1>3. /\ \A a, b \in 1..n : a < b => q[a] < q[b]
      /\ \A a \in 1..n : m[q[a]].next = IF a = n THEN Null ELSE q[a + 1]
  BY <1>1, <1>2 DEF InOrder
<1>4. \A y : y \in ToSet(q) <=> \E a \in 1..n : q[a] = y
  BY <1>1, <1>2, InChain
<1>5. \A a \in 1..n : q[a] \in Nat /\ q[a] \in Addr /\ q[a] # x /\ q[a] # Null
  BY <1>1, <1>2, <1>4, PlaceIs
<1>6. x \in Nat /\ x # Null
  BY PlaceIs
<1>7. /\ p \in 0..n /\ l = IF p = n THEN Null ELSE q[p + 1]
      /\ \A a \in 1..n : a <= p <=> q[a] < x
  <2>1. CASE i = 0
    <3>1. p = n /\ l = Null
      BY <1>2, <2>1
    <3>2. \A a \in 1..n : q[a] < x
      BY <1>2, <1>5, <1>6, <2>1 DEF FirstAbove
    <3> QED
      BY <3>1, <3>2
  <2>2. CASE i # 0
    <3>1. i \in 1..n /\ x < q[i] /\ \A a \in 1..n : x < q[a] => i <= a
      BY <1>2, <2>2 DEF FirstAbove
    <3>2. p = i - 1 /\ l = q[i] /\ p \in 0..n /\ p # n /\ p + 1 = i
      BY <2>2, <3>1
    <3>3. ASSUME NEW a \in 1..n PROVE a <= p <=> q[a] < x
      <4>1. CASE a < i
        <5>1. ~(x < q[a]) /\ a <= p
          BY <3>1, <3>2, <4>1
        <5> QED
          BY <1>5, <1>6, <5>1
      <4>2. CASE a >= i
        <5>1. q[a] >= q[i]
          BY <1>3, <1>5, <3>1, <4>2
        <5>2. ~(a <= p)
          BY <3>1, <3>2, <4>2
        <5> QED
          BY <1>5, <1>6, <3>1, <5>1, <5>2
      <4> QED
        BY <3>1, <4>1, <4>2
    <3> QED
      BY <3>2, <3>3
  <2> QED
    BY <2>1, <2>2
<1>8. l \in Places /\ After(ToSet(q), x, l)
  <2>1. CASE p = n
    <3>1. \A y \in ToSet(q) : y <= x
      BY <1>4, <1>5, <1>6, <1>7, <2>1
    <3> QED
      BY <1>7, <2>1, <3>1, PlaceIs DEF After
  <2>2. CASE p # n
    <3>1. PICK t \in 1..n : t = p + 1 /\ l = q[t]
      <4>1. p + 1 \in 1..n
        BY <1>7, <2>2
      <4> QED
        BY <1>7, <2>2, <4>1
    <3>2. l > x
      BY <1>5, <1>6, <1>7, <3>1
    <3>3. ASSUME NEW y \in ToSet(q), y > x PROVE y >= l
      <4>1. PICK a \in 1..n : q[a] = y
        BY <1>4
      <4>2. ~(a <= p)
        BY <1>5, <1>6, <1>7, <3>3, <4>1
      <4>3. a = t \/ t < a
        BY <1>7, <3>1, <4>2
      <4> QED
        BY <1>3, <1>5, <3>1, <4>1, <4>3
    <3> QED
      BY <1>4, <1>5, <3>1, <3>2, <3>3, PlaceIs DEF After
  <2> QED
    BY <2>1, <2>2
<1>9. p = 0 <=> head = Null \/ x < head
  <2>1. CASE head = Null
    BY <1>1, <1>2, <1>7, <2>1
  <2>2. CASE head # Null
    <3>1. 1 \in 1..n /\ q[1] = head
      BY <1>1, <1>2, <2>2
    <3>2. 1 <= p <=> head < x
      BY <1>7, <3>1
    <3> QED
      BY <1>5, <1>6, <1>7, <2>2, <3>1, <3>2
  <2> QED
    BY <2>1, <2>2
<1>10. ASSUME NEW y \in ToSet(q)
       PROVE  p > 0 /\ y = q[p] <=> y < x /\ (m[y].next = Null \/ x < m[y].next)
  <2>1. PICK a \in 1..n : q[a] = y
    BY <1>4
  <2>2. a <= p <=> y < x
    BY <1>7, <2>1
  <2>3. p > 0 /\ y = q[p] <=> a = p
    <3>1. ASSUME p > 0, y = q[p] PROVE a = p
      <4>1. p \in 1..n
        BY <1>7, <3>1
      <4>2. ~(a < p) /\ ~(p < a)
        BY <1>3, <1>5, <2>1, <3>1, <4>1
      <4> QED
        BY <4>1, <4>2
    <3> QED
      BY <2>1, <3>1
  <2>4. CASE a = n
    <3>1. m[y].next = Null
      BY <1>3, <2>1, <2>4
    <3> QED
      BY <1>7, <2>2, <2>3, <2>4, <3>1
  <2>5. CASE a # n
    <3>1. PICK b \in 1..n : b = a + 1 /\ m[y].next = q[b]
      <4>1. a + 1 \in 1..n /\ m[y].next = q[a + 1]
        BY <1>3, <2>1, <2>5
      <4> QED
        BY <4>1
    <3>2. b <= p <=> q[b] < x
      BY <1>7
    <3>3. m[y].next # Null /\ (x < m[y].next <=> ~(b <= p))
      BY <1>5, <1>6, <3>1, <3>2
    <3>4. a = p <=> a <= p /\ ~(b <= p)
      BY <1>7, <3>1
    <3> QED
      BY <2>2, <2>3, <3>3, <3>4
  <2> QED
    BY <2>4, <2>5
<1> QED
  BY <1>7, <1>8, <1>9, <1>10

\* list_add() puts a chunk where its address belongs and changes links of that list only.
LEMMA AddDoes ==
  ASSUME NEW m \in Heaps, NEW head, NEW S, ListOf(head, m, S), NEW x \in Addr, x \notin S,
         NEW r, r = list_add(head, m, x)
  PROVE  r.mem \in Heaps /\ ListOf(r.head, r.mem, S \cup {x}) /\ SameBut(r.mem, m, S \cup {x})
<1>1. S \in SUBSET Addr /\ head \in Places /\ ToSet(Chain(head, m)) = S
  BY ListChains DEF ListOf
<1>2. PICK q \in Seq(Addr) : q = Chain(head, m)
  BY <1>1, AlongInOrder DEF Chain
<1>3. PICK i : i = SelectInSeq(q, LAMBDA y : x < y)
  OBVIOUS
<1>4. FirstAbove(q, x, i) /\ i \in Nat
  <2>1. FirstAbove(q, x, i)
    BY <1>2, <1>3, SelectIs
  <2> QED
    BY <2>1 DEF FirstAbove
<1>5. PICK l : l = IF i = 0 THEN Null ELSE q[i]
  OBVIOUS
<1>6. PICK p : p = IF i = 0 THEN Len(q) ELSE i - 1
  OBVIOUS
<1>7. r = [head |-> IF p = 0 THEN x ELSE head,
           mem |-> [y \in Addr |-> IF y = x THEN [m[x] EXCEPT !.next = l]
                                   ELSE IF p > 0 /\ y = q[p] THEN [m[y] EXCEPT !.next = x]
                                   ELSE m[y]]]
  BY <1>2, <1>3, <1>5, <1>6 DEF list_add
<1>8. PICK k : /\ r.mem = k /\ r.head = IF p = 0 THEN x ELSE head
               /\ k = [y \in Addr |-> IF y = x THEN [m[x] EXCEPT !.next = l]
                                      ELSE IF p > 0 /\ y = q[p] THEN [m[y] EXCEPT !.next = x]
                                      ELSE m[y]]
  BY <1>7
<1>9. /\ p \in Nat /\ l \in Places /\ After(S, x, l)
      /\ p = 0 <=> head = Null \/ x < head
      /\ \A y \in S : p > 0 /\ y = q[p] <=> y < x /\ (m[y].next = Null \/ x < m[y].next)
  BY <1>1, <1>2, <1>4, <1>5, <1>6, AddPlace
<1>10. p > 0 => q[p] \in S
  <2> SUFFICES ASSUME p > 0 PROVE q[p] \in S
    OBVIOUS
  <2>1. p \in 1..Len(q)
    BY <1>4, <1>6, <1>9 DEF FirstAbove
  <2> QED
    BY <1>1, <1>2, <2>1, InChain
<1>11. ASSUME NEW y \in Addr
       PROVE  /\ k[y] \in Header /\ k[y].size = m[y].size /\ k[y].overhang = m[y].overhang
              /\ k[y].next = IF y = x THEN l
                             ELSE IF y \in S /\ y < x /\ (m[y].next = Null \/ x < m[y].next) THEN x
                             ELSE m[y].next
              /\ y \notin S \cup {x} => k[y] = m[y]
  <2>1. m[y] \in Header
    BY HeapAt
  <2>2. CASE y = x
    <3>1. k[y] = [m[y] EXCEPT !.next = l]
      BY <1>8, <2>2
    <3> QED
      BY <1>9, <2>1, <2>2, <3>1, LinkTo
  <2>3. CASE y # x /\ p > 0 /\ y = q[p]
    <3>1. k[y] = [m[y] EXCEPT !.next = x] /\ x \in Places
      BY <1>8, <2>3, PlaceIs
    <3>2. y \in S /\ y < x /\ (m[y].next = Null \/ x < m[y].next)
      BY <1>9, <1>10, <2>3
    <3>3. k[y] \in Header /\ k[y].size = m[y].size /\ k[y].overhang = m[y].overhang /\ k[y].next = x
      BY <2>1, <3>1, LinkTo
    <3> QED
      BY <2>3, <3>2, <3>3
  <2>4. CASE y # x /\ ~(p > 0 /\ y = q[p])
    <3>1. k[y] = m[y]
      BY <1>8, <2>4
    <3>2. ~(y \in S /\ y < x /\ (m[y].next = Null \/ x < m[y].next))
      BY <1>9, <2>4
    <3> QED
      BY <2>1, <2>4, <3>1, <3>2
  <2> QED
    BY <2>2, <2>3, <2>4
<1>12. l # Null => l > x
  BY <1>9 DEF After
<1>13. k \in Heaps
  <2>1. k \in [Addr -> Header]
    BY <1>8, <1>11
  <2>2. ASSUME NEW y \in Addr, k[y].next # Null PROVE k[y].next > y
    <3>1. m[y].next # Null => m[y].next > y
      BY HeapAt
    <3>2. y < x => x > y
      BY PlaceIs
    <3> QED
      BY <1>11, <1>12, <2>2, <3>1, <3>2
  <2> QED
    BY <2>1, <2>2 DEF Heaps
<1>14. x \in Nat /\ Null \in Int /\ Null < x /\ Null # x
  BY PlaceIs
<1>15. After(S \cup {x}, Null, r.head)
  <2>1. After(S, Null, head)
    BY DEF ListOf
  <2>2. After(S \cup {x}, Null, IF Null < x /\ (head = Null \/ x < head) THEN x ELSE head)
    BY <1>1, <1>14, <2>1, AfterAdded
  <2>3. r.head = IF Null < x /\ (head = Null \/ x < head) THEN x ELSE head
    BY <1>8, <1>9, <1>14
  <2> QED
    BY <2>2, <2>3
<1>16. ASSUME NEW y \in S \cup {x} PROVE After(S \cup {x}, y, k[y].next)
  <2>1. CASE y = x
    <3>1. \A z \in S : z \in Nat
      BY <1>1, PlaceIs
    <3>2. After(S \cup {x}, x, l)
      BY <1>9, <1>14, <3>1 DEF After
    <3> QED
      BY <1>11, <2>1, <3>2
  <2>2. CASE y # x
    <3>1. PICK b : b = m[y].next
      OBVIOUS
    <3>2. After(S, y, b) /\ y \in Int /\ y \in Addr /\ y \in S
      BY <1>1, <2>2, <3>1, PlaceIs DEF ListOf
    <3>3. After(S \cup {x}, y, IF y < x /\ (b = Null \/ x < b) THEN x ELSE b)
      BY <1>1, <2>2, <3>2, AfterAdded
    <3>4. k[y].next = IF y < x /\ (b = Null \/ x < b) THEN x ELSE b
      BY <1>11, <2>2, <3>1, <3>2
    <3> QED
      BY <3>3, <3>4
  <2> QED
    BY <2>1, <2>2
<1>17. ListOf(r.head, k, S \cup {x})
  BY <1>1, <1>15, <1>16 DEF ListOf
<1>18. SameBut(k, m, S \cup {x})
  BY <1>11 DEF SameBut
<1> QED
  BY <1>8, <1>13, <1>17, <1>18

\* Both lists in place.
LEMMA ListsSet ==
  ASSUME NEW m \in Heaps, NEW fl, NEW al, NEW F, NEW A, ListOf(fl, m, F), ListOf(al, m, A),
         SetLists(fl, al, m)
  PROVE  /\ mem' \in Heaps /\ free_list_head' \in Places /\ alloc_list_head' \in Places
         /\ Free' = F /\ Allocated' = A
         /\ \A x \in F \cup A : mem'[x] = m[x]
         /\ \A x \in Addr : x \notin F \cup A => mem'[x] = NoHeader
<1>1. fl \in Places /\ al \in Places /\ ToSet(Chain(fl, m)) = F /\ ToSet(Chain(al, m)) = A
      /\ F \subseteq Addr /\ A \subseteq Addr
  BY ListChains DEF ListOf
<1>2. PICK k : /\ k = mem' /\ free_list_head' = fl /\ alloc_list_head' = al
               /\ k = [x \in Addr |-> IF x \in F \cup A THEN m[x] ELSE NoHeader]
  BY <1>1 DEF SetLists
<1>3. NoHeader \in Header /\ NoHeader.next = Null
  BY PlaceIs DEF NoHeader, Header
<1>4. ASSUME NEW x \in Addr PROVE k[x] \in Header /\ (k[x].next # Null => k[x].next > x)
  <2>1. m[x] \in Header /\ (m[x].next # Null => m[x].next > x)
    BY HeapAt
  <2> QED
    BY <1>2, <1>3, <2>1
<1>5. k \in Heaps
  BY <1>2, <1>4 DEF Heaps
<1>6. \A x \in F \cup A : k[x] = m[x]
  BY <1>1, <1>2
<1>7. ListOf(fl, k, F) /\ ListOf(al, k, A)
  BY <1>6, SameLinks
<1>8. ToSet(Chain(fl, k)) = F /\ ToSet(Chain(al, k)) = A
  BY <1>5, <1>7, ListChains
<1>9. Free' = ToSet(Chain(fl, k)) /\ Allocated' = ToSet(Chain(al, k))
  <2>1. Chain(free_list_head, mem)' = Chain(fl, k) /\ Chain(alloc_list_head, mem)' = Chain(al, k)
    BY <1>2 DEF Chain
  <2> QED
    BY <2>1 DEF Free, Allocated
<1> QED
  BY <1>1, <1>2, <1>5, <1>6, <1>8, <1>9

-----------------------------------------------------------------------------
(* Merging free chunks                                                     *)

\* With the headers m, the chunks in C follow one another through the whole segment.
Tiles(m, C) ==
  /\ 0 \in C
  /\ \A x \in C : x + Hdr + m[x].size \in C \cup {MemSize}
  /\ \A x, y \in C : x < y => x + Hdr + m[x].size <= y

\* The next free chunk begins where l ends.
Joins(m, l) == m[l].next # Null /\ l + Hdr + m[l].size = m[l].next

\* One round of the merging loop.
LEMMA MergeIs ==
  ASSUME NEW m \in Heaps, NEW l \in Addr, NEW n, n = m[l].next
  PROVE  /\ Merge(m, l) \in Heaps
         /\ ~Joins(m, l) => Merge(m, l) = m
         /\ Joins(m, l) => /\ n \in Addr /\ n > l
                           /\ \A y \in Addr : y # l => Merge(m, l)[y] = m[y]
                           /\ Merge(m, l)[l].next = m[n].next
                           /\ Merge(m, l)[l].size = m[l].size + m[n].size + Hdr
                           /\ Merge(m, l)[l].overhang = m[l].overhang
<1>1. m \in [Addr -> Header] /\ m[l] \in Header /\ m[l].size \in Nat /\ l \in Nat
  BY HeapAt, PlaceIs DEF Heaps
<1>2. n \in Places /\ (n # Null => n \in Addr /\ n > l /\ n \in Nat)
  BY HeapAt, PlaceIs
<1>3. n # Null => (Joins(m, l) <=> l + Hdr + m[l].size + Hdr = n + Hdr)
  BY <1>1, <1>2 DEF Joins
<1>4. CASE ~Joins(m, l)
  <2>1. Merge(m, l) = m
    BY <1>3, <1>4 DEF Merge, Joins
  <2> QED
    BY <1>4, <2>1
<1>5. CASE Joins(m, l)
  <2>1. n # Null /\ n \in Addr /\ n > l /\ n \in Nat
    BY <1>2, <1>5 DEF Joins
  <2>2. PICK h : h = [m[l] EXCEPT !.size = @ + m[n].size + Hdr, !.next = m[n].next]
    OBVIOUS
  <2>3. PICK k : k = Merge(m, l)
    OBVIOUS
  <2>4. k = [m EXCEPT ![l] = h]
    <3>1. k = [m EXCEPT ![l].size = @ + m[n].size + Hdr, ![l].next = m[n].next]
      BY <1>3, <1>5, <2>1, <2>3 DEF Merge
    <3> QED
      BY <1>1, <2>2, <3>1
  <2>5. m[n].next \in Places /\ m[n].size \in Nat /\ (m[n].next # Null => m[n].next \in Addr /\ m[n].next > n)
    BY <2>1, HeapAt
  <2>6. /\ h \in Header /\ h.next = m[n].next /\ h.size = m[l].size + m[n].size + Hdr
        /\ h.overhang = m[l].overhang
    <3>1. m[l].size + m[n].size + Hdr \in Nat
      BY <1>1, <2>5
    <3> QED
      BY <1>1, <2>2, <2>5, <3>1 DEF Header
  <2>7. k[l] = h /\ (\A y \in Addr : y # l => k[y] = m[y]) /\ k \in [Addr -> Header]
    BY <1>1, <2>4, <2>6
  <2>8. ASSUME NEW y \in Addr, k[y].next # Null PROVE k[y].next > y
    <3>1. CASE y = l
      <4>1. h.next > n /\ h.next \in Nat
        BY <2>5, <2>6, <2>7, <2>8, <3>1, PlaceIs
      <4> QED
        BY <1>1, <2>1, <2>7, <3>1, <4>1
    <3>2. CASE y # l
      BY <2>7, <2>8, <3>2, HeapAt
    <3> QED
      BY <3>1, <3>2
  <2>9. k \in Heaps
    BY <2>7, <2>8 DEF Heaps
  <2> QED
    BY <1>5, <2>1, <2>3, <2>6, <2>7, <2>9
<1> QED
  BY <1>4, <1>5

\* Between the merges: the chunks of S are left of those of F, and they and those of A
\* are all of the segment.
Live(head, m, S, F, A, m0) ==
  /\ m \in Heaps /\ ListOf(head, m, S) /\ S \subseteq F /\ F \subseteq Addr
  /\ A \subseteq Addr /\ F \cap A = {}
  /\ Tiles(m, S \cup A)
  /\ \A x \in Addr : x \notin F => m[x] = m0[x]
  /\ \A x \in S : m[x].overhang = 0

\* A merge takes the next chunk off the list.
LEMMA MergeLive ==
  ASSUME NEW head, NEW m, NEW S, NEW F, NEW A, NEW m0, Live(head, m, S, F, A, m0),
         NEW l \in S, Joins(m, l), NEW n, n = m[l].next
  PROVE  n \in S /\ Live(head, Merge(m, l), S \ {n}, F, A, m0)
<1>1. /\ m \in Heaps /\ ListOf(head, m, S) /\ S \subseteq F /\ F \subseteq Addr
      /\ A \subseteq Addr /\ F \cap A = {}
      /\ Tiles(m, S \cup A)
      /\ \A x \in Addr : x \notin F => m[x] = m0[x]
      /\ \A x \in S : m[x].overhang = 0
  BY DEF Live
<1>2. S \in SUBSET Addr /\ l \in Addr
  BY <1>1
<1>3. PICK k : k = Merge(m, l)
  OBVIOUS
<1>4. /\ k \in Heaps /\ n \in Addr /\ n > l /\ n # Null /\ n = l + Hdr + m[l].size
      /\ \A y \in Addr : y # l => k[y] = m[y]
      /\ k[l].next = m[n].next /\ k[l].size = m[l].size + m[n].size + Hdr
      /\ k[l].overhang = m[l].overhang
  BY <1>1, <1>2, <1>3, MergeIs DEF Joins
<1>5. n \in S /\ n # l
  <2>1. After(S, l, n)
    BY <1>1 DEF ListOf
  <2> QED
    BY <1>2, <1>4, <2>1, PlaceIs DEF After
<1>6. PICK c : c = m[n].next
  OBVIOUS
<1>7. After(S, n, c)
  BY <1>1, <1>5, <1>6 DEF ListOf
<1>8. After(S \ {n}, Null, head)
  <2>1. After(S, Null, head) /\ Null \in Int
    BY <1>1, PlaceIs DEF ListOf
  <2>2. After(S \ {n}, Null, IF head = n THEN c ELSE head)
    BY <1>2, <1>5, <1>7, <2>1, AfterRemoved
  <2>3. head # n
    <3>1. l > Null /\ l \in Nat /\ n \in Nat
      BY <1>2, <1>4, PlaceIs
    <3>2. head = n => l >= n
      BY <1>4, <2>1, <3>1 DEF After
    <3> QED
      BY <1>4, <3>1, <3>2
  <2> QED
    BY <2>2, <2>3
<1>9. ASSUME NEW x \in S \ {n} PROVE After(S \ {n}, x, k[x].next)
  <2>1. PICK b : b = m[x].next
    OBVIOUS
  <2>2. After(S, x, b) /\ x \in Int /\ x \in Addr
    BY <1>1, <1>2, <2>1, PlaceIs DEF ListOf
  <2>3. After(S \ {n}, x, IF b = n THEN c ELSE b)
    BY <1>2, <1>5, <1>7, <2>2, AfterRemoved
  <2>4. CASE x = l
    BY <1>4, <1>6, <2>1, <2>3, <2>4
  <2>5. CASE x # l
    <3>1. b # n
      <4>1. After(S, l, n)
        BY <1>1 DEF ListOf
      <4>2. l \in Nat /\ n \in Nat /\ x \in Nat
        BY <1>2, <1>4, <2>2, PlaceIs
      <4>3. ASSUME b = n PROVE FALSE
        <5>1. x < n /\ (l > x => l >= n) /\ (x > l => x >= n)
          BY <1>4, <1>5, <2>2, <4>1, <4>2, <4>3 DEF After
        <5> QED
          BY <1>4, <2>5, <4>2, <5>1
      <4> QED
        BY <4>3
    <3> QED
      BY <1>4, <2>1, <2>2, <2>3, <2>5, <3>1
  <2> QED
    BY <2>4, <2>5
<1>10. ListOf(head, k, S \ {n})
  BY <1>2, <1>8, <1>9 DEF ListOf
<1>11. ASSUME NEW x \in (S \ {n}) \cup A
       PROVE  /\ x \in Addr /\ x \in S \cup A /\ x # n /\ x \in Nat /\ m[x].size \in Nat
              /\ x + Hdr + k[x].size = IF x = l THEN n + Hdr + m[n].size ELSE x + Hdr + m[x].size
  <2>1. x \in Addr /\ x # n /\ x \in Nat /\ m[x].size \in Nat
    BY <1>1, <1>5, HeapAt, PlaceIs
  <2>2. CASE x = l
    <3>1. l \in Nat /\ m[l].size \in Nat /\ m[n].size \in Nat
      BY <1>1, <1>2, <1>4, HeapAt, PlaceIs
    <3> QED
      BY <1>4, <2>1, <2>2, <3>1
  <2>3. CASE x # l
    BY <1>4, <2>1, <2>3
  <2> QED
    BY <2>1, <2>2, <2>3
<1>12. n \in Nat /\ l \in Nat /\ m[n].size \in Nat /\ m[l].size \in Nat
  BY <1>1, <1>2, <1>4, HeapAt, PlaceIs
<1>13. Tiles(k, (S \ {n}) \cup A)
  <2>1. 0 \in (S \ {n}) \cup A
    BY <1>1, <1>4, <1>12 DEF Tiles
  <2>2. ASSUME NEW x \in (S \ {n}) \cup A
        PROVE  x + Hdr + k[x].size \in ((S \ {n}) \cup A) \cup {MemSize}
    <3>1. PICK z : z = x + Hdr + k[x].size
      OBVIOUS
    <3>2. CASE x = l
      <4>1. z = n + Hdr + m[n].size /\ z \in (S \cup A) \cup {MemSize}
        BY <1>1, <1>5, <1>11, <3>1, <3>2 DEF Tiles
      <4>2. z # n
        BY <1>12, <4>1
      <4> QED
        BY <3>1, <4>1, <4>2
    <3>3. CASE x # l
      <4>1. z = x + Hdr + m[x].size /\ z \in (S \cup A) \cup {MemSize}
        BY <1>1, <1>11, <3>1, <3>3 DEF Tiles
      <4>2. z # n
        <5>1. x < l => x + Hdr + m[x].size <= l
          BY <1>1, <1>11 DEF Tiles
        <5>2. l < x => l + Hdr + m[l].size <= x
          BY <1>1, <1>11 DEF Tiles
        <5>3. x \in Nat /\ m[x].size \in Nat /\ x # n
          BY <1>11
        <5> QED
          BY <1>4, <1>12, <3>3, <4>1, <5>1, <5>2, <5>3
      <4> QED
        BY <3>1, <4>1, <4>2
    <3> QED
      BY <3>2, <3>3
  <2>3. ASSUME NEW x \in (S \ {n}) \cup A, NEW y \in (S \ {n}) \cup A, x < y
        PROVE  x + Hdr + k[x].size <= y
    <3>1. x \in Nat /\ m[x].size \in Nat /\ y \in Nat /\ y # n
      BY <1>11
    <3>2. x + Hdr + m[x].size <= y
      BY <1>1, <1>11, <2>3 DEF Tiles
    <3>3. CASE x = l
      <4>1. n < y
        BY <1>4, <3>1, <3>2, <3>3, <1>12
      <4>2. n + Hdr + m[n].size <= y
        BY <1>1, <1>5, <1>11, <4>1 DEF Tiles
      <4> QED
        BY <1>11, <3>3, <4>2
    <3>4. CASE x # l
      BY <1>11, <3>2, <3>4
    <3> QED
      BY <3>3, <3>4
  <2> QED
    BY <2>1, <2>2, <2>3 DEF Tiles
<1>14. \A x \in Addr : x \notin F => k[x] = m0[x]
  BY <1>1, <1>4
<1>15. \A x \in S \ {n} : k[x].overhang = 0
  BY <1>1, <1>2, <1>4
<1>16. S \ {n} \subseteq F
  BY <1>1
<1> HIDE DEF Live
<1>17. Live(head, k, S \ {n}, F, A, m0)
  BY <1>1, <1>4, <1>10, <1>13, <1>14, <1>15, <1>16 DEF Live
<1> QED
  BY <1>3, <1>5, <1>17

\* Nothing of the list changes when the loop stands on a chunk that was merged away.
LEMMA MergeDead ==
  ASSUME NEW head, NEW m, NEW S, NEW F, NEW A, NEW m0, Live(head, m, S, F, A, m0),
         NEW l \in F, l \notin S
  PROVE  Live(head, Merge(m, l), S, F, A, m0)
<1>1. /\ m \in Heaps /\ ListOf(head, m, S) /\ S \subseteq F /\ F \subseteq Addr
      /\ A \subseteq Addr /\ F \cap A = {}
      /\ Tiles(m, S \cup A)
      /\ \A x \in Addr : x \notin F => m[x] = m0[x]
      /\ \A x \in S : m[x].overhang = 0
  BY DEF Live
<1>2. PICK k : k = Merge(m, l)
  OBVIOUS
<1>3. k \in Heaps /\ \A y \in Addr : y # l => k[y] = m[y]
  BY <1>1, <1>2, MergeIs
<1>4. \A x \in S \cup A : x \in Addr /\ x # l /\ k[x] = m[x]
  BY <1>1, <1>3
<1>5. ListOf(head, k, S)
  BY <1>1, <1>4, SameLinks
<1>6. Tiles(k, S \cup A)
  BY <1>1, <1>4 DEF Tiles
<1>7. \A x \in Addr : x \notin F => k[x] = m0[x]
  BY <1>1, <1>3
<1>8. Live(head, k, S, F, A, m0)
  BY <1>1, <1>3, <1>4, <1>5, <1>6, <1>7 DEF Live
<1> QED
  BY <1>2, <1>8

\* f holds the headers that one pass over q goes through.
PassRuns(f, q, m) ==
  /\ f \in [0..Len(q) -> Heaps] /\ f[0] = m
  /\ \A i \in 1..Len(q) : f[i] = Merge(f[i - 1], q[i])
  /\ Iterated(Merge, m, q) = f[Len(q)]

\* The loop of one pass is well defined.
LEMMA PassRounds ==
  ASSUME NEW m \in Heaps, NEW q \in Seq(Addr)
  PROVE  \E f : PassRuns(f, q, m)
<1> DEFINE n == Len(q)
           g == [i \in 1..n |-> [h \in Heaps |-> Merge(h, q[i])]]
           Loop(h) == [i \in 0..n |-> IF i = 0 THEN m ELSE Merge(h[i - 1], q[i])]
<1>1. n \in Nat /\ \A i \in 1..n : q[i] \in Addr
  OBVIOUS
<1>2. \A i \in 1..n, h \in Heaps : Merge(h, q[i]) \in Heaps
  BY <1>1, MergeIs
<1>3. g \in [1..n -> [Heaps -> Heaps]] /\ \A i \in 1..n, h \in Heaps : g[i][h] = Merge(h, q[i])
  BY <1>2
<1> HIDE DEF n, g
<1>4. PICK f \in [0..n -> Heaps] : f[0] = m /\ \A i \in 1..n : f[i] = g[i][f[i - 1]]
  <2>1. PICK f : Runs(f, Heaps, m, n, g)
    BY <1>1, <1>3, RoundsExist
  <2> QED
    BY <2>1 DEF Runs
<1>5. \A i \in 0..n : i # 0 => i \in 1..n /\ i - 1 \in 0..n
  BY <1>1
<1>6. f = Loop(f)
  BY <1>3, <1>4, <1>5
<1> DEFINE c == CHOOSE h : h = Loop(h)
<1>7. c = Loop(c)
  BY <1>6
<1>8. Iterated(Merge, m, q) = c[n]
  BY DEF Iterated, n
<1> HIDE DEF c
<1>9. c[0] = m /\ \A i \in 1..n : c[i] = Merge(c[i - 1], q[i])
  <2>1. \A i \in 0..n : c[i] = IF i = 0 THEN m ELSE Merge(c[i - 1], q[i])
    <3>1. ASSUME NEW i \in 0..n PROVE Loop(c)[i] = IF i = 0 THEN m ELSE Merge(c[i - 1], q[i])
      OBVIOUS
    <3> HIDE DEF Loop
    <3> QED
      BY <1>7, <3>1
  <2> QED
    BY <1>1, <2>1
<1>10. c \in [0..n -> Heaps]
  <2> DEFINE T == {i \in 0..n : c[i] \in Heaps}
  <2>1. 0 \in T
    BY <1>1, <1>9
  <2>2. ASSUME NEW i \in 1..n, i - 1 \in T PROVE i \in T
    <3>1. Merge(c[i - 1], q[i]) \in Heaps
      BY <1>2, <2>2
    <3>2. i \in 0..n /\ c[i] \in Heaps
      BY <1>1, <1>9, <3>1
    <3> QED
      BY <3>2
  <2>3. 0..n \subseteq T
    <3> HIDE DEF T
    <3> QED
      BY <1>1, <2>1, <2>2, CountUp
  <2> QED
    BY <1>7, <2>3
<1>11. PassRuns(c, q, m)
  BY <1>8, <1>9, <1>10 DEF n, PassRuns
<1> QED
  BY <1>11

\* No chunk of the list can be joined with the next.
Settled(m, S) == \A x \in S : ~Joins(m, x)

\* One pass: nothing changes where nothing can be joined, otherwise the list gets shorter.
LEMMA PassDoes ==
  ASSUME NEW head, NEW m, NEW S, NEW F, NEW A, NEW m0, Live(head, m, S, F, A, m0)
  PROVE  \E S2 : /\ Live(head, MergePass(head, m), S2, F, A, m0) /\ S2 \subseteq S
                 /\ IF Settled(m, S) THEN S2 = S /\ MergePass(head, m) = m ELSE S2 # S
<1>1. m \in Heaps /\ ListOf(head, m, S) /\ S \subseteq F
  BY DEF Live
<1>2. head \in Places /\ ToSet(Chain(head, m)) = S
  BY <1>1, ListChains
<1>3. PICK q \in Seq(Addr) : q = Chain(head, m)
  BY <1>1, <1>2, AlongInOrder DEF Chain
<1>4. PICK n \in Nat : n = Len(q)
  OBVIOUS
<1>5. \A x : x \in S <=> \E k \in 1..n : q[k] = x
  BY <1>2, <1>3, <1>4, InChain
<1>6. PICK f \in [0..n -> Heaps] : /\ f[0] = m /\ MergePass(head, m) = f[n]
                                   /\ \A i \in 1..n : f[i] = Merge(f[i - 1], q[i])
  <2>1. PICK f : PassRuns(f, q, m)
    BY <1>1, PassRounds
  <2>2. f \in [0..n -> Heaps] /\ f[0] = m /\ MergePass(head, m) = f[n]
        /\ \A i \in 1..n : f[i] = Merge(f[i - 1], q[i])
    BY <1>3, <1>4, <2>1 DEF PassRuns, MergePass
  <2> QED
    BY <2>2
<1> DEFINE Same(i) == f[i] = m /\ \A j \in 1..i : ~Joins(m, q[j])
           Less(i) == /\ \E S2 : S2 \subseteq S /\ S2 # S /\ Live(head, f[i], S2, F, A, m0)
                      /\ \E j \in 1..i : Joins(m, q[j])
           T == {i \in 0..n : Same(i) \/ Less(i)}
<1>7. 0 \in T
  BY <1>6
<1>8. ASSUME NEW i \in 1..n, i - 1 \in T PROVE i \in T
  <2>1. PICK l \in S : l = q[i] /\ l \in F
    BY <1>1, <1>5
  <2>2. PICK h : h = f[i - 1] /\ f[i] = Merge(h, l)
    BY <1>6, <2>1
  <2>3. i \in 0..n /\ i \in 1..i /\ \A j \in 1..i : j = i \/ j \in 1..(i - 1)
    OBVIOUS
  <2>4. \A j \in 1..(i - 1) : j \in 1..i
    OBVIOUS
  <2>5. CASE Same(i - 1)
    <3>1. h = m /\ \A j \in 1..(i - 1) : ~Joins(m, q[j])
      BY <2>2, <2>5
    <3>2. CASE Joins(m, l)
      <4>1. PICK x \in S : Live(head, Merge(m, l), S \ {x}, F, A, m0)
        BY <3>2, MergeLive
      <4>2. S \ {x} \subseteq S /\ S \ {x} # S /\ Live(head, f[i], S \ {x}, F, A, m0)
        BY <2>2, <3>1, <4>1
      <4>3. Less(i)
        BY <2>1, <2>3, <3>2, <4>2
      <4> QED
        BY <2>3, <4>3
    <3>3. CASE ~Joins(m, l)
      <4>1. l \in Addr
        BY <1>1, <2>1 DEF Live
      <4>2. f[i] = m
        BY <1>1, <2>2, <3>1, <3>3, <4>1, MergeIs
      <4>3. Same(i)
        BY <2>1, <2>3, <3>1, <3>3, <4>2
      <4> QED
        BY <2>3, <4>3
    <3> QED
      BY <3>2, <3>3
  <2>6. CASE Less(i - 1)
    <3>1. PICK S2 : S2 \subseteq S /\ S2 # S /\ Live(head, h, S2, F, A, m0)
      BY <2>2, <2>6
    <3>2. \E S3 : S3 \subseteq S /\ S3 # S /\ Live(head, Merge(h, l), S3, F, A, m0)
      <4>1. CASE l \notin S2
        <5>1. Live(head, Merge(h, l), S2, F, A, m0)
          BY <2>1, <3>1, <4>1, MergeDead
        <5> QED
          BY <3>1, <5>1
      <4>2. CASE l \in S2 /\ Joins(h, l)
        <5>1. PICK x \in S2 : Live(head, Merge(h, l), S2 \ {x}, F, A, m0)
          BY <3>1, <4>2, MergeLive
        <5>2. S2 \ {x} \subseteq S /\ S2 \ {x} # S
          BY <3>1
        <5> QED
          BY <5>1, <5>2
      <4>3. CASE l \in S2 /\ ~Joins(h, l)
        <5>1. h \in Heaps /\ l \in Addr
          BY <1>1, <2>1, <3>1 DEF Live
        <5>2. Merge(h, l) = h
          BY <4>3, <5>1, MergeIs
        <5> QED
          BY <3>1, <5>2
      <4> QED
        BY <4>1, <4>2, <4>3
    <3>3. \E j \in 1..i : Joins(m, q[j])
      BY <2>4, <2>6
    <3>4. Less(i)
      BY <2>2, <3>2, <3>3
    <3> QED
      BY <2>3, <3>4
  <2> HIDE DEF Same, Less
  <2> QED
    BY <1>8, <2>5, <2>6
<1>9. n \in T
  <2>1. 0..n \subseteq T
    <3> HIDE DEF T
    <3> QED
      BY <1>7, <1>8, CountUp
  <2> HIDE DEF T
  <2> QED
    BY <2>1
<1>10. Settled(m, S) <=> \A j \in 1..n : ~Joins(m, q[j])
  BY <1>5 DEF Settled
<1>11. CASE Same(n)
  BY <1>6, <1>10, <1>11
<1>12. CASE Less(n)
  BY <1>6, <1>10, <1>12
<1> HIDE DEF Same, Less
<1> QED
  BY <1>9, <1>11, <1>12

\* There are as many places on a list as it has chunks, and not more than bytes.
LEMMA ChainLength ==
  ASSUME NEW m \in Heaps, NEW head \in Places, NEW q, q = Chain(head, m)
  PROVE  q \in Seq(Addr) /\ Len(q) \in 0..MemSize /\ IsFiniteSet(ToSet(q)) /\ Cardinality(ToSet(q)) <= Len(q)
<1>1. q \in Seq(Addr) /\ InOrder(q, m)
  BY AlongInOrder DEF Chain
<1>2. PICK n \in Nat : n = Len(q)
  BY <1>1
<1>3. \A i, j \in 1..n : i < j => q[i] < q[j]
  BY <1>1, <1>2 DEF InOrder
<1>4. \A i \in 1..n : q[i] \in Nat /\ q[i] < MemSize
  BY <1>1, <1>2, PlaceIs
<1> DEFINE T == {i \in 0..n : i # 0 => q[i] >= i - 1}
<1>5. 0 \in T
  OBVIOUS
<1>6. ASSUME NEW i \in 1..n, i - 1 \in T PROVE i \in T
  <2>1. CASE i = 1
    BY <1>4, <2>1
  <2>2. CASE i # 1
    <3>1. i - 1 \in 1..n /\ i - 1 # 0 /\ i - 1 < i
      BY <2>2
    <3>2. q[i - 1] >= (i - 1) - 1 /\ q[i - 1] < q[i]
      BY <1>3, <1>6, <3>1
    <3>3. q[i] >= i - 1
      BY <1>4, <3>1, <3>2
    <3> QED
      BY <3>3
  <2> QED
    BY <2>1, <2>2
<1>7. 0..n \subseteq T
  <2> HIDE DEF T
  <2> QED
    BY <1>5, <1>6, CountUp
<1>8. n <= MemSize
  <2>1. CASE n = 0
    BY <2>1
  <2>2. CASE n # 0
    <3>1. n \in 1..n /\ n \in 0..n
      BY <2>2
    <3>2. q[n] >= n - 1 /\ q[n] \in Nat /\ q[n] < MemSize
      BY <1>4, <1>7, <2>2, <3>1
    <3> QED
      BY <3>2
  <2> QED
    BY <2>1, <2>2
<1>9. ExistsSurjection(1..n, ToSet(q))
  <2>1. \A x : x \in ToSet(q) <=> \E k \in 1..n : q[k] = x
    BY <1>1, <1>2, InChain
  <2>2. q \in [1..n -> ToSet(q)]
    BY <1>1, <1>2, <2>1
  <2>3. q \in Surjection(1..n, ToSet(q))
    BY <2>1, <2>2 DEF Surjection
  <2> QED
    BY <2>3 DEF ExistsSurjection
<1>10. Cardinality(ToSet(q)) <= n
  BY <1>9, FS_SurjCardinalityBound
<1>11. IsFiniteSet(ToSet(q))
  BY <1>9, FS_NatSurjection
<1> QED
  BY <1>1, <1>2, <1>8, <1>10, <1>11

\* f holds the headers after each pass of the clean-up.
PassesRun(f, head, m) ==
  /\ f[0] = m /\ \A i \in 1..MemSize : f[i] = MergePass(head, f[i - 1])
  /\ cleanup_free_chunks(head, m) = f[Len(Chain(head, m))]

\* The passes are well defined.
LEMMA PassesExist ==
  ASSUME NEW m \in Heaps, NEW head \in Places
  PROVE  \E f : PassesRun(f, head, m)
<1> DEFINE g == [i \in 1..MemSize |-> [h \in Heaps |-> MergePass(head, h)]]
           Loop(h) == [k \in 0..MemSize |-> IF k = 0 THEN m ELSE MergePass(head, h[k - 1])]
<1>1. ASSUME NEW h \in Heaps PROVE MergePass(head, h) \in Heaps
  <2>1. PICK q \in Seq(Addr) : q = Chain(head, h)
    BY ChainLength
  <2>2. PICK f : PassRuns(f, q, h)
    BY PassRounds
  <2>3. f[Len(q)] \in Heaps /\ Iterated(Merge, h, q) = f[Len(q)]
    BY <2>2 DEF PassRuns
  <2> QED
    BY <2>1, <2>3 DEF MergePass
<1>2. g \in [1..MemSize -> [Heaps -> Heaps]] /\ \A i \in 1..MemSize, h \in Heaps : g[i][h] = MergePass(head, h)
  BY <1>1
<1> HIDE DEF g
<1>3. PICK f \in [0..MemSize -> Heaps] : f[0] = m /\ \A i \in 1..MemSize : f[i] = g[i][f[i - 1]]
  <2>1. PICK f : Runs(f, Heaps, m, MemSize, g)
    BY <1>2, RoundsExist
  <2> QED
    BY <2>1 DEF Runs
<1>4. \A i \in 0..MemSize : i # 0 => i \in 1..MemSize /\ i - 1 \in 0..MemSize
  OBVIOUS
<1>5. f = Loop(f)
  BY <1>2, <1>3, <1>4
<1> DEFINE c == CHOOSE h : h = Loop(h)
<1>6. c = Loop(c)
  BY <1>5
<1>7. cleanup_free_chunks(head, m) = c[Len(Chain(head, m))]
  BY DEF cleanup_free_chunks
<1> HIDE DEF c
<1>8. c[0] = m /\ \A i \in 1..MemSize : c[i] = MergePass(head, c[i - 1])
  <2>1. \A i \in 0..MemSize : c[i] = IF i = 0 THEN m ELSE MergePass(head, c[i - 1])
    <3>1. ASSUME NEW i \in 0..MemSize PROVE Loop(c)[i] = IF i = 0 THEN m ELSE MergePass(head, c[i - 1])
      OBVIOUS
    <3> HIDE DEF Loop
    <3> QED
      BY <1>6, <3>1
  <2> QED
    BY <2>1
<1>9. PassesRun(c, head, m)
  BY <1>7, <1>8 DEF PassesRun
<1> QED
  BY <1>9

\* The clean-up goes on until nothing can be joined.
LEMMA CleanupDoes ==
  ASSUME NEW head, NEW m, NEW S, NEW F, NEW A, NEW m0, Live(head, m, S, F, A, m0)
  PROVE  \E S2 : /\ Live(head, cleanup_free_chunks(head, m), S2, F, A, m0) /\ S2 \subseteq S
                 /\ Settled(cleanup_free_chunks(head, m), S2)
<1>1. m \in Heaps /\ ListOf(head, m, S)
  BY DEF Live
<1>2. head \in Places /\ ToSet(Chain(head, m)) = S
  BY <1>1, ListChains
<1>3. PICK n \in 0..MemSize : n = Len(Chain(head, m)) /\ IsFiniteSet(S) /\ Cardinality(S) <= n
  BY <1>1, <1>2, ChainLength
<1>4. PICK f : f[0] = m /\ (\A i \in 1..MemSize : f[i] = MergePass(head, f[i - 1]))
               /\ cleanup_free_chunks(head, m) = f[n]
  BY <1>1, <1>2, <1>3, PassesExist DEF PassesRun
<1> DEFINE Left(i, S2) == /\ Live(head, f[i], S2, F, A, m0) /\ S2 \subseteq S
                          /\ Settled(f[i], S2) \/ Cardinality(S2) + i <= Cardinality(S)
           T == {i \in 0..n : \E S2 : Left(i, S2)}
<1>5. Cardinality(S) \in Nat
  BY <1>3, FS_CardinalityType
<1>6. 0 \in T
  <2>1. Left(0, S)
    BY <1>4, <1>5
  <2> QED
    BY <2>1
<1>7. ASSUME NEW i \in 1..n, i - 1 \in T PROVE i \in T
  <2>1. PICK S2 : Left(i - 1, S2)
    BY <1>7
  <2>2. PICK h : h = f[i - 1] /\ f[i] = MergePass(head, h)
    BY <1>4
  <2>3. PICK S3 : /\ Live(head, f[i], S3, F, A, m0) /\ S3 \subseteq S2
                  /\ IF Settled(h, S2) THEN S3 = S2 /\ f[i] = h ELSE S3 # S2
    <3>1. Live(head, h, S2, F, A, m0)
      BY <2>1, <2>2
    <3> QED
      BY <2>2, <3>1, PassDoes
  <2>4. S3 \subseteq S
    BY <2>1, <2>3
  <2>5. CASE Settled(h, S2)
    <3>1. Settled(f[i], S3)
      BY <2>3, <2>5
    <3>2. Left(i, S3)
      BY <2>3, <2>4, <3>1
    <3> QED
      BY <3>2
  <2>6. CASE ~Settled(h, S2)
    <3>1. Cardinality(S2) + (i - 1) <= Cardinality(S)
      BY <2>1, <2>2, <2>6
    <3>2. IsFiniteSet(S2) /\ IsFiniteSet(S3)
      BY <1>3, <2>1, <2>4, FS_Subset
    <3>3. Cardinality(S3) <= Cardinality(S2) /\ Cardinality(S3) # Cardinality(S2)
      BY <2>3, <2>6, <3>2, FS_Subset
    <3>4. Cardinality(S2) \in Nat /\ Cardinality(S3) \in Nat
      BY <3>2, FS_CardinalityType
    <3>5. Cardinality(S3) + i <= Cardinality(S)
      BY <1>5, <3>1, <3>3, <3>4
    <3>6. Left(i, S3)
      BY <2>3, <2>4, <3>5
    <3> QED
      BY <3>6
  <2> HIDE DEF Left
  <2> QED
    BY <2>5, <2>6
<1>8. PICK S2 : Left(n, S2)
  <2>1. 0..n \subseteq T
    <3> HIDE DEF T
    <3> QED
      BY <1>6, <1>7, CountUp
  <2> QED
    BY <2>1
<1>9. Settled(f[n], S2)
  <2>1. CASE Cardinality(S2) + n <= Cardinality(S)
    <3>1. IsFiniteSet(S2)
      BY <1>3, <1>8, FS_Subset
    <3>2. Cardinality(S2) = 0
      BY <1>3, <1>5, <2>1, <3>1, FS_CardinalityType
    <3>3. S2 = {}
      BY <3>1, <3>2, FS_EmptySet
    <3> QED
      BY <3>3 DEF Settled
  <2> QED
    BY <1>8, <2>1
<1> QED
  BY <1>4, <1>8, <1>9

-----------------------------------------------------------------------------
(* alloc() and free()                                                      *)

\* What the clients' and the free chunks F and A look like between the calls.
Sound(m, F, A) ==
  /\ F \cap A = {} /\ Tiles(m, F \cup A)
  /\ \A x \in F : x + Hdr + m[x].size \notin F
  /\ \A x \in F : m[x].overhang = 0
  /\ \A x \in A : m[x].overhang < m[x].size /\ m[x].overhang <= 2 * Hdr

\* The same, with the lists in place.
Sits(fh, ah, m, F, A) ==
  m \in Heaps /\ ListOf(fh, m, F) /\ ListOf(ah, m, A) /\ Sound(m, F, A)

\* A chunk lies inside the segment.
LEMMA ChunkIs ==
  ASSUME NEW fh, NEW ah, NEW m, NEW F, NEW A, Sits(fh, ah, m, F, A), NEW x \in F \cup A
  PROVE  /\ x \in Addr /\ x \in Nat /\ x < MemSize
         /\ m[x].size \in Nat /\ m[x].overhang \in Nat
         /\ x + Hdr + m[x].size <= MemSize
<1>1. m \in Heaps /\ F \subseteq Addr /\ A \subseteq Addr /\ Tiles(m, F \cup A)
  BY DEF Sits, Sound, ListOf
<1>2. x \in Addr /\ x \in Nat /\ x < MemSize /\ m[x].size \in Nat /\ m[x].overhang \in Nat
  BY <1>1, HeapAt, PlaceIs
<1>3. PICK z : z = x + Hdr + m[x].size /\ z \in (F \cup A) \cup {MemSize}
  BY <1>1 DEF Tiles
<1>4. z <= MemSize
  BY <1>1, <1>3, PlaceIs
<1> QED
  BY <1>2, <1>3, <1>4

\* Writing one field of a header.
LEMMA SetOverhang ==
  ASSUME NEW m \in Heaps, NEW x \in Addr, NEW v \in Nat, NEW k, k = [m EXCEPT ![x].overhang = v]
  PROVE  /\ k \in Heaps
         /\ \A y \in Addr : /\ k[y].next = m[y].next /\ k[y].size = m[y].size
                            /\ k[y].overhang = IF y = x THEN v ELSE m[y].overhang
<1>1. m \in [Addr -> Header] /\ \A y \in Addr : m[y].next # Null => m[y].next > y
  BY DEF Heaps
<1>2. ASSUME NEW y \in Addr
      PROVE  /\ k[y] \in Header /\ k[y].next = m[y].next /\ k[y].size = m[y].size
             /\ k[y].overhang = IF y = x THEN v ELSE m[y].overhang
  <2>1. m[y] \in Header
    BY <1>1
  <2>2. CASE y = x
    <3>1. k[y] = [m[y] EXCEPT !.overhang = v]
      BY <1>1, <2>2
    <3> QED
      BY <2>1, <2>2, <3>1 DEF Header
  <2>3. CASE y # x
    BY <1>1, <2>1, <2>3
  <2> QED
    BY <2>2, <2>3
<1>3. k \in [Addr -> Header]
  BY <1>1, <1>2
<1> QED
  BY <1>1, <1>2, <1>3 DEF Heaps

Resized(k, m, x, v) ==
  /\ k \in Heaps
  /\ \A y \in Addr : /\ k[y].next = m[y].next /\ k[y].overhang = m[y].overhang
                     /\ k[y].size = IF y = x THEN v ELSE m[y].size

LEMMA SetSize ==
  ASSUME NEW m \in Heaps, NEW x \in Addr, NEW v \in Nat, NEW k, k = [m EXCEPT ![x].size = v]
  PROVE  Resized(k, m, x, v)
<1>1. m \in [Addr -> Header] /\ \A y \in Addr : m[y].next # Null => m[y].next > y
  BY DEF Heaps
<1>2. ASSUME NEW y \in Addr
      PROVE  /\ k[y] \in Header /\ k[y].next = m[y].next /\ k[y].overhang = m[y].overhang
             /\ k[y].size = IF y = x THEN v ELSE m[y].size
  <2>1. m[y] \in Header
    BY <1>1
  <2>2. CASE y = x
    <3>1. k[y] = [m[y] EXCEPT !.size = v]
      BY <1>1, <2>2
    <3> QED
      BY <2>1, <2>2, <3>1 DEF Header
  <2>3. CASE y # x
    BY <1>1, <2>1, <2>3
  <2> QED
    BY <2>2, <2>3
<1>3. k \in [Addr -> Header]
  BY <1>1, <1>2
<1> QED
  BY <1>1, <1>2, <1>3 DEF Heaps, Resized

Begun(k, m, x, v) ==
  /\ k \in Heaps /\ k[x].size = v /\ k[x].overhang = 0
  /\ \A y \in Addr : y # x => k[y] = m[y]

LEMMA NewHeader ==
  ASSUME NEW m \in Heaps, NEW x \in Addr, NEW v \in Nat,
         NEW k, k = [m EXCEPT ![x] = [NoHeader EXCEPT !.size = v]]
  PROVE  Begun(k, m, x, v)
<1>1. m \in [Addr -> Header] /\ \A y \in Addr : m[y].next # Null => m[y].next > y
  BY DEF Heaps
<1>2. PICK h : h = [NoHeader EXCEPT !.size = v]
  OBVIOUS
<1>3. h \in Header /\ h.next = Null /\ h.size = v /\ h.overhang = 0
  BY <1>2, PlaceIs DEF NoHeader, Header
<1>4. k = [m EXCEPT ![x] = h]
  BY <1>2
<1>5. k[x] = h /\ (\A y \in Addr : y # x => k[y] = m[y]) /\ k \in [Addr -> Header]
  BY <1>1, <1>3, <1>4
<1>6. \A y \in Addr : k[y].next # Null => k[y].next > y
  BY <1>1, <1>3, <1>5
<1> QED
  BY <1>3, <1>5, <1>6 DEF Heaps, Begun

\* The areas of the clients' chunks A stay as they are.
Untouched(k, m, A) == \A x \in A : k[x].size = m[x].size /\ k[x].overhang = m[x].overhang

\* Freeing a chunk.
LEMMA FreeDoes ==
  ASSUME NEW fh, NEW ah, NEW m, NEW F, NEW A, Sits(fh, ah, m, F, A), NEW ac \in A,
         NEW al, al = list_remove(ah, m, ac),
         NEW fl, fl = list_add(fh, [al.mem EXCEPT ![ac].overhang = 0], ac),
         NEW k, k = cleanup_free_chunks(fl.head, fl.mem)
  PROVE  \E F2 : Sits(fl.head, al.head, k, F2, A \ {ac}) /\ Untouched(k, m, A \ {ac})
<1>1. /\ m \in Heaps /\ ListOf(fh, m, F) /\ ListOf(ah, m, A)
      /\ F \subseteq Addr /\ A \subseteq Addr /\ F \cap A = {} /\ Tiles(m, F \cup A)
  BY DEF Sits, Sound, ListOf
<1>2. /\ \A x \in F : m[x].overhang = 0
      /\ \A x \in A : m[x].overhang < m[x].size /\ m[x].overhang <= 2 * Hdr
  BY DEF Sits, Sound
<1>3. ac \in Addr /\ ac \notin F
  BY <1>1
<1>4. PICK k1 : k1 = al.mem /\ k1 \in Heaps /\ ListOf(al.head, k1, A \ {ac}) /\ SameBut(k1, m, A)
  BY <1>1, RemoveDoes
<1>5. ListOf(fh, k1, F)
  <2>1. \A x \in F : k1[x] = m[x]
    BY <1>1, <1>4 DEF SameBut
  <2> QED
    BY <1>1, <2>1, SameLinks
<1>6. PICK k2 : k2 = [k1 EXCEPT ![ac].overhang = 0]
  OBVIOUS
<1>7. /\ k2 \in Heaps
      /\ \A y \in Addr : /\ k2[y].next = k1[y].next /\ k2[y].size = k1[y].size
                         /\ k2[y].overhang = IF y = ac THEN 0 ELSE k1[y].overhang
  BY <1>3, <1>4, <1>6, SetOverhang
<1>8. ListOf(fh, k2, F) /\ ListOf(al.head, k2, A \ {ac})
  BY <1>1, <1>4, <1>5, <1>7, SameLinks
<1>9. PICK k3 : /\ k3 = fl.mem /\ k3 \in Heaps /\ ListOf(fl.head, k3, F \cup {ac})
                /\ SameBut(k3, k2, F \cup {ac})
  <2>1. fl = list_add(fh, k2, ac)
    BY <1>4, <1>6
  <2> QED
    BY <1>3, <1>7, <1>8, <2>1, AddDoes
<1>10. \A y \in Addr : /\ k3[y].size = m[y].size
                       /\ k3[y].overhang = IF y = ac THEN 0 ELSE m[y].overhang
  BY <1>4, <1>7, <1>9 DEF SameBut
<1>11. ListOf(al.head, k3, A \ {ac})
  <2>1. \A x \in A \ {ac} : k3[x] = k2[x]
    BY <1>1, <1>9 DEF SameBut
  <2> QED
    BY <1>8, <2>1, SameLinks
<1>12. (F \cup {ac}) \cup (A \ {ac}) = F \cup A /\ (F \cup {ac}) \cap (A \ {ac}) = {}
  BY <1>1
<1>13. Tiles(k3, F \cup A)
  <2>1. \A x \in F \cup A : k3[x].size = m[x].size
    BY <1>1, <1>10
  <2> QED
    BY <1>1, <2>1 DEF Tiles
<1>14. \A x \in F \cup {ac} : x \in Addr /\ k3[x].overhang = 0
  BY <1>1, <1>2, <1>3, <1>10
<1>15. Live(fl.head, k3, F \cup {ac}, F \cup {ac}, A \ {ac}, k3)
  BY <1>1, <1>9, <1>12, <1>13, <1>14 DEF Live
<1>16. PICK F2 : Live(fl.head, k, F2, F \cup {ac}, A \ {ac}, k3) /\ Settled(k, F2)
  BY <1>9, <1>15, CleanupDoes
<1>17. /\ k \in Heaps /\ ListOf(fl.head, k, F2) /\ F2 \subseteq F \cup {ac} /\ F2 \subseteq Addr
       /\ Tiles(k, F2 \cup (A \ {ac}))
       /\ \A x \in Addr : x \notin F \cup {ac} => k[x] = k3[x]
       /\ \A x \in F2 : k[x].overhang = 0
  BY <1>16 DEF Live
<1>18. \A x \in A \ {ac} : x \in Addr /\ k[x] = k3[x]
  BY <1>1, <1>17
<1>19. ListOf(al.head, k, A \ {ac})
  BY <1>11, <1>18, SameLinks
<1>20. \A x \in A \ {ac} : k[x].size = m[x].size /\ k[x].overhang = m[x].overhang
  BY <1>10, <1>18
<1>21. ASSUME NEW x \in F2 PROVE x + Hdr + k[x].size \notin F2
  <2>1. PICK y : y = x + Hdr + k[x].size
    OBVIOUS
  <2>2. PICK n : n = k[x].next
    OBVIOUS
  <2>3. After(F2, x, n) /\ ~Joins(k, x)
    BY <1>16, <1>17, <2>2 DEF ListOf, Settled
  <2>4. x \in Nat /\ k[x].size \in Nat /\ \A z \in F2 : z \in Nat
    BY <1>17, HeapAt, PlaceIs
  <2>5. ASSUME y \in F2 PROVE FALSE
    <3>1. y > x /\ y \in Nat
      BY <2>1, <2>4
    <3>2. n # Null /\ n \in F2 /\ n > x /\ n <= y /\ n \in Nat
      <4>1. ~(y <= x)
        BY <2>4, <3>1
      <4>2. n \in F2 /\ n > x /\ n <= y
        BY <2>3, <2>4, <2>5, <3>1, <4>1 DEF After
      <4> QED
        BY <1>17, <2>4, <4>2, PlaceIs
    <3>3. y <= n
      BY <1>17, <2>1, <3>2, <2>4 DEF Tiles
    <3>4. n = y
      BY <3>1, <3>2, <3>3
    <3> QED
      BY <2>1, <2>2, <2>3, <3>2, <3>4 DEF Joins
  <2> QED
    BY <2>1, <2>5
<1>22. F2 \cap (A \ {ac}) = {}
  BY <1>12, <1>17
<1>23. Sound(k, F2, A \ {ac})
  BY <1>2, <1>17, <1>20, <1>21, <1>22 DEF Sound
<1>24. Sits(fl.head, al.head, k, F2, A \ {ac}) /\ Untouched(k, m, A \ {ac})
  BY <1>17, <1>19, <1>20, <1>23 DEF Sits, Untouched
<1> QED
  BY <1>24

\* The lists with a chunk f handed out to a client that asked for n bytes.
Allotted(fh, al, m, F, A, f, n) ==
  /\ Sits(fh, al.head, al.mem, F, A \cup {f}) /\ Untouched(al.mem, m, A)
  /\ al.mem[f].size - al.mem[f].overhang = n

\* Taking all of a free chunk.
LEMMA AllocWhole ==
  ASSUME NEW fh, NEW ah, NEW m, NEW F, NEW A, Sits(fh, ah, m, F, A),
         NEW f \in F, NEW n \in Nat, n > 0, m[f].size >= n, m[f].size <= n + 2 * Hdr,
         NEW cut, cut = list_remove(fh, m, f),
         NEW al, al = list_add(ah, [cut.mem EXCEPT ![f].overhang = m[f].size - n], f)
  PROVE  Allotted(cut.head, al, m, F \ {f}, A, f, n)
<1>1. /\ m \in Heaps /\ ListOf(fh, m, F) /\ ListOf(ah, m, A)
      /\ F \subseteq Addr /\ A \subseteq Addr /\ F \cap A = {} /\ Tiles(m, F \cup A)
  BY DEF Sits, Sound, ListOf
<1>2. /\ \A x \in F : m[x].overhang = 0 /\ x + Hdr + m[x].size \notin F
      /\ \A x \in A : m[x].overhang < m[x].size /\ m[x].overhang <= 2 * Hdr
  BY DEF Sits, Sound
<1>3. f \in Addr /\ f \notin A /\ m[f].size \in Nat /\ m[f].size - n \in Nat
  BY <1>1, HeapAt
<1>4. PICK k0 : k0 = cut.mem /\ k0 \in Heaps /\ ListOf(cut.head, k0, F \ {f}) /\ SameBut(k0, m, F)
  BY <1>1, RemoveDoes
<1>5. ListOf(ah, k0, A)
  <2>1. \A x \in A : k0[x] = m[x]
    BY <1>1, <1>4 DEF SameBut
  <2> QED
    BY <1>1, <2>1, SameLinks
<1>6. PICK k1 : k1 = [k0 EXCEPT ![f].overhang = m[f].size - n]
  OBVIOUS
<1>7. /\ k1 \in Heaps
      /\ \A y \in Addr : /\ k1[y].next = k0[y].next /\ k1[y].size = k0[y].size
                         /\ k1[y].overhang = IF y = f THEN m[f].size - n ELSE k0[y].overhang
  BY <1>6, <1>3, <1>4, SetOverhang
<1>8. ListOf(cut.head, k1, F \ {f}) /\ ListOf(ah, k1, A)
  <2>1. (\A x \in F \ {f} : k1[x].next = k0[x].next) /\ (\A x \in A : k1[x].next = k0[x].next)
    BY <1>1, <1>7
  <2> QED
    <3>1. ListOf(cut.head, k1, F \ {f})
      BY <1>4, <2>1, SameLinks
    <3> QED
      BY <1>5, <2>1, <3>1, SameLinks
<1>9. PICK k : /\ k = al.mem /\ k \in Heaps /\ ListOf(al.head, k, A \cup {f})
               /\ SameBut(k, k1, A \cup {f})
  <2>1. al = list_add(ah, k1, f)
    BY <1>6, <1>4
  <2> QED
    BY <1>3, <1>7, <1>8, <2>1, AddDoes
<1>10. ListOf(cut.head, k, F \ {f})
  <2>1. \A x \in F \ {f} : k[x] = k1[x]
    BY <1>1, <1>9 DEF SameBut
  <2> QED
    BY <1>8, <2>1, SameLinks
<1>11. \A y \in Addr : /\ k[y].size = m[y].size
                       /\ k[y].overhang = IF y = f THEN m[f].size - n ELSE m[y].overhang
  BY <1>4, <1>7, <1>9 DEF SameBut
<1>12. (F \ {f}) \cup (A \cup {f}) = F \cup A /\ (F \ {f}) \cap (A \cup {f}) = {}
  BY <1>1
<1>13. Tiles(k, F \cup A)
  <2>1. \A x \in F \cup A : k[x].size = m[x].size
    BY <1>1, <1>11
  <2> QED
    BY <1>1, <2>1 DEF Tiles
<1>14. \A x \in F \ {f} : k[x].overhang = 0 /\ x + Hdr + k[x].size \notin F \ {f}
  <2>1. \A x \in F \ {f} : x \in Addr /\ k[x].size = m[x].size /\ k[x].overhang = m[x].overhang
    BY <1>1, <1>11
  <2> QED
    BY <1>2, <2>1
<1>15. \A x \in A : k[x].size = m[x].size /\ k[x].overhang = m[x].overhang
  BY <1>1, <1>3, <1>11
<1>16. k[f].size = m[f].size /\ k[f].overhang = m[f].size - n
  BY <1>3, <1>11
<1>17. m[f].size - n < m[f].size /\ m[f].size - n <= 2 * Hdr /\ m[f].size - (m[f].size - n) = n
  BY <1>3
<1>18. \A x \in A \cup {f} : k[x].overhang < k[x].size /\ k[x].overhang <= 2 * Hdr
  BY <1>2, <1>15, <1>16, <1>17
<1>19. Sound(k, F \ {f}, A \cup {f})
  BY <1>12, <1>13, <1>14, <1>18 DEF Sound
<1>20. Sits(cut.head, al.head, k, F \ {f}, A \cup {f}) /\ Untouched(k, m, A)
  BY <1>9, <1>10, <1>15, <1>19 DEF Sits, Untouched
<1> QED
  BY <1>9, <1>16, <1>17, <1>20 DEF Allotted

\* Cutting a chunk in two.
LEMMA TilesSplit ==
  ASSUME NEW m \in Heaps, NEW C \in SUBSET Addr, Tiles(m, C), NEW f \in C, NEW n \in Nat,
         m[f].size >= n + Hdr, NEW r, r = f + Hdr + n, r \notin C,
         NEW k, \A x \in C : x # f => k[x].size = m[x].size,
         k[f].size = n, k[r].size = m[f].size - n - Hdr
  PROVE  Tiles(k, C \cup {r}) /\ r + Hdr + k[r].size = f + Hdr + m[f].size
<1>1. /\ 0 \in C
      /\ \A x \in C : x + Hdr + m[x].size \in C \cup {MemSize}
      /\ \A x, y \in C : x < y => x + Hdr + m[x].size <= y
  BY DEF Tiles
<1>2. \A x \in C : x \in Nat /\ m[x].size \in Nat
  BY HeapAt, PlaceIs
<1>3. PICK a \in Nat : a = f
  BY <1>2
<1>4. PICK s \in Nat : s = m[f].size
  BY <1>2
<1>5. r = a + Hdr + n /\ r \in Nat /\ r > a /\ r < a + Hdr + s /\ s - n - Hdr \in Nat
  BY <1>3, <1>4
<1>6. r + Hdr + k[r].size = a + Hdr + s /\ k[r].size \in Nat
  BY <1>3, <1>4, <1>5
<1>7. ASSUME NEW x \in C \cup {r} PROVE x + Hdr + k[x].size \in (C \cup {r}) \cup {MemSize}
  <2>1. CASE x = r
    BY <1>1, <1>3, <1>4, <1>6, <2>1
  <2>2. CASE x = f
    BY <2>2
  <2>3. CASE x # r /\ x # f
    BY <1>1, <2>3
  <2> QED
    BY <2>1, <2>2, <2>3
<1>8. ASSUME NEW x \in C \cup {r}, NEW y \in C \cup {r}, x < y PROVE x + Hdr + k[x].size <= y
  <2>1. CASE x = r
    <3>1. y \in C /\ y \in Nat
      <4>1. y # r
        BY <1>5, <1>8, <2>1
      <4> QED
        BY <1>2, <4>1
    <3>2. a < y
      BY <1>5, <1>8, <2>1, <3>1
    <3>3. a + Hdr + s <= y
      BY <1>1, <1>3, <1>4, <3>1, <3>2
    <3> QED
      BY <1>6, <2>1, <3>3
  <2>2. CASE x = f
    <3>1. x + Hdr + k[x].size = r
      BY <2>2
    <3>2. CASE y = r
      BY <1>5, <3>1, <3>2
    <3>3. CASE y # r
      <4>1. y \in C /\ y \in Nat /\ a + Hdr + s <= y
        BY <1>1, <1>2, <1>3, <1>4, <1>8, <2>2, <3>3
      <4> QED
        BY <1>5, <3>1, <4>1
    <3> QED
      BY <3>2, <3>3
  <2>3. CASE x # r /\ x # f
    <3>1. x \in C /\ k[x].size = m[x].size /\ x \in Nat /\ m[x].size \in Nat
      BY <1>2, <2>3
    <3>2. CASE y = r
      <4>1. x < a => x + Hdr + m[x].size <= a
        BY <1>1, <1>3, <3>1
      <4>2. a < x => a + Hdr + s <= x
        BY <1>1, <1>3, <1>4, <3>1
      <4>3. x < a
        BY <1>3, <1>5, <1>8, <2>3, <3>1, <3>2, <4>2
      <4> QED
        BY <1>5, <3>1, <3>2, <4>1, <4>3
    <3>3. CASE y # r
      BY <1>1, <1>8, <3>1, <3>3
    <3> QED
      BY <3>2, <3>3
  <2> QED
    BY <2>1, <2>2, <2>3
<1>9. Tiles(k, C \cup {r})
  BY <1>1, <1>7, <1>8 DEF Tiles
<1> QED
  BY <1>3, <1>4, <1>6, <1>9

\* Taking the first part of a free chunk.
LEMMA AllocSplits ==
  ASSUME NEW fh, NEW ah, NEW m, NEW F, NEW A, Sits(fh, ah, m, F, A),
         NEW f \in F, NEW n \in Nat, n > 0, m[f].size >= n + Hdr + Hdr,
         NEW cut, cut = list_remove(fh, m, f),
         NEW r, r = f + Hdr + n,
         NEW rest, rest = list_add(cut.head, [cut.mem EXCEPT ![r] = [NoHeader EXCEPT !.size = m[f].size - n - Hdr]], r),
         NEW al, al = list_add(ah, [rest.mem EXCEPT ![f].size = n], f)
  PROVE  Allotted(rest.head, al, m, (F \ {f}) \cup {r}, A, f, n)
<1>1. /\ m \in Heaps /\ ListOf(fh, m, F) /\ ListOf(ah, m, A)
      /\ F \subseteq Addr /\ A \subseteq Addr /\ F \cap A = {} /\ Tiles(m, F \cup A)
  BY DEF Sits, Sound, ListOf
<1>2. /\ \A x \in F : m[x].overhang = 0 /\ x + Hdr + m[x].size \notin F
      /\ \A x \in A : m[x].overhang < m[x].size /\ m[x].overhang <= 2 * Hdr
  BY DEF Sits, Sound
<1>3. f \in Addr /\ f \notin A /\ f \in Nat /\ m[f].size \in Nat /\ f + Hdr + m[f].size <= MemSize
  <2>1. f \in F \cup A
    OBVIOUS
  <2>2. f \in Addr /\ f \in Nat /\ m[f].size \in Nat /\ f + Hdr + m[f].size <= MemSize
    BY <2>1, ChunkIs
  <2> QED
    BY <1>1, <2>2
<1>4. /\ m[f].size - n - Hdr \in Nat /\ r \in Nat /\ r < MemSize /\ r > f /\ r < f + Hdr + m[f].size
      /\ r \in Addr /\ r # f
  <2>1. m[f].size - n - Hdr \in Nat /\ r \in Nat /\ r < MemSize /\ r > f /\ r < f + Hdr + m[f].size
    BY <1>3
  <2> QED
    BY <1>3, <2>1, PlaceIs
<1>5. r \notin F /\ r \notin A
  <2>1. r \in F \cup A => f + Hdr + m[f].size <= r
    BY <1>1, <1>4 DEF Tiles
  <2> QED
    BY <1>3, <1>4, <2>1
<1>6. PICK k0 : k0 = cut.mem /\ k0 \in Heaps /\ ListOf(cut.head, k0, F \ {f}) /\ SameBut(k0, m, F)
  BY <1>1, RemoveDoes
<1>7. ListOf(ah, k0, A)
  <2>1. \A x \in A : k0[x] = m[x]
    BY <1>1, <1>6 DEF SameBut
  <2> QED
    BY <1>1, <2>1, SameLinks
<1>8. PICK v \in Nat : v = m[f].size - n - Hdr
  BY <1>4
<1>9. PICK k1 : k1 = [k0 EXCEPT ![r] = [NoHeader EXCEPT !.size = v]]
  OBVIOUS
<1>10. /\ k1 \in Heaps /\ k1[r].size = v /\ k1[r].overhang = 0
      /\ \A y \in Addr : y # r => k1[y] = k0[y]
  <2>1. r \in Addr /\ k0 \in Heaps
    BY <1>4, <1>6
  <2>2. Begun(k1, k0, r, v)
    BY <1>9, <2>1, NewHeader
  <2> QED
    BY <2>2 DEF Begun
<1>11. ListOf(cut.head, k1, F \ {f}) /\ ListOf(ah, k1, A)
  <2>1. (\A x \in F \ {f} : k1[x].next = k0[x].next) /\ (\A x \in A : k1[x].next = k0[x].next)
    BY <1>1, <1>5, <1>10
  <2> QED
    <3>1. ListOf(cut.head, k1, F \ {f})
      BY <1>6, <2>1, SameLinks
    <3> QED
      BY <1>7, <2>1, <3>1, SameLinks
<1>12. PICK G : G = (F \ {f}) \cup {r}
  OBVIOUS
<1>13. PICK k2 : k2 = rest.mem /\ k2 \in Heaps /\ ListOf(rest.head, k2, G) /\ SameBut(k2, k1, G)
  <2>1. rest = list_add(cut.head, k1, r)
    BY <1>8, <1>6, <1>9
  <2> QED
    BY <1>4, <1>5, <1>10, <1>11, <1>12, <2>1, AddDoes
<1>14. ListOf(ah, k2, A)
  <2>1. \A x \in A : k2[x] = k1[x]
    BY <1>1, <1>5, <1>12, <1>13 DEF SameBut
  <2> QED
    BY <1>11, <2>1, SameLinks
<1>15. PICK k3 : k3 = [k2 EXCEPT ![f].size = n]
  OBVIOUS
<1>16. /\ k3 \in Heaps
       /\ \A y \in Addr : /\ k3[y].next = k2[y].next /\ k3[y].overhang = k2[y].overhang
                          /\ k3[y].size = IF y = f THEN n ELSE k2[y].size
  <2>1. f \in Addr /\ k2 \in Heaps
    BY <1>3, <1>13
  <2>2. Resized(k3, k2, f, n)
    BY <1>15, <2>1, SetSize
  <2> QED
    BY <2>2 DEF Resized
<1>17. G \subseteq Addr /\ f \notin G /\ G \cap A = {} /\ G \cap (A \cup {f}) = {}
  BY <1>1, <1>3, <1>4, <1>5, <1>12
<1>18. ListOf(rest.head, k3, G) /\ ListOf(ah, k3, A)
  <2>1. (\A x \in G : k3[x].next = k2[x].next) /\ (\A x \in A : k3[x].next = k2[x].next)
    BY <1>1, <1>16, <1>17
  <2> QED
    <3>1. ListOf(rest.head, k3, G)
      BY <1>13, <2>1, SameLinks
    <3> QED
      BY <1>14, <2>1, <3>1, SameLinks
<1>19. PICK k : /\ k = al.mem /\ k \in Heaps /\ ListOf(al.head, k, A \cup {f})
                /\ SameBut(k, k3, A \cup {f})
  <2>1. al = list_add(ah, k3, f)
    BY <1>13, <1>15
  <2> QED
    BY <1>3, <1>16, <1>18, <2>1, AddDoes
<1>20. ListOf(rest.head, k, G)
  <2>1. \A x \in G : k[x] = k3[x]
    BY <1>17, <1>19 DEF SameBut
  <2> QED
    BY <1>18, <2>1, SameLinks
<1>21. /\ \A y \in Addr : y # r /\ y # f => k[y].size = m[y].size /\ k[y].overhang = m[y].overhang
       /\ k[r].size = m[f].size - n - Hdr /\ k[r].overhang = 0
       /\ k[f].size = n /\ k[f].overhang = m[f].overhang
  <2>1. \A y \in Addr : /\ k[y].overhang = k1[y].overhang
                        /\ k[y].size = IF y = f THEN n ELSE k1[y].size
    <3> SUFFICES ASSUME NEW y \in Addr
                 PROVE  /\ k[y].overhang = k1[y].overhang
                        /\ k[y].size = IF y = f THEN n ELSE k1[y].size
      OBVIOUS
    <3>1. k[y].overhang = k3[y].overhang /\ k[y].size = k3[y].size
      BY <1>19 DEF SameBut
    <3>2. k2[y].overhang = k1[y].overhang /\ k2[y].size = k1[y].size
      BY <1>13 DEF SameBut
    <3> QED
      BY <1>16, <3>1, <3>2
  <2>2. \A y \in Addr : k0[y].size = m[y].size /\ k0[y].overhang = m[y].overhang
    BY <1>6 DEF SameBut
  <2> QED
    BY <1>8, <1>3, <1>4, <1>10, <2>1, <2>2
<1>22. m[f].size >= n + Hdr /\ r \notin F \cup A /\ F \cup A \in SUBSET Addr
  BY <1>1, <1>3, <1>5
<1>23. \A x \in F \cup A : x # f => k[x].size = m[x].size
  BY <1>5, <1>21, <1>22
<1>24. Tiles(k, (F \cup A) \cup {r}) /\ r + Hdr + k[r].size = f + Hdr + m[f].size
  BY <1>1, <1>21, <1>22, <1>23, TilesSplit
<1>25. (F \cup A) \cup {r} = G \cup (A \cup {f})
  BY <1>12
<1>26. ASSUME NEW x \in G PROVE k[x].overhang = 0 /\ x + Hdr + k[x].size \notin G
  <2>1. CASE x = r
    <3>1. f + Hdr + m[f].size \notin F /\ f + Hdr + m[f].size # r
      BY <1>2, <1>3, <1>4
    <3> QED
      BY <1>12, <1>21, <1>24, <2>1, <3>1
  <2>2. CASE x # r
    <3>1. x \in F /\ x \in Addr /\ x # f
      BY <1>1, <1>12, <2>2
    <3>2. k[x].size = m[x].size /\ k[x].overhang = m[x].overhang
      BY <1>21, <2>2, <3>1
    <3>3. x + Hdr + m[x].size \notin F /\ x + Hdr + m[x].size \in (F \cup A) \cup {MemSize}
      BY <1>1, <1>2, <3>1 DEF Tiles
    <3>4. x + Hdr + m[x].size # r
      BY <1>4, <1>5, <3>3
    <3> QED
      BY <1>2, <1>12, <3>1, <3>2, <3>3, <3>4
  <2> QED
    BY <2>1, <2>2
<1>27. \A x \in A : k[x].size = m[x].size /\ k[x].overhang = m[x].overhang
  BY <1>1, <1>3, <1>5, <1>21
<1>28. k[f].overhang = 0 /\ k[f].size = n
  BY <1>2, <1>21
<1>29. \A x \in A \cup {f} : k[x].overhang < k[x].size /\ k[x].overhang <= 2 * Hdr
  BY <1>2, <1>27, <1>28
<1>30. Sound(k, G, A \cup {f})
  <2>1. Tiles(k, G \cup (A \cup {f}))
    BY <1>24, <1>25
  <2> QED
    BY <1>17, <1>26, <1>29, <2>1 DEF Sound
<1>31. Sits(rest.head, al.head, k, G, A \cup {f}) /\ Untouched(k, m, A)
  BY <1>19, <1>20, <1>27, <1>30 DEF Sits, Untouched
<1>32. k[f].size - k[f].overhang = n
  BY <1>28
<1> QED
  BY <1>12, <1>19, <1>31, <1>32 DEF Allotted

\* The invariant, in terms of the lists and the headers.
LEMMA HInvSits ==
  HInv => Sits(free_list_head, alloc_list_head, mem, Free, Allocated)
<1> SUFFICES ASSUME HInv PROVE Sits(free_list_head, alloc_list_head, mem, Free, Allocated)
  OBVIOUS
<1>1. PICK m : m = mem
  OBVIOUS
<1>2. PICK fh : fh = free_list_head
  OBVIOUS
<1>3. PICK ah : ah = alloc_list_head
  OBVIOUS
<1>4. fh \in Places /\ ah \in Places
  BY <1>2, <1>3 DEF HInv, TypeOK, Places
<1>5. m \in Heaps
  <2>1. m \in [Addr -> [next : Addr \cup {Null}, size : 0..MemSize, overhang : 0..2 * Hdr]]
    BY <1>1 DEF HInv, TypeOK
  <2>2. \A x \in Addr : m[x].next # Null => m[x].next > x
    BY <1>1 DEF HInv, LinksAscend
  <2>3. [next : Addr \cup {Null}, size : 0..MemSize, overhang : 0..2 * Hdr] \subseteq Header
    BY DEF Header, Places
  <2>4. m \in [Addr -> Header]
    BY <2>1, <2>3
  <2> QED
    BY <2>2, <2>4 DEF Heaps
<1>6. PICK F : F = Free
  OBVIOUS
<1>7. PICK A : A = Allocated
  OBVIOUS
<1>8. ListOf(fh, m, F) /\ ListOf(ah, m, A)
  <2>1. F = ToSet(Chain(fh, m)) /\ A = ToSet(Chain(ah, m))
    BY <1>1, <1>2, <1>3, <1>6, <1>7 DEF Free, Allocated
  <2> QED
    BY <1>4, <1>5, <2>1, ChainLists
<1>9. F \cap A = {} /\ Tiles(m, F \cup A)
  BY <1>1, <1>6, <1>7 DEF HInv, Tiled, Tiles, Behind
<1>10. \A x \in F : m[x].overhang = 0 /\ x + Hdr + m[x].size \notin F
  BY <1>1, <1>6 DEF HInv, FreeMerged, OverhangFits, Behind
<1>11. ASSUME NEW x \in A PROVE m[x].overhang < m[x].size /\ m[x].overhang <= 2 * Hdr
  <2>1. x \in Addr
    BY <1>8 DEF ListOf
  <2>2. m[x].overhang \in 0..2 * Hdr
    BY <1>1, <2>1 DEF HInv, TypeOK
  <2> QED
    BY <1>1, <1>7, <2>2 DEF HInv, OverhangFits
<1>12. Sits(fh, ah, m, F, A)
  BY <1>5, <1>8, <1>9, <1>10, <1>11 DEF Sits, Sound
<1> QED
  BY <1>1, <1>2, <1>3, <1>6, <1>7, <1>12

\* Lists that are in order make the invariant true again once they are in place.
LEMMA SitsHInv ==
  ASSUME NEW fl, NEW al, NEW m, NEW F, NEW A, Sits(fl, al, m, F, A), SetLists(fl, al, m)
  PROVE  HInv' /\ Free' = F /\ Allocated' = A /\ \A x \in A : mem'[x] = m[x]
<1>1. m \in Heaps /\ ListOf(fl, m, F) /\ ListOf(al, m, A) /\ F \subseteq Addr /\ A \subseteq Addr
  BY DEF Sits, ListOf
<1>2. /\ mem' \in Heaps /\ free_list_head' \in Places /\ alloc_list_head' \in Places
      /\ Free' = F /\ Allocated' = A
      /\ \A x \in F \cup A : mem'[x] = m[x]
      /\ \A x \in Addr : x \notin F \cup A => mem'[x] = NoHeader
  BY <1>1, ListsSet
<1>3. PICK k : k = mem'
  OBVIOUS
<1>4. /\ k \in Heaps /\ (\A x \in F \cup A : k[x] = m[x])
      /\ \A x \in Addr : x \notin F \cup A => k[x] = NoHeader
  BY <1>2, <1>3
<1>5. /\ F \cap A = {} /\ Tiles(k, F \cup A)
      /\ \A x \in F : x + Hdr + k[x].size \notin F /\ k[x].overhang = 0
      /\ \A x \in A : k[x].overhang < k[x].size /\ k[x].overhang <= 2 * Hdr
  BY <1>4 DEF Sits, Sound, Tiles
<1>6. ASSUME NEW x \in Addr
      PROVE  k[x] \in [next : Addr \cup {Null}, size : 0..MemSize, overhang : 0..2 * Hdr]
  <2>1. k[x] \in Header /\ k[x].size \in Nat /\ k[x].overhang \in Nat /\ k[x].next \in Addr \cup {Null}
    BY <1>4, HeapAt DEF Places
  <2>2. k[x].size <= MemSize /\ k[x].overhang <= 2 * Hdr
    <3>1. CASE x \in F \cup A
      <4>1. x \in Nat /\ x + Hdr + m[x].size <= MemSize /\ k[x].size = m[x].size
        BY <1>4, <3>1, ChunkIs
      <4>2. k[x].overhang <= 2 * Hdr
        BY <1>5, <3>1
      <4> QED
        BY <2>1, <4>1, <4>2
    <3>2. CASE x \notin F \cup A
      BY <1>4, <3>2 DEF NoHeader
    <3> QED
      BY <3>1, <3>2
  <2>3. PICK h : h = k[x]
    OBVIOUS
  <2>4. h \in Header /\ h.size \in 0..MemSize /\ h.overhang \in 0..2 * Hdr /\ h.next \in Addr \cup {Null}
    BY <2>1, <2>2, <2>3
  <2>5. h \in [next : Addr \cup {Null}, size : 0..MemSize, overhang : 0..2 * Hdr]
    BY <2>4 DEF Header
  <2> QED
    BY <2>3, <2>5
<1>7. TypeOK'
  <2>1. k \in [Addr -> [next : Addr \cup {Null}, size : 0..MemSize, overhang : 0..2 * Hdr]]
    BY <1>4, <1>6 DEF Heaps
  <2> QED
    BY <1>2, <1>3, <2>1 DEF TypeOK, Places
<1>8. LinksAscend'
  BY <1>3, <1>4 DEF LinksAscend, Heaps
<1>9. Tiled' /\ FreeMerged' /\ OverhangFits'
  BY <1>2, <1>3, <1>5 DEF Tiled, FreeMerged, OverhangFits, Tiles, Behind
<1> QED
  BY <1>2, <1>7, <1>8, <1>9 DEF HInv

\* What the calls do to the lists and to the areas of the clients.
AllocSteps(n, f) ==
  /\ f \in Free /\ mem[f].size >= n /\ HInv' /\ Allocated' = Allocated \cup {f}
  /\ mem'[f].size - mem'[f].overhang = n
  /\ \A x \in Allocated : mem'[x].size = mem[x].size /\ mem'[x].overhang = mem[x].overhang

FreeSteps(ac) ==
  /\ HInv' /\ Allocated' = Allocated \ {ac}
  /\ \A x \in Allocated \ {ac} : mem'[x].size = mem[x].size /\ mem'[x].overhang = mem[x].overhang

\* free() takes its chunk from the client and touches no other client's.
LEMMA FreeGives ==
  ASSUME HInv, NEW ac \in Allocated, free(ac)
  PROVE  FreeSteps(ac)
<1>1. PICK m : m = mem
  OBVIOUS
<1>2. PICK fh : fh = free_list_head
  OBVIOUS
<1>3. PICK ah : ah = alloc_list_head
  OBVIOUS
<1>4. PICK F : F = Free
  OBVIOUS
<1>5. PICK A : A = Allocated
  OBVIOUS
<1>6. Sits(fh, ah, m, F, A) /\ ac \in A
  BY <1>1, <1>2, <1>3, <1>4, <1>5, HInvSits
<1>7. PICK al : al = list_remove(ah, m, ac)
  OBVIOUS
<1>8. PICK fl : fl = list_add(fh, [al.mem EXCEPT ![ac].overhang = 0], ac)
  OBVIOUS
<1>9. PICK k : k = cleanup_free_chunks(fl.head, fl.mem)
  OBVIOUS
<1>10. PICK F2 : Sits(fl.head, al.head, k, F2, A \ {ac}) /\ Untouched(k, m, A \ {ac})
  BY <1>6, <1>7, <1>8, <1>9, FreeDoes
<1>11. SetLists(fl.head, al.head, k)
  BY <1>1, <1>2, <1>3, <1>7, <1>8, <1>9 DEF free
<1>12. HInv' /\ Allocated' = A \ {ac} /\ \A x \in A \ {ac} : mem'[x] = k[x]
  <2>1. PICK a : a = fl.head
    OBVIOUS
  <2>2. PICK b : b = al.head
    OBVIOUS
  <2>3. Sits(a, b, k, F2, A \ {ac}) /\ SetLists(a, b, k)
    BY <1>10, <1>11, <2>1, <2>2
  <2> QED
    BY <2>3, SitsHInv
<1> QED
  BY <1>1, <1>5, <1>10, <1>12 DEF FreeSteps, Untouched

\* The search for the best chunk finds one.
LEMMA BestFits ==
  ASSUME HInv, NEW n \in Nat, Fitting(n) # {}
  PROVE  BestFit(n) \in Free /\ mem[BestFit(n)].size >= n
<1>1. PICK m : m = mem
  OBVIOUS
<1>2. PICK X : X = Fitting(n)
  OBVIOUS
<1>3. X \subseteq Free /\ (\A x \in X : m[x].size >= n) /\ X # {}
  BY <1>1, <1>2 DEF Fitting
<1>4. \A x \in X : x \in Nat /\ m[x].size \in Nat
  <2>1. PICK fh : fh = free_list_head
    OBVIOUS
  <2>2. PICK ah : ah = alloc_list_head
    OBVIOUS
  <2>3. PICK F : F = Free
    OBVIOUS
  <2>4. PICK A : A = Allocated
    OBVIOUS
  <2>5. Sits(fh, ah, m, F, A)
    BY <1>1, <2>1, <2>2, <2>3, <2>4, HInvSits
  <2>6. \A x \in F \cup A : x \in Nat /\ m[x].size \in Nat
    BY <2>5, ChunkIs
  <2> QED
    BY <1>3, <2>3, <2>6
<1> DEFINE T == {m[x].size : x \in X}
<1>5. PICK s \in T : \A t \in T : s <= t
  <2>1. T \in SUBSET Nat /\ T # {}
    BY <1>3, <1>4
  <2> HIDE DEF T
  <2> QED
    BY <2>1, SmallestExists
<1>6. s \in Nat /\ \A x \in X : s <= m[x].size
  BY <1>4, <1>5
<1> DEFINE U == {x \in X : m[x].size = s}
<1>7. PICK b \in U : \A u \in U : b <= u
  <2>1. U \in SUBSET Nat /\ U # {}
    BY <1>4, <1>5
  <2> HIDE DEF U
  <2> QED
    BY <2>1, SmallestExists
<1>8. b \in X /\ \A y \in X : m[b].size < m[y].size \/ (m[b].size = m[y].size /\ b <= y)
  <2>1. b \in X /\ m[b].size = s
    BY <1>7
  <2>2. ASSUME NEW y \in X PROVE m[b].size < m[y].size \/ (m[b].size = m[y].size /\ b <= y)
    <3>1. CASE m[y].size = s
      BY <1>7, <2>1, <3>1
    <3>2. CASE m[y].size # s
      BY <1>4, <1>6, <2>1, <3>2
    <3> QED
      BY <3>1, <3>2
  <2> QED
    BY <2>1, <2>2
<1>9. BestFit(n) \in X
  BY <1>1, <1>2, <1>8 DEF BestFit
<1> QED
  BY <1>1, <1>3, <1>9

\* alloc() gives a free chunk to the client and touches no other client's.
LEMMA AllocTakes ==
  ASSUME HInv, NEW n \in Sizes, alloc(n)
  PROVE  \E f : AllocSteps(n, f)
<1>1. PICK m : m = mem
  OBVIOUS
<1>2. PICK fh : fh = free_list_head
  OBVIOUS
<1>3. PICK ah : ah = alloc_list_head
  OBVIOUS
<1>4. PICK F : F = Free
  OBVIOUS
<1>5. PICK A : A = Allocated
  OBVIOUS
<1>6. Sits(fh, ah, m, F, A) /\ n \in Nat /\ n > 0
  BY <1>1, <1>2, <1>3, <1>4, <1>5, HInvSits
<1>7. PICK f : f = BestFit(n)
  OBVIOUS
<1>8. f \in F /\ m[f].size >= n /\ m[f].size \in Nat
  <2>1. f \in F /\ m[f].size >= n
    BY <1>1, <1>4, <1>6, <1>7, BestFits DEF alloc
  <2>2. f \in F \cup A
    BY <2>1
  <2> QED
    BY <1>6, <2>1, <2>2, ChunkIs
<1>9. PICK cut : cut = list_remove(fh, m, f)
  OBVIOUS
<1>10. CASE m[f].size >= n + Hdr + Hdr
  <2>1. PICK r : r = f + Hdr + n
    OBVIOUS
  <2>2. PICK rest : rest = list_add(cut.head, [cut.mem EXCEPT ![r] = [NoHeader EXCEPT !.size = m[f].size - n - Hdr]], r)
    OBVIOUS
  <2>3. PICK al : al = list_add(ah, [rest.mem EXCEPT ![f].size = n], f)
    OBVIOUS
  <2>4. PICK a : a = rest.head
    OBVIOUS
  <2>5. PICK b : b = al.head
    OBVIOUS
  <2>6. PICK k : k = al.mem
    OBVIOUS
  <2>7. Allotted(rest.head, al, m, (F \ {f}) \cup {r}, A, f, n)
    BY <1>6, <1>8, <1>9, <1>10, <2>1, <2>2, <2>3, AllocSplits
  <2>8. /\ Sits(a, b, k, (F \ {f}) \cup {r}, A \cup {f}) /\ Untouched(k, m, A)
        /\ k[f].size - k[f].overhang = n
    BY <2>4, <2>5, <2>6, <2>7 DEF Allotted
  <2>9. SetLists(a, b, k)
    <3>1. WorthSplitting(f, n) /\ RestSize(f, n) = m[f].size - n - Hdr
      BY <1>1, <1>10 DEF WorthSplitting, RestSize
    <3>2. rest = list_add(cut.head, [cut.mem EXCEPT ![r] = [NoHeader EXCEPT !.size = RestSize(f, n)]], r)
      BY <2>2, <3>1
    <3> QED
      BY <1>1, <1>2, <1>3, <1>7, <1>9, <2>1, <2>3, <2>4, <2>5, <2>6, <3>1, <3>2 DEF alloc
  <2>10. HInv' /\ Allocated' = A \cup {f} /\ \A x \in A \cup {f} : mem'[x] = k[x]
    BY <2>8, <2>9, SitsHInv
  <2>11. AllocSteps(n, f)
    BY <1>1, <1>4, <1>5, <1>8, <2>8, <2>10 DEF AllocSteps, Untouched
  <2> QED
    BY <2>11
<1>11. CASE ~(m[f].size >= n + Hdr + Hdr)
  <2>1. PICK al : al = list_add(ah, [cut.mem EXCEPT ![f].overhang = m[f].size - n], f)
    OBVIOUS
  <2>2. PICK a : a = cut.head
    OBVIOUS
  <2>3. PICK b : b = al.head
    OBVIOUS
  <2>4. PICK k : k = al.mem
    OBVIOUS
  <2>5. m[f].size <= n + 2 * Hdr
    BY <1>6, <1>8, <1>11
  <2>6. Allotted(cut.head, al, m, F \ {f}, A, f, n)
    BY <1>6, <1>8, <1>9, <2>1, <2>5, AllocWhole
  <2>7. /\ Sits(a, b, k, F \ {f}, A \cup {f}) /\ Untouched(k, m, A)
        /\ k[f].size - k[f].overhang = n
    BY <2>2, <2>3, <2>4, <2>6 DEF Allotted
  <2>8. SetLists(a, b, k)
    <3>1. ~WorthSplitting(f, n)
      BY <1>1, <1>11 DEF WorthSplitting
    <3>2. PICK split : split = [cut EXCEPT !.mem[f].overhang = m[f].size - n]
      OBVIOUS
    <3>3. split.head = cut.head /\ split.mem = [cut.mem EXCEPT ![f].overhang = m[f].size - n]
      BY <1>9, <3>2 DEF list_remove
    <3>4. al = list_add(ah, split.mem, f)
      BY <2>1, <3>3
    <3>5. SetLists(split.head, al.head, al.mem)
      BY <1>1, <1>2, <1>3, <1>7, <1>9, <3>1, <3>2, <3>4 DEF alloc
    <3> QED
      BY <2>2, <2>3, <2>4, <3>3, <3>5
  <2>9. HInv' /\ Allocated' = A \cup {f} /\ \A x \in A \cup {f} : mem'[x] = k[x]
    BY <2>7, <2>8, SitsHInv
  <2>10. AllocSteps(n, f)
    BY <1>1, <1>4, <1>5, <1>8, <2>7, <2>9 DEF AllocSteps, Untouched
  <2> QED
    BY <2>10
<1> QED
  BY <1>10, <1>11

\* One free chunk is as long as the segment.
LEMMA HInvInit ==
  Init => HInv
<1> SUFFICES ASSUME Init PROVE HInv
  OBVIOUS
<1>1. PICK m : m = mem
  OBVIOUS
<1>2. /\ free_list_head = 0 /\ alloc_list_head = Null /\ 0 \in Addr
      /\ m = [x \in Addr |-> IF x = 0 THEN [NoHeader EXCEPT !.size = MemSize - Hdr] ELSE NoHeader]
  BY <1>1 DEF Init, Addr
<1>3. PICK h : h = [NoHeader EXCEPT !.size = MemSize - Hdr]
  OBVIOUS
<1>4. h = [next |-> Null, size |-> MemSize - Hdr, overhang |-> 0]
  BY <1>3 DEF NoHeader
<1> DEFINE R == [next : Addr \cup {Null}, size : 0..MemSize, overhang : 0..2 * Hdr]
<1>5. h \in R /\ NoHeader \in R /\ R \subseteq Header
  BY <1>4 DEF NoHeader, Header, Places
<1>6. m \in [Addr -> R] /\ m[0] = h /\ \A x \in Addr : m[x].next = Null
  <2>1. h.next = Null /\ NoHeader.next = Null
    BY <1>4 DEF NoHeader
  <2> HIDE DEF R
  <2> QED
    BY <1>2, <1>3, <1>5, <2>1
<1>7. m \in Heaps
  <2> HIDE DEF R
  <2> QED
    BY <1>5, <1>6 DEF Heaps
<1>8. 0 # Null /\ Null = -1
  BY DEF Null
<1>9. ListOf(0, m, {0}) /\ ListOf(Null, m, {})
  BY <1>2, <1>6, <1>8 DEF ListOf, After
<1>10. ToSet(Chain(0, m)) = {0} /\ ToSet(Chain(Null, m)) = {}
  BY <1>7, <1>9, ListChains
<1>11. Free = {0} /\ Allocated = {}
  BY <1>1, <1>2, <1>10 DEF Free, Allocated
<1>12. TypeOK /\ LinksAscend
  BY <1>1, <1>2, <1>6 DEF TypeOK, LinksAscend
<1>13. Behind(0) = MemSize /\ MemSize # 0 /\ mem[0].overhang = 0
  BY <1>1, <1>4, <1>6 DEF Behind
<1>14. Tiled /\ FreeMerged /\ OverhangFits
  BY <1>11, <1>13 DEF Tiled, FreeMerged, OverhangFits
<1> QED
  BY <1>12, <1>14 DEF HInv

\* alloc() and free() keep the invariant.
LEMMA HInvNext ==
  HInv /\ [Next]_vars => HInv'
<1> SUFFICES ASSUME HInv, [Next]_vars PROVE HInv'
  OBVIOUS
<1>1. ASSUME NEW n \in Sizes, alloc(n) PROVE HInv'
  BY <1>1, AllocTakes DEF AllocSteps
<1>2. CASE UNCHANGED vars
  BY <1>2 DEF vars, HInv, TypeOK, LinksAscend, Tiled, FreeMerged, OverhangFits, Free, Allocated, Behind
<1>3. ASSUME NEW n \in Sizes, allocFails(n) PROVE HInv'
  BY <1>2, <1>3 DEF allocFails
<1>4. ASSUME NEW ac \in Allocated, free(ac) PROVE HInv'
  BY <1>4, FreeGives DEF FreeSteps
<1> QED
  BY <1>1, <1>2, <1>3, <1>4 DEF Next

\* The inductive invariant: whatever was allocated and freed, the chunks of both lists
\* follow one another through the whole segment and no two free ones are neighbours.
THEOREM MemoryInductive == Spec => []HInv
BY HInvInit, HInvNext, PTL DEF Spec

\* The headers keep their types: no size is ever larger than the segment, no rest that is
\* handed out unasked larger than two headers.
THEOREM MemoryTyped == Spec => []TypeOK
<1>1. HInv => TypeOK
  BY DEF HInv
<1> QED
  BY <1>1, MemoryInductive, PTL

-----------------------------------------------------------------------------
(* check()                                                                 *)

\* A set of addresses that is not empty has a largest element.
LEMMA HighestExists ==
  ASSUME NEW n \in Nat, NEW T \in SUBSET (0..n), T # {}
  PROVE  \E h \in T : \A y \in T : y <= h
<1> DEFINE D == {n - x : x \in T}
<1>1. D \in SUBSET Nat /\ D # {}
  <2>1. \A x \in T : n - x \in Nat
    OBVIOUS
  <2> QED
    BY <2>1
<1>2. PICK d \in D : \A e \in D : d <= e
  <2> HIDE DEF D
  <2> QED
    BY <1>1, SmallestExists
<1>3. PICK h \in T : d = n - h
  OBVIOUS
<1>4. ASSUME NEW y \in T PROVE y <= h
  <2>1. d <= n - y /\ h \in 0..n /\ y \in 0..n
    BY <1>2
  <2> QED
    BY <1>3, <2>1
<1> QED
  BY <1>3, <1>4

\* The bytes of a chunk, with its header.
Span(m, x) == x .. (x + Hdr + m[x].size - 1)

\* Every byte of the segment is in some chunk.
LEMMA AllCovered ==
  ASSUME NEW m \in Heaps, NEW C \in SUBSET Addr, Tiles(m, C), NEW a \in Addr
  PROVE  \E x \in C : a \in Span(m, x)
<1> DEFINE T == {x \in C : x <= a}
<1>1. a \in Nat /\ a < MemSize /\ \A x \in C : x \in Nat /\ m[x].size \in Nat
  BY HeapAt, PlaceIs
<1>2. PICK x \in T : \A y \in T : y <= x
  <2>1. T \in SUBSET (0..a) /\ T # {}
    <3>1. 0 \in T
      BY <1>1 DEF Tiles
    <3>2. \A y \in T : y \in 0..a
      BY <1>1
    <3> QED
      BY <3>1, <3>2
  <2> HIDE DEF T
  <2> QED
    BY <1>1, <2>1, HighestExists
<1>3. PICK z : z = x + Hdr + m[x].size /\ z \in C \cup {MemSize}
  BY DEF Tiles
<1>4. x \in Nat /\ m[x].size \in Nat /\ z \in Nat /\ z > x
  BY <1>1, <1>3
<1>5. a < z
  <2>1. CASE z = MemSize
    BY <1>1, <2>1
  <2>2. CASE z # MemSize
    <3>1. z \in C /\ ~(z <= x)
      BY <1>3, <1>4, <2>2
    <3>2. ~(z <= a)
      BY <1>2, <3>1
    <3> QED
      BY <1>1, <1>4, <3>2
  <2> QED
    BY <2>1, <2>2
<1>6. a \in Span(m, x)
  BY <1>1, <1>3, <1>4, <1>5 DEF Span
<1> QED
  BY <1>6

\* No byte is in two chunks.
LEMMA SpansApart ==
  ASSUME NEW m \in Heaps, NEW C \in SUBSET Addr, Tiles(m, C), NEW x \in C, NEW y \in C, x # y
  PROVE  Span(m, x) \cap Span(m, y) = {}
<1>1. x \in Nat /\ y \in Nat /\ m[x].size \in Nat /\ m[y].size \in Nat
  BY HeapAt, PlaceIs
<1>2. x < y => x + Hdr + m[x].size <= y
  BY DEF Tiles
<1>3. y < x => y + Hdr + m[y].size <= x
  BY DEF Tiles
<1>4. ASSUME NEW a \in Span(m, x), a \in Span(m, y) PROVE FALSE
  <2>1. a \in Int /\ x <= a /\ y <= a /\ a < x + Hdr + m[x].size /\ a < y + Hdr + m[y].size
    BY <1>1, <1>4 DEF Span
  <2> QED
    BY <1>1, <1>2, <1>3, <2>1
<1> QED
  BY <1>4

\* The bytes of the chunks in s.
Cover(m, s) == UNION {Span(m, x) : x \in s}

\* A chunk adds its own bytes to those that are covered.
LEMMA CoverAdds ==
  ASSUME NEW m \in Heaps, NEW C \in SUBSET Addr, Tiles(m, C), NEW s \in SUBSET C, NEW x \in s
  PROVE  /\ Cardinality(Cover(m, s)) = m[x].size + Hdr + Cardinality(Cover(m, s \ {x}))
         /\ Cardinality(Cover(m, s)) \in Nat
<1>1. ASSUME NEW y \in C
      PROVE  /\ y \in Nat /\ m[y].size \in Nat /\ Span(m, y) \subseteq 0..MemSize
             /\ IsFiniteSet(Span(m, y)) /\ Cardinality(Span(m, y)) = m[y].size + Hdr
  <2>1. y \in Nat /\ m[y].size \in Nat
    BY HeapAt, PlaceIs
  <2>2. PICK z : z = y + Hdr + m[y].size /\ z \in C \cup {MemSize}
    BY DEF Tiles
  <2>3. z <= MemSize /\ z \in Nat
    BY <2>2, PlaceIs
  <2>4. PICK b \in Int : /\ b = z - 1 /\ b >= y /\ b - y + 1 = m[y].size + Hdr
                         /\ b = y + Hdr + m[y].size - 1
    <3>1. /\ z - 1 \in Int /\ z - 1 >= y /\ (z - 1) - y + 1 = m[y].size + Hdr
          /\ z - 1 = y + Hdr + m[y].size - 1
      BY <2>1, <2>2
    <3> QED
      BY <3>1
  <2>5. Span(m, y) = y..b
    BY <2>4 DEF Span
  <2>6. IsFiniteSet(y..b) /\ Cardinality(y..b) = b - y + 1
    BY <2>1, <2>4, FS_Interval
  <2>7. y..b \subseteq 0..MemSize
    BY <2>1, <2>3, <2>4
  <2> QED
    BY <2>1, <2>4, <2>5, <2>6, <2>7
<1>2. x \in C /\ s \ {x} \in SUBSET C
  OBVIOUS
<1>3. ASSUME NEW t \in SUBSET C PROVE IsFiniteSet(Cover(m, t)) /\ Cardinality(Cover(m, t)) \in Nat
  <2>1. Cover(m, t) \in SUBSET (0..MemSize)
    BY <1>1 DEF Cover
  <2>2. IsFiniteSet(0..MemSize)
    BY FS_Interval
  <2>3. IsFiniteSet(Cover(m, t))
    BY <2>1, <2>2, FS_Subset
  <2> QED
    BY <2>3, FS_CardinalityType
<1>4. Cover(m, s) = Span(m, x) \cup Cover(m, s \ {x})
  BY DEF Cover
<1>5. Span(m, x) \cap Cover(m, s \ {x}) = {}
  <2>1. \A y \in s \ {x} : Span(m, x) \cap Span(m, y) = {}
    BY SpansApart
  <2> QED
    BY <2>1 DEF Cover
<1>6. PICK U : U = Span(m, x)
  OBVIOUS
<1>7. PICK V : V = Cover(m, s \ {x})
  OBVIOUS
<1>8. IsFiniteSet(U) /\ IsFiniteSet(V) /\ U \cap V = {} /\ Cover(m, s) = U \cup V
      /\ Cardinality(U) = m[x].size + Hdr /\ Cardinality(V) \in Nat /\ m[x].size \in Nat
  BY <1>1, <1>2, <1>3, <1>4, <1>5, <1>6, <1>7
<1>9. Cardinality(U \cup V) = Cardinality(U) + Cardinality(V) - Cardinality(U \cap V)
  BY <1>8, FS_Union
<1>10. Cardinality(U \cap V) = 0
  BY <1>8, FS_EmptySet
<1>11. Cardinality(U \cup V) = (m[x].size + Hdr) + Cardinality(V)
  BY <1>8, <1>9, <1>10
<1> QED
  BY <1>3, <1>7, <1>8, <1>11

\* The sizes of the chunks add up to the size of the segment.
LEMMA SumTiles ==
  ASSUME NEW m \in Heaps, NEW C \in SUBSET Addr, Tiles(m, C)
  PROVE  MapThenSumSet(LAMBDA x : m[x].size + Hdr, C) = MemSize
<1> DEFINE Pick(s) == CHOOSE x \in s : TRUE
           Loop(h) == [s \in SUBSET C |-> IF s = {} THEN 0
                         ELSE (m[Pick(s)].size + Hdr) + h[s \ {Pick(s)}]]
           g == [s \in SUBSET C |-> Cardinality(Cover(m, s))]
<1>1. \A s \in SUBSET C : s # {} => Pick(s) \in s
  OBVIOUS
<1> HIDE DEF Pick
<1>2. Cardinality(Cover(m, {})) = 0
  <2>1. Cover(m, {}) = {}
    BY DEF Cover
  <2> QED
    BY <2>1, FS_EmptySet
<1>3. ASSUME NEW s \in SUBSET C, s # {}
      PROVE  Cardinality(Cover(m, s)) = (m[Pick(s)].size + Hdr) + Cardinality(Cover(m, s \ {Pick(s)}))
  BY <1>1, <1>3, CoverAdds
<1>4. g = Loop(g)
  <2>1. ASSUME NEW s \in SUBSET C
        PROVE  g[s] = IF s = {} THEN 0 ELSE (m[Pick(s)].size + Hdr) + g[s \ {Pick(s)}]
    <3>1. s \ {Pick(s)} \in SUBSET C
      OBVIOUS
    <3>2. g[s] = Cardinality(Cover(m, s)) /\ g[s \ {Pick(s)}] = Cardinality(Cover(m, s \ {Pick(s)}))
      BY <3>1
    <3> HIDE DEF g
    <3> QED
      BY <1>2, <1>3, <3>2
  <2>2. g = [s \in SUBSET C |-> g[s]]
    OBVIOUS
  <2> HIDE DEF g
  <2> QED
    BY <2>1, <2>2
<1> DEFINE c == CHOOSE h : h = Loop(h)
<1>5. MapThenSumSet(LAMBDA x : m[x].size + Hdr, C) = c[C]
  BY DEF MapThenSumSet, MapThenFoldSet, Pick
<1>6. c = Loop(c)
  <2> HIDE DEF g, Loop
  <2> QED
    BY <1>4
<1> HIDE DEF c
<1>7. \A s \in SUBSET C : c[s] = IF s = {} THEN 0 ELSE (m[Pick(s)].size + Hdr) + c[s \ {Pick(s)}]
  <2>1. ASSUME NEW s \in SUBSET C
        PROVE  Loop(c)[s] = IF s = {} THEN 0 ELSE (m[Pick(s)].size + Hdr) + c[s \ {Pick(s)}]
    OBVIOUS
  <2> HIDE DEF Loop
  <2> QED
    BY <1>6, <2>1
<1>8. IsFiniteSet(C) /\ Cardinality(C) \in Nat
  <2>1. IsFiniteSet(0..MemSize - 1)
    BY FS_Interval
  <2>2. C \in SUBSET (0..MemSize - 1)
    BY DEF Addr
  <2>3. IsFiniteSet(C)
    BY <2>1, <2>2, FS_Subset
  <2> QED
    BY <2>3, FS_CardinalityType
<1>9. PICK n \in Nat : n = Cardinality(C)
  BY <1>8
<1> DEFINE T == {i \in 0..n : \A s \in SUBSET C : Cardinality(s) = i => c[s] = Cardinality(Cover(m, s))}
<1>10. \A s \in SUBSET C : IsFiniteSet(s) /\ Cardinality(s) \in Nat
  BY <1>8, FS_Subset, FS_CardinalityType
<1>11. c[{}] = Cardinality(Cover(m, {}))
  BY <1>2, <1>7
<1>12. 0 \in T
  <2>1. ASSUME NEW s \in SUBSET C, Cardinality(s) = 0 PROVE c[s] = Cardinality(Cover(m, s))
    <3>1. s = {}
      BY <1>10, <2>1, FS_EmptySet
    <3> QED
      BY <1>11, <3>1
  <2> QED
    BY <2>1
<1>13. ASSUME NEW i \in 1..n, i - 1 \in T PROVE i \in T
  <2>1. ASSUME NEW s \in SUBSET C, Cardinality(s) = i PROVE c[s] = Cardinality(Cover(m, s))
    <3>1. s # {}
      BY <2>1, FS_EmptySet
    <3>2. PICK x : x = Pick(s)
      OBVIOUS
    <3>3. x \in s /\ s \ {x} \in SUBSET C
      BY <1>1, <3>1, <3>2
    <3>4. Cardinality(s \ {x}) = i - 1
      BY <1>10, <2>1, <3>3, FS_RemoveElement
    <3>5. c[s \ {x}] = Cardinality(Cover(m, s \ {x}))
      BY <1>13, <3>3, <3>4
    <3> QED
      BY <1>3, <1>7, <3>1, <3>2, <3>5
  <2>2. i \in 0..n
    BY <1>9
  <2> QED
    BY <2>1, <2>2
<1>14. c[C] = Cardinality(Cover(m, C))
  <2>1. 0..n \subseteq T
    <3> HIDE DEF T
    <3> QED
      BY <1>12, <1>13, CountUp
  <2>2. n \in T
    <3> HIDE DEF T
    <3> QED
      BY <2>1
  <2> QED
    BY <1>9, <2>2
<1>15. Cover(m, C) = 0..MemSize - 1
  <2>1. ASSUME NEW a \in 0..MemSize - 1 PROVE a \in Cover(m, C)
    <3>1. \E x \in C : a \in Span(m, x)
      BY AllCovered DEF Addr
    <3> QED
      BY <3>1 DEF Cover
  <2>2. ASSUME NEW x \in C, NEW a \in Span(m, x) PROVE a \in 0..MemSize - 1
    <3>1. x \in Nat /\ m[x].size \in Nat
      BY HeapAt, PlaceIs
    <3>2. PICK z : z = x + Hdr + m[x].size /\ z \in C \cup {MemSize}
      BY DEF Tiles
    <3>3. z <= MemSize /\ z \in Nat
      BY <3>2, PlaceIs
    <3>4. a \in Int /\ x <= a /\ a < x + Hdr + m[x].size
      BY <3>1 DEF Span
    <3> QED
      BY <3>1, <3>2, <3>3, <3>4
  <2> QED
    BY <2>1, <2>2 DEF Cover
<1>16. Cardinality(0..MemSize - 1) = MemSize
  BY FS_Interval
<1> HIDE DEF Loop, g
<1> QED
  BY <1>5, <1>14, <1>15, <1>16

\* Behind a chunk comes the next of its own list, or the next of the other one.
NextIs(O, n, z) == IF O = {} THEN n # Null => z = n ELSE z \in {n, Min(O)}

LEMMA NextBehind ==
  ASSUME NEW m \in Heaps, NEW P \in SUBSET Addr, NEW Q \in SUBSET Addr, Tiles(m, P \cup Q),
         NEW x \in P, NEW n, n = m[x].next, After(P, x, n),
         NEW O, O = {y \in Q : y > x},
         NEW z, z = x + Hdr + m[x].size
  PROVE  NextIs(O, n, z)
<1>1. x \in Nat /\ m[x].size \in Nat /\ (\A y \in P \cup Q : y \in Nat /\ y < MemSize /\ y # Null)
  BY HeapAt, PlaceIs
<1>2. z \in (P \cup Q) \cup {MemSize} /\ \A y \in P \cup Q : x < y => z <= y
  BY DEF Tiles
<1>3. z \in Nat /\ z > x
  BY <1>1
<1>4. ASSUME z \in P PROVE n # Null /\ z = n
  <2>1. n # Null
    <3>1. ~(z <= x)
      BY <1>1, <1>3
    <3> QED
      BY <1>1, <1>4, <3>1 DEF After
  <2>2. n \in P /\ n > x /\ n \in Nat /\ z >= n
    BY <1>1, <1>3, <1>4, <2>1 DEF After
  <2>3. z <= n
    BY <1>1, <1>2, <2>2
  <2> QED
    BY <1>3, <2>1, <2>2, <2>3
<1>5. ASSUME z \in Q PROVE O # {} /\ z = Min(O)
  <2>1. z \in O
    BY <1>3, <1>5
  <2>2. \A y \in O : z <= y
    BY <1>1, <1>2
  <2>3. \A y \in O : y \in Nat
    BY <1>1
  <2>4. \A v \in O : (\A y \in O : v <= y) => v = z
    BY <1>3, <2>1, <2>2, <2>3
  <2>5. PICK W : W = O
    OBVIOUS
  <2>6. Min(W) = z
    BY <2>1, <2>2, <2>4, <2>5 DEF Min
  <2> QED
    BY <2>1, <2>5, <2>6
<1>6. ASSUME z = MemSize PROVE n = Null /\ O = {}
  <2>1. \A y \in P \cup Q : ~(x < y)
    BY <1>1, <1>2, <1>6
  <2>2. n = Null
    BY <1>1, <2>1 DEF After
  <2>3. O = {}
    BY <1>1, <2>1
  <2> QED
    BY <2>2, <2>3
<1> QED
  BY <1>2, <1>4, <1>5, <1>6 DEF NextIs

\* All that check() looks at follows from the invariant.
LEMMA HInvCheck ==
  HInv => CheckFindsNothing
<1> SUFFICES ASSUME HInv PROVE CheckFindsNothing
  OBVIOUS
<1>1. PICK m : m = mem
  OBVIOUS
<1>2. PICK fh : fh = free_list_head
  OBVIOUS
<1>3. PICK ah : ah = alloc_list_head
  OBVIOUS
<1>4. PICK F : F = Free
  OBVIOUS
<1>5. PICK A : A = Allocated
  OBVIOUS
<1>6. Sits(fh, ah, m, F, A)
  BY <1>1, <1>2, <1>3, <1>4, <1>5, HInvSits
<1>7. /\ m \in Heaps /\ F \in SUBSET Addr /\ A \in SUBSET Addr /\ F \cap A = {} /\ Tiles(m, F \cup A)
      /\ (\A x \in F : After(F, x, m[x].next)) /\ (\A x \in A : After(A, x, m[x].next))
  BY <1>6 DEF Sits, Sound, ListOf
<1> DEFINE Other(x) == {y \in (IF x \in F THEN A ELSE F) : y > x}
           Z(x) == x + Hdr + m[x].size
<1>8. ASSUME NEW x \in F \cup A
      PROVE  IF Other(x) = {} THEN m[x].next # Null => Z(x) = m[x].next
             ELSE Z(x) \in {m[x].next, Min(Other(x))}
  <2>1. PICK n : n = m[x].next
    OBVIOUS
  <2>2. PICK O : O = Other(x)
    OBVIOUS
  <2>3. PICK z : z = Z(x)
    OBVIOUS
  <2>4. NextIs(O, n, z)
    <3>1. CASE x \in F
      <4>1. O = {y \in A : y > x} /\ After(F, x, n) /\ z = x + Hdr + m[x].size
        BY <1>7, <2>1, <2>2, <2>3, <3>1
      <4> HIDE DEF Other, Z
      <4> QED
        BY <1>7, <2>1, <3>1, <4>1, NextBehind
    <3>2. CASE x \notin F
      <4>1. O = {y \in F : y > x} /\ After(A, x, n) /\ z = x + Hdr + m[x].size /\ x \in A
        BY <1>7, <2>1, <2>2, <2>3, <3>2
      <4>2. Tiles(m, A \cup F)
        <5>1. A \cup F = F \cup A
          OBVIOUS
        <5> QED
          BY <1>7, <5>1
      <4> HIDE DEF Other, Z
      <4> QED
        BY <1>7, <2>1, <4>1, <4>2, NextBehind
    <3> QED
      BY <3>1, <3>2
  <2> HIDE DEF Other, Z
  <2> QED
    BY <2>1, <2>2, <2>3, <2>4 DEF NextIs
<1>9. MapThenSumSet(LAMBDA x : m[x].size + Hdr, F \cup A) = MemSize
  <2>1. F \cup A \in SUBSET Addr
    BY <1>7
  <2> QED
    BY <1>7, <2>1, SumTiles
<1>10. MapThenSumSet(LAMBDA x : mem[x].size + Hdr, Free \cup Allocated) = MemSize
  BY <1>1, <1>4, <1>5, <1>9 DEF MapThenSumSet, MapThenFoldSet
<1> QED
  BY <1>1, <1>4, <1>5, <1>7, <1>8, <1>10 DEF CheckFindsNothing, Behind

\* Whatever was allocated and freed before, check() throws nothing.
THEOREM CheckHolds == Spec => []CheckFindsNothing
BY HInvCheck, MemoryInductive, PTL

-----------------------------------------------------------------------------
(* The largest free chunk                                                  *)

\* Two sets have the same maximum if one bounds the other from inside.
LEMMA MaxIs ==
  ASSUME NEW n \in Nat, NEW L \in SUBSET Nat, NEW R \in SUBSET (0..n), R # {}, R \subseteq L,
         \A l \in L : \E r \in R : l <= r
  PROVE  Max(L) = Max(R)
<1>1. PICK h \in R : \A y \in R : y <= h
  BY HighestExists
<1>2. h \in L /\ h \in Nat /\ \A l \in L : h >= l
  <2>1. ASSUME NEW l \in L PROVE h >= l
    <3>1. PICK r \in R : l <= r
      OBVIOUS
    <3>2. r <= h /\ r \in Nat /\ h \in Nat /\ l \in Nat
      BY <1>1
    <3> QED
      BY <3>1, <3>2
  <2> QED
    BY <1>1, <2>1
<1>3. \A v \in L : (\A l \in L : v >= l) => v = h
  BY <1>2
<1>4. \A v \in R : (\A r \in R : v >= r) => v = h
  BY <1>1
<1>5. \A y \in R : h >= y
  BY <1>1
<1>6. Max(L) = h
  BY <1>2, <1>3 DEF Max
<1>7. Max(R) = h
  BY <1>1, <1>4, <1>5 DEF Max
<1> QED
  BY <1>6, <1>7

\* The bytes that the clients' chunks take, and the runs of bytes between them.
Taken(m, A) == UNION {Span(m, x) : x \in A}
HolesIn(m, A) == {h \in Addr \X Addr : h[1] <= h[2] /\ (h[1]..h[2]) \cap Taken(m, A) = {}}

\* A run of bytes between the clients' chunks is inside one free chunk.
LEMMA HoleInChunk ==
  ASSUME NEW fh, NEW ah, NEW m, NEW F, NEW A, Sits(fh, ah, m, F, A),
         NEW a \in Addr, NEW b \in Addr, a <= b, (a..b) \cap Taken(m, A) = {}
  PROVE  \E x \in F : b - a + 1 <= m[x].size + Hdr
<1>1. /\ m \in Heaps /\ F \cup A \in SUBSET Addr /\ F \cap A = {} /\ Tiles(m, F \cup A)
      /\ \A x \in F : x + Hdr + m[x].size \notin F
  BY DEF Sits, Sound, ListOf
<1>2. a \in Nat /\ b \in Nat /\ b < MemSize /\ \A x \in F \cup A : x \in Nat /\ m[x].size \in Nat
  BY <1>1, HeapAt, PlaceIs
<1>3. PICK x \in F \cup A : a \in Span(m, x)
  BY <1>1, AllCovered
<1>4. x \in F
  <2>1. a \in a..b
    BY <1>2
  <2>2. x \in A => a \in Taken(m, A)
    BY <1>3 DEF Taken
  <2> QED
    BY <2>1, <2>2
<1>5. PICK z : z = x + Hdr + m[x].size /\ z \in (F \cup A) \cup {MemSize} /\ z \notin F
  BY <1>1, <1>4 DEF Tiles
<1>6. x \in Nat /\ m[x].size \in Nat /\ x <= a /\ a < z /\ z \in Nat
  <2>1. x \in Nat /\ m[x].size \in Nat
    BY <1>2
  <2>2. x <= a /\ a < x + Hdr + m[x].size
    BY <1>2, <1>3, <2>1 DEF Span
  <2> QED
    BY <1>5, <2>1, <2>2
<1>7. b < z
  <2>1. ASSUME z <= b PROVE FALSE
    <3>1. z # MemSize
      BY <1>2, <1>6, <2>1
    <3>2. z \in A /\ m[z].size \in Nat
      BY <1>2, <1>5, <3>1
    <3>3. z \in Span(m, z)
      BY <1>6, <3>2 DEF Span
    <3>4. z \in Taken(m, A)
      BY <3>2, <3>3 DEF Taken
    <3>5. z \in a..b
      BY <1>2, <1>6, <2>1
    <3> QED
      BY <3>4, <3>5
  <2> QED
    BY <1>2, <1>6, <2>1
<1>8. b - a + 1 <= m[x].size + Hdr
  BY <1>2, <1>5, <1>6, <1>7
<1> QED
  BY <1>4, <1>8

\* A free chunk is such a run.
LEMMA ChunkIsHole ==
  ASSUME NEW fh, NEW ah, NEW m, NEW F, NEW A, Sits(fh, ah, m, F, A), NEW x \in F
  PROVE  \E h \in HolesIn(m, A) : h[2] - h[1] + 1 = m[x].size + Hdr
<1>1. m \in Heaps /\ F \cup A \in SUBSET Addr /\ F \cap A = {} /\ Tiles(m, F \cup A)
  BY DEF Sits, Sound, ListOf
<1>2. x \in F \cup A
  OBVIOUS
<1>3. x \in Addr /\ x \in Nat /\ m[x].size \in Nat /\ x + Hdr + m[x].size <= MemSize
  BY <1>2, ChunkIs
<1>4. PICK b \in Addr : b = x + Hdr + m[x].size - 1
  <2>1. x + Hdr + m[x].size - 1 \in Nat /\ x + Hdr + m[x].size - 1 < MemSize
    BY <1>3
  <2> QED
    BY <2>1, PlaceIs
<1>5. x <= b /\ b - x + 1 = m[x].size + Hdr /\ Span(m, x) = x..b
  <2>1. x <= b /\ b - x + 1 = m[x].size + Hdr
    BY <1>3, <1>4
  <2> QED
    BY <1>4, <2>1 DEF Span
<1>6. Span(m, x) \cap Taken(m, A) = {}
  <2>1. \A y \in A : Span(m, x) \cap Span(m, y) = {}
    <3>1. \A y \in A : y # x /\ y \in F \cup A
      BY <1>1
    <3> QED
      BY <1>1, <1>2, <3>1, SpansApart
  <2> QED
    BY <2>1 DEF Taken
<1>7. <<x, b>> \in HolesIn(m, A)
  BY <1>3, <1>4, <1>5, <1>6 DEF HolesIn
<1>8. <<x, b>>[2] - <<x, b>>[1] + 1 = m[x].size + Hdr
  BY <1>5
<1> QED
  BY <1>7, <1>8

\* The longest run of bytes between the clients' chunks is as long as the longest free chunk.
LEMMA HolesMax ==
  ASSUME NEW fh, NEW ah, NEW m, NEW F, NEW A, Sits(fh, ah, m, F, A)
  PROVE  Max({0} \cup {h[2] - h[1] + 1 : h \in HolesIn(m, A)}) = Max({0} \cup {m[x].size + Hdr : x \in F})
<1> DEFINE L == {0} \cup {h[2] - h[1] + 1 : h \in HolesIn(m, A)}
           R == {0} \cup {m[x].size + Hdr : x \in F}
<1>1. ASSUME NEW h \in HolesIn(m, A)
      PROVE  /\ h[1] \in Addr /\ h[2] \in Addr /\ h[1] <= h[2] /\ (h[1]..h[2]) \cap Taken(m, A) = {}
             /\ h[2] - h[1] + 1 \in Nat
  <2>1. h[1] \in Addr /\ h[2] \in Addr /\ h[1] <= h[2] /\ (h[1]..h[2]) \cap Taken(m, A) = {}
    BY DEF HolesIn
  <2>2. h[1] \in Nat /\ h[2] \in Nat
    BY <2>1, PlaceIs
  <2> QED
    BY <2>1, <2>2
<1>2. L \in SUBSET Nat
  BY <1>1
<1>3. R \in SUBSET (0..MemSize) /\ R # {}
  <2>1. ASSUME NEW x \in F PROVE m[x].size + Hdr \in 0..MemSize
    <3>1. x \in F \cup A
      OBVIOUS
    <3>2. x \in Nat /\ m[x].size \in Nat /\ x + Hdr + m[x].size <= MemSize
      BY <3>1, ChunkIs
    <3> QED
      BY <3>2
  <2> QED
    BY <2>1
<1>4. R \subseteq L
  <2>1. ASSUME NEW x \in F PROVE m[x].size + Hdr \in L
    <3>1. PICK h \in HolesIn(m, A) : h[2] - h[1] + 1 = m[x].size + Hdr
      BY ChunkIsHole
    <3> QED
      BY <3>1
  <2> QED
    BY <2>1
<1>5. ASSUME NEW l \in L PROVE \E r \in R : l <= r
  <2>1. CASE l = 0
    BY <2>1
  <2>2. CASE l # 0
    <3>1. PICK h \in HolesIn(m, A) : l = h[2] - h[1] + 1
      BY <2>2
    <3>2. PICK a \in Addr : a = h[1]
      BY <1>1
    <3>3. PICK b \in Addr : b = h[2]
      BY <1>1
    <3>4. a <= b /\ (a..b) \cap Taken(m, A) = {} /\ l = b - a + 1
      BY <1>1, <3>1, <3>2, <3>3
    <3>5. PICK x \in F : b - a + 1 <= m[x].size + Hdr
      BY <3>4, HoleInChunk
    <3> QED
      BY <3>4, <3>5
  <2> QED
    BY <2>1, <2>2
<1> HIDE DEF L, R
<1>6. Max(L) = Max(R)
  BY <1>2, <1>3, <1>4, <1>5, MaxIs
<1> QED
  BY <1>6 DEF L, R

\* That the maximum is in one chunk follows from the invariant.
LEMMA HInvMax ==
  HInv => MaxInOneChunk
<1> SUFFICES ASSUME HInv PROVE MaxInOneChunk
  OBVIOUS
<1>1. PICK m : m = mem
  OBVIOUS
<1>2. PICK fh : fh = free_list_head
  OBVIOUS
<1>3. PICK ah : ah = alloc_list_head
  OBVIOUS
<1>4. PICK F : F = Free
  OBVIOUS
<1>5. PICK A : A = Allocated
  OBVIOUS
<1>6. Sits(fh, ah, m, F, A)
  BY <1>1, <1>2, <1>3, <1>4, <1>5, HInvSits
<1>7. Max({0} \cup {h[2] - h[1] + 1 : h \in HolesIn(m, A)}) = Max({0} \cup {m[x].size + Hdr : x \in F})
  BY <1>6, HolesMax
<1> DEFINE used == UNION {x .. Behind(x) - 1 : x \in Allocated}
           holes == {h \in Addr \X Addr : h[1] <= h[2] /\ (h[1]..h[2]) \cap used = {}}
<1>8. used = Taken(m, A)
  <2>1. ASSUME NEW x \in A PROVE x .. Behind(x) - 1 = Span(m, x)
    <3>1. x \in F \cup A
      OBVIOUS
    <3>2. x \in Nat /\ m[x].size \in Nat
      BY <1>6, <3>1, ChunkIs
    <3>3. Behind(x) = x + Hdr + m[x].size
      BY <1>1 DEF Behind
    <3> QED
      BY <3>2, <3>3 DEF Span
  <2>2. {x .. Behind(x) - 1 : x \in Allocated} = {Span(m, x) : x \in A}
    BY <1>5, <2>1
  <2> QED
    BY <2>2 DEF Taken
<1>9. holes = HolesIn(m, A)
  <2> HIDE DEF used
  <2> QED
    BY <1>8 DEF HolesIn
<1>10. MaxInOneChunk <=> Max({0} \cup {h[2] - h[1] + 1 : h \in holes}) = Max({0} \cup {mem[x].size + Hdr : x \in Free})
  BY DEF MaxInOneChunk
<1>11. {mem[x].size + Hdr : x \in Free} = {m[x].size + Hdr : x \in F}
  BY <1>1, <1>4
<1>12. {h[2] - h[1] + 1 : h \in holes} = {h[2] - h[1] + 1 : h \in HolesIn(m, A)}
  <2> HIDE DEF holes
  <2> QED
    BY <1>9
<1> HIDE DEF holes
<1> QED
  BY <1>7, <1>10, <1>11, <1>12

\* The longest run of bytes between the clients' chunks is always one free chunk, so an
\* allocation fails only if no run would be long enough.
THEOREM MaxInOneChunkHolds == Spec => []MaxInOneChunk
BY HInvMax, MemoryInductive, PTL

-----------------------------------------------------------------------------
(* The areas of the clients                                                *)

Area(m, x) == <<x + Hdr, m[x].size - m[x].overhang>>

\* The areas of the clients, by the headers.
LEMMA AreasAre ==
  ASSUME NEW m, m = mem
  PROVE  Areas = {Area(m, x) : x \in Allocated}
BY DEF Areas, Area

LEMMA AreasNext ==
  ASSUME NEW k, k = mem'
  PROVE  Areas' = {Area(k, x) : x \in Allocated'}
BY DEF Areas, Area

\* alloc() hands out bytes that nobody has.
LEMMA AllocRefines ==
  ASSUME HInv, NEW n \in Sizes, NEW f, AllocSteps(n, f)
  PROVE  Regions!Alloc
<1>1. PICK m : m = mem
  OBVIOUS
<1>2. PICK k : k = mem'
  OBVIOUS
<1>3. PICK fh : fh = free_list_head
  OBVIOUS
<1>4. PICK ah : ah = alloc_list_head
  OBVIOUS
<1>5. PICK F : F = Free
  OBVIOUS
<1>6. PICK A : A = Allocated
  OBVIOUS
<1>7. Sits(fh, ah, m, F, A)
  BY <1>1, <1>3, <1>4, <1>5, <1>6, HInvSits
<1>8. /\ m \in Heaps /\ F \cup A \in SUBSET Addr /\ F \cap A = {} /\ Tiles(m, F \cup A)
      /\ \A x \in A : m[x].overhang < m[x].size
  BY <1>7 DEF Sits, Sound, ListOf
<1>9. /\ f \in F /\ m[f].size >= n /\ Allocated' = A \cup {f} /\ k[f].size - k[f].overhang = n
      /\ \A x \in A : k[x].size = m[x].size /\ k[x].overhang = m[x].overhang
  BY <1>1, <1>2, <1>5, <1>6 DEF AllocSteps
<1>10. f \in Nat /\ m[f].size \in Nat /\ f + Hdr + m[f].size <= MemSize
  <2>1. f \in F \cup A
    BY <1>9
  <2> QED
    BY <1>7, <2>1, ChunkIs
<1>11. n \in Nat /\ n > 0
  OBVIOUS
<1>12. PICK r : r = <<f + Hdr, n>>
  OBVIOUS
<1>13. r \in (0..MemSize - 1) \X (1..MemSize) /\ r[1] + r[2] <= MemSize
  <2>1. f + Hdr \in 0..MemSize - 1 /\ n \in 1..MemSize /\ (f + Hdr) + n <= MemSize
    BY <1>9, <1>10, <1>11
  <2> QED
    BY <1>12, <2>1
<1>14. ASSUME NEW q \in Areas PROVE Regions!Bytes(q) \cap Regions!Bytes(r) = {}
  <2>1. PICK x \in A : q = Area(m, x)
    BY <1>1, <1>6, AreasAre
  <2>2. x \in F \cup A /\ f \in F \cup A /\ x # f
    BY <1>8, <1>9
  <2>3. Span(m, x) \cap Span(m, f) = {}
    BY <1>8, <2>2, SpansApart
  <2>4. x \in Nat /\ m[x].size \in Nat /\ m[x].overhang \in Nat
    BY <1>7, <2>2, ChunkIs
  <2>5. Regions!Bytes(q) \subseteq Span(m, x)
    <3>1. Regions!Bytes(q) = (x + Hdr) .. ((x + Hdr) + (m[x].size - m[x].overhang) - 1)
      BY <2>1 DEF Regions!Bytes, Area
    <3>2. PICK s \in Nat : s = m[x].size
      BY <2>4
    <3>3. PICK o \in Nat : o = m[x].overhang
      BY <2>4
    <3>4. (x + Hdr) .. ((x + Hdr) + (s - o) - 1) \subseteq x .. (x + Hdr + s - 1)
      BY <2>4
    <3> QED
      BY <3>1, <3>2, <3>3, <3>4 DEF Span
  <2>6. Regions!Bytes(r) \subseteq Span(m, f)
    <3>1. Regions!Bytes(r) = (f + Hdr) .. ((f + Hdr) + n - 1)
      BY <1>12 DEF Regions!Bytes
    <3> QED
      BY <1>9, <1>10, <1>11, <3>1 DEF Span
  <2> QED
    BY <2>3, <2>5, <2>6
<1>15. Areas' = Areas \cup {r}
  <2>1. \A x \in A : Area(k, x) = Area(m, x)
    BY <1>9 DEF Area
  <2>2. Area(k, f) = r
    BY <1>9, <1>12 DEF Area
  <2>3. Areas' = {Area(k, x) : x \in A \cup {f}} /\ Areas = {Area(m, x) : x \in A}
    BY <1>1, <1>2, <1>6, <1>9, AreasAre, AreasNext
  <2> QED
    BY <2>1, <2>2, <2>3
<1> QED
  BY <1>13, <1>14, <1>15 DEF Regions!Alloc

\* free() takes back the area of that chunk and no other.
LEMMA FreeRefines ==
  ASSUME HInv, NEW ac \in Allocated, FreeSteps(ac)
  PROVE  Regions!Free
<1>1. PICK m : m = mem
  OBVIOUS
<1>2. PICK k : k = mem'
  OBVIOUS
<1>3. PICK A : A = Allocated
  OBVIOUS
<1>4. /\ Allocated' = A \ {ac}
      /\ \A x \in A \ {ac} : k[x].size = m[x].size /\ k[x].overhang = m[x].overhang
  BY <1>1, <1>2, <1>3 DEF FreeSteps
<1>5. \A x \in A : x \in Nat
  <2>1. PICK fh : fh = free_list_head
    OBVIOUS
  <2>2. PICK ah : ah = alloc_list_head
    OBVIOUS
  <2>3. PICK F : F = Free
    OBVIOUS
  <2>4. Sits(fh, ah, m, F, A)
    BY <1>1, <1>3, <2>1, <2>2, <2>3, HInvSits
  <2>5. \A x \in F \cup A : x \in Nat
    BY <2>4, ChunkIs
  <2> QED
    BY <2>5
<1>6. \A x \in A : Area(m, x) = Area(m, ac) => x = ac
  <2>1. \A x \in A : Area(m, x)[1] = x + Hdr
    BY DEF Area
  <2>2. \A x \in A : x + Hdr = ac + Hdr => x = ac
    BY <1>3, <1>5
  <2> QED
    BY <1>3, <2>1, <2>2
<1>7. \A x \in A \ {ac} : Area(k, x) = Area(m, x)
  BY <1>4 DEF Area
<1>8. Areas' = {Area(k, x) : x \in A \ {ac}} /\ Areas = {Area(m, x) : x \in A}
  BY <1>1, <1>2, <1>3, <1>4, AreasAre, AreasNext
<1>9. Area(m, ac) \in Areas /\ Areas' = Areas \ {Area(m, ac)}
  BY <1>3, <1>6, <1>7, <1>8
<1> QED
  BY <1>9 DEF Regions!Free

\* The memory manager implements the allocator: what it hands out lies inside the segment
\* and apart from all that clients hold, and stays where it is until it is freed.
THEOREM MemoryImplementsAllocator == Spec => ImplementsAllocator
<1>1. Init => Regions!Init
  <2> SUFFICES ASSUME Init PROVE Areas = {}
    BY DEF Regions!Init
  <2>1. PICK m : m = mem
    OBVIOUS
  <2>2. HInv /\ alloc_list_head = Null
    BY HInvInit DEF Init
  <2>3. PICK A : A = Allocated
    OBVIOUS
  <2>4. ListOf(Null, m, A)
    <3>1. ListOf(alloc_list_head, mem, Allocated)
      BY <2>2, HInvSits DEF Sits
    <3> QED
      BY <2>1, <2>2, <2>3, <3>1
  <2>5. A = {}
    <3>1. \A x \in A : x \in Nat
      BY <2>4, PlaceIs DEF ListOf
    <3>2. \A x \in A : x <= Null
      BY <2>4, <3>1, PlaceIs DEF ListOf, After
    <3> QED
      BY <3>1, <3>2, PlaceIs
  <2> QED
    BY <2>3, <2>5 DEF Areas
<1>2. HInv /\ [Next]_vars => [Regions!Alloc \/ Regions!Free]_Areas
  <2> SUFFICES ASSUME HInv, [Next]_vars PROVE [Regions!Alloc \/ Regions!Free]_Areas
    OBVIOUS
  <2>1. ASSUME NEW n \in Sizes, alloc(n) PROVE Regions!Alloc
    BY <2>1, AllocTakes, AllocRefines
  <2>2. CASE UNCHANGED vars
    BY <2>2 DEF vars, Areas, Allocated
  <2>3. ASSUME NEW ac \in Allocated, free(ac) PROVE Regions!Free
    BY <2>3, FreeGives, FreeRefines
  <2> QED
    BY <2>1, <2>2, <2>3 DEF Next, allocFails
<1> QED
  BY <1>1, <1>2, MemoryInductive, PTL DEF Spec, ImplementsAllocator, Regions!Spec
=============================================================================
