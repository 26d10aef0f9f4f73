--------------------------- MODULE IterationProofs --------------------------
(***************************************************************************)
(* Loops over lists, for the proofs about queues of changes: what a loop   *)
(* computes, which of several changes is the last, what is left of a list  *)
(* when an element is taken out.                                           *)
(***************************************************************************)
EXTENDS Iteration, Integers, SequencesExt, SequenceTheorems, WellFoundedInduction, TLAPS

\* A set of numbers that is not empty has a smallest element.
LEMMA SmallestExists ==
  ASSUME NEW T \in SUBSET Nat, T # {}
  PROVE  \E m \in T : \A y \in T : m <= y
<1> DEFINE R == {ss \in Nat \X Nat : ss[1] < ss[2]}
<1>1. PICK m \in T : \A y \in T : <<y, m>> \notin R
  <2>1. IsWellFoundedOn(R, Nat)
    BY NatLessThanWellFounded DEF OpToRel
  <2> HIDE DEF R
  <2> QED
    BY <2>1, WFMin
<1>2. ASSUME NEW y \in T PROVE m <= y
  <2>1. m \in Nat /\ y \in Nat /\ <<y, m>> \notin R
    BY <1>1
  <2> QED
    BY <2>1
<1> QED
  BY <1>2

\* A set of indices that is not empty has a largest element.
LEMMA LargestOf ==
  ASSUME NEW n \in Nat, NEW J \in SUBSET (1..n), J # {}
  PROVE  Max(J) \in J /\ \A x \in J : Max(J) >= x
<1> DEFINE T == {n - x : x \in J}
<1>1. T \in SUBSET Nat /\ T # {}
  <2>1. \A x \in J : n - x \in Nat
    OBVIOUS
  <2> QED
    BY <2>1
<1>2. PICK m \in T : \A y \in T : m <= y
  <2> HIDE DEF T
  <2> QED
    BY <1>1, SmallestExists
<1>3. PICK x \in J : m = n - x
  OBVIOUS
<1>4. ASSUME NEW y \in J PROVE x >= y
  <2>1. m <= n - y /\ x \in 1..n /\ y \in 1..n
    BY <1>2
  <2> QED
    BY <1>3, <2>1
<1> QED
  BY <1>3, <1>4 DEF Max

\* Induction over the rounds of a loop: what holds before the first and is carried on
\* by each of them holds after the last.
LEMMA CountUp ==
  ASSUME NEW n \in Nat, NEW T, 0 \in T, \A i \in 1..n : i - 1 \in T => i \in T
  PROVE  0..n \subseteq T
<1> SUFFICES ASSUME NEW x \in 0..n, x \notin T PROVE FALSE
  OBVIOUS
<1> DEFINE C == {i \in 0..n : i \notin T}
<1>1. C \in SUBSET Nat /\ C # {}
  OBVIOUS
<1>2. PICK m \in C : \A y \in C : m <= y
  <2> HIDE DEF C
  <2> QED
    BY <1>1, SmallestExists
<1>3. m \in 1..n
  OBVIOUS
<1>4. m - 1 \in T
  <2>1. m - 1 \in 0..n /\ ~(m <= m - 1)
    BY <1>3
  <2>2. m - 1 \notin C
    BY <1>2, <2>1
  <2> QED
    BY <2>1, <2>2
<1> QED
  BY <1>3, <1>4

\* f holds the values that a loop of n rounds goes through.
Runs(f, S, b, n, g) ==
  f \in [0..n -> S] /\ f[0] = b /\ \A i \in 1..n : f[i] = g[i][f[i - 1]]

\* A loop of n rounds goes through some values.
LEMMA RoundsExist ==
  ASSUME NEW S, NEW b \in S, NEW n \in Nat, NEW g \in [1..n -> [S -> S]]
  PROVE  \E f : Runs(f, S, b, n, g)
<1> DEFINE Rounds(m) == {f \in [0..m -> S] : f[0] = b /\ \A i \in 1..m : f[i] = g[i][f[i - 1]]}
           T == {m \in 0..n : Rounds(m) # {}}
<1>1. 0 \in T
  <2>1. [i \in 0..0 |-> b] \in Rounds(0)
    OBVIOUS
  <2> QED
    BY <2>1
<1>2. ASSUME NEW i \in 1..n, i - 1 \in T PROVE i \in T
  <2>1. PICK f \in Rounds(i - 1) : TRUE
    BY <1>2
  <2> DEFINE h == [j \in 0..i |-> IF j = i THEN g[i][f[i - 1]] ELSE f[j]]
  <2>2. i - 1 \in 0..(i - 1) /\ f \in [0..(i - 1) -> S]
    OBVIOUS
  <2>3. f[i - 1] \in S
    BY <2>2
  <2>4. g[i][f[i - 1]] \in S
    BY <2>3
  <2>5. h \in [0..i -> S]
    BY <2>2, <2>4
  <2>6. h[0] = b
    BY <2>1
  <2>7. ASSUME NEW j \in 1..i PROVE h[j] = g[j][h[j - 1]]
    <3>1. j - 1 \in 0..(i - 1) /\ j - 1 # i
      OBVIOUS
    <3>2. h[j - 1] = f[j - 1]
      BY <3>1
    <3>3. CASE j = i
      BY <3>2, <3>3
    <3>4. CASE j # i
      <4>1. j \in 1..(i - 1)
        BY <3>4
      <4>2. f[j] = g[j][f[j - 1]]
        BY <2>1, <4>1
      <4> QED
        BY <3>2, <3>4, <4>2
    <3> QED
      BY <3>3, <3>4
  <2> HIDE DEF h
  <2> QED
    BY <2>5, <2>6, <2>7
<1>3. 0..n \subseteq T
  <2> HIDE DEF T
  <2> QED
    BY <1>1, <1>2, CountUp
<1> QED
  BY <1>3 DEF Runs

-----------------------------------------------------------------------------
(* The last element of a kind                                              *)

\* e is the last of the first i elements of q that are in M.
LastOf(q, i, M, e) == \E j \in 1..i : q[j] = e /\ e \in M /\ \A m \in (j + 1)..i : q[m] \notin M

\* One more element: it is the last itself, or does not matter.
LEMMA LastStep ==
  ASSUME NEW q, NEW i \in Nat \ {0}, NEW M, NEW e
  PROVE  LastOf(q, i, M, e) <=> IF q[i] \in M THEN e = q[i] ELSE LastOf(q, i - 1, M, e)
<1>1. CASE q[i] \in M
  <2>1. ASSUME LastOf(q, i, M, e) PROVE e = q[i]
    <3>1. PICK j \in 1..i : q[j] = e /\ \A m \in (j + 1)..i : q[m] \notin M
      BY <2>1 DEF LastOf
    <3>2. j = i
      BY <1>1, <3>1
    <3> QED
      BY <3>1, <3>2
  <2>2. ASSUME e = q[i] PROVE LastOf(q, i, M, e)
    <3>1. i \in 1..i /\ \A m \in (i + 1)..i : q[m] \notin M
      OBVIOUS
    <3> QED
      BY <1>1, <2>2, <3>1 DEF LastOf
  <2> QED
    BY <1>1, <2>1, <2>2
<1>2. CASE q[i] \notin M
  <2>1. ASSUME LastOf(q, i, M, e) PROVE LastOf(q, i - 1, M, e)
    <3>1. PICK j \in 1..i : q[j] = e /\ e \in M /\ \A m \in (j + 1)..i : q[m] \notin M
      BY <2>1 DEF LastOf
    <3>2. j \in 1..(i - 1)
      BY <1>2, <3>1
    <3>3. \A m \in (j + 1)..(i - 1) : q[m] \notin M
      BY <3>1
    <3> QED
      BY <3>1, <3>2, <3>3 DEF LastOf
  <2>2. ASSUME LastOf(q, i - 1, M, e) PROVE LastOf(q, i, M, e)
    <3>1. PICK j \in 1..(i - 1) : q[j] = e /\ e \in M /\ \A m \in (j + 1)..(i - 1) : q[m] \notin M
      BY <2>2 DEF LastOf
    <3>2. \A m \in (j + 1)..i : q[m] \notin M
      BY <1>2, <3>1
    <3> QED
      BY <3>1, <3>2 DEF LastOf
  <2> QED
    BY <1>2, <2>1, <2>2
<1> QED
  BY <1>1, <1>2

\* Only the first elements matter.
LEMMA LastAgrees ==
  ASSUME NEW q, NEW p, NEW i \in Nat, \A j \in 1..i : q[j] = p[j], NEW M, NEW e
  PROVE  LastOf(q, i, M, e) <=> LastOf(p, i, M, e)
<1>1. ASSUME NEW r, NEW s, \A j \in 1..i : r[j] = s[j], LastOf(r, i, M, e)
      PROVE  LastOf(s, i, M, e)
  <2>1. PICK j \in 1..i : r[j] = e /\ e \in M /\ \A m \in (j + 1)..i : r[m] \notin M
    BY <1>1 DEF LastOf
  <2>2. \A m \in (j + 1)..i : m \in 1..i
    OBVIOUS
  <2>3. s[j] = e /\ \A m \in (j + 1)..i : s[m] \notin M
    BY <1>1, <2>1, <2>2
  <2> QED
    BY <2>1, <2>3 DEF LastOf
<1> QED
  BY <1>1

\* The last one after an element is added at the end.
LEMMA LastAppended ==
  ASSUME NEW S, NEW q \in Seq(S), NEW x \in S, NEW M, NEW e
  PROVE  LastOf(Append(q, x), Len(Append(q, x)), M, e)
           <=> IF x \in M THEN e = x ELSE LastOf(q, Len(q), M, e)
<1> DEFINE n == Len(q)
           p == Append(q, x)
<1>1. n \in Nat /\ Len(p) = n + 1 /\ p[n + 1] = x /\ \A j \in 1..n : p[j] = q[j]
  OBVIOUS
<1>2. n + 1 \in Nat \ {0} /\ (n + 1) - 1 = n
  BY <1>1
<1> HIDE DEF n, p
<1>3. LastOf(p, n + 1, M, e) <=> IF x \in M THEN e = x ELSE LastOf(p, n, M, e)
  BY <1>1, <1>2, LastStep
<1>4. LastOf(p, n, M, e) <=> LastOf(q, n, M, e)
  BY <1>1, LastAgrees
<1> QED
  BY <1>1, <1>3, <1>4 DEF n, p

\* There is a last one or there is none, and there are no two.
LEMMA LastUnique ==
  ASSUME NEW q, NEW i \in Nat, NEW M
  PROVE  /\ \A j \in 1..i : q[j] \in M => \E e : LastOf(q, i, M, e)
         /\ \A e, d : LastOf(q, i, M, e) /\ LastOf(q, i, M, d) => e = d
<1> DEFINE T == {n \in 0..i : /\ \A j \in 1..n : q[j] \in M => \E e : LastOf(q, n, M, e)
                              /\ \A e, d : LastOf(q, n, M, e) /\ LastOf(q, n, M, d) => e = d}
<1>1. 0 \in T
  <2>1. \A e : ~LastOf(q, 0, M, e)
    BY DEF LastOf
  <2> QED
    BY <2>1
<1>2. ASSUME NEW n \in 1..i, n - 1 \in T PROVE n \in T
  <2>1. \A e : LastOf(q, n, M, e) <=> IF q[n] \in M THEN e = q[n] ELSE LastOf(q, n - 1, M, e)
    BY LastStep
  <2>2. \A j \in 1..n : j = n \/ j \in 1..(n - 1)
    OBVIOUS
  <2>3. ASSUME NEW j \in 1..n, q[j] \in M PROVE \E e : LastOf(q, n, M, e)
    BY <1>2, <2>1, <2>2, <2>3
  <2>4. \A e, d : LastOf(q, n, M, e) /\ LastOf(q, n, M, d) => e = d
    BY <1>2, <2>1
  <2> QED
    BY <2>3, <2>4
<1>3. 0..i \subseteq T
  <2> HIDE DEF T
  <2> QED
    BY <1>1, <1>2, CountUp
<1> QED
  BY <1>3

\* The last one with the first element left out.
LEMMA LastTail ==
  ASSUME NEW S, NEW q \in Seq(S), q # <<>>, NEW M, NEW e
  PROVE  LastOf(q, Len(q), M, e) <=>
           \/ LastOf(Tail(q), Len(Tail(q)), M, e)
           \/ e = Head(q) /\ e \in M /\ \A d : ~LastOf(Tail(q), Len(Tail(q)), M, d)
<1>1. PICK p \in Seq(S) : p = Tail(q)
  BY HeadTailProperties
<1>2. PICK n \in Nat : n = Len(p)
  OBVIOUS
<1>3. Len(q) = n + 1 /\ Head(q) = q[1] /\ \A i \in 1..n : p[i] = q[i + 1]
  BY <1>1, <1>2, HeadTailProperties
<1>4. ASSUME LastOf(p, n, M, e) PROVE LastOf(q, n + 1, M, e)
  <2>1. PICK j \in 1..n : p[j] = e /\ e \in M /\ \A m \in (j + 1)..n : p[m] \notin M
    BY <1>4 DEF LastOf
  <2>2. j + 1 \in 1..(n + 1) /\ q[j + 1] = e
    BY <1>3, <2>1
  <2>3. ASSUME NEW m \in ((j + 1) + 1)..(n + 1) PROVE q[m] \notin M
    <3>1. m - 1 \in (j + 1)..n /\ m - 1 \in 1..n /\ (m - 1) + 1 = m
      OBVIOUS
    <3> QED
      BY <1>3, <2>1, <3>1
  <2> QED
    BY <2>1, <2>2, <2>3 DEF LastOf
<1>5. ASSUME e = q[1], e \in M, \A d : ~LastOf(p, n, M, d) PROVE LastOf(q, n + 1, M, e)
  <2>1. \A j \in 1..n : p[j] \notin M
    BY <1>5, LastUnique
  <2>2. ASSUME NEW m \in (1 + 1)..(n + 1) PROVE q[m] \notin M
    <3>1. m - 1 \in 1..n /\ (m - 1) + 1 = m
      OBVIOUS
    <3> QED
      BY <1>3, <2>1, <3>1
  <2>3. 1 \in 1..(n + 1)
    OBVIOUS
  <2> QED
    BY <1>5, <2>2, <2>3 DEF LastOf
<1>6. ASSUME LastOf(q, n + 1, M, e)
      PROVE  LastOf(p, n, M, e) \/ (e = q[1] /\ e \in M /\ \A d : ~LastOf(p, n, M, d))
  <2>1. PICK i \in 1..(n + 1) : q[i] = e /\ e \in M /\ \A m \in (i + 1)..(n + 1) : q[m] \notin M
    BY <1>6 DEF LastOf
  <2>2. ASSUME NEW m \in 1..n, m \in i..n PROVE p[m] \notin M
    <3>1. m + 1 \in (i + 1)..(n + 1)
      BY <2>2
    <3> QED
      BY <1>3, <2>1, <3>1
  <2>3. CASE i = 1
    <3>1. \A m \in 1..n : p[m] \notin M
      BY <2>2, <2>3
    <3>2. \A d : ~LastOf(p, n, M, d)
      BY <3>1 DEF LastOf
    <3> QED
      BY <2>1, <2>3, <3>2
  <2>4. CASE i # 1
    <3>1. i - 1 \in 1..n /\ (i - 1) + 1 = i
      BY <2>4
    <3>2. p[i - 1] = e
      BY <1>3, <2>1, <3>1
    <3>3. \A m \in ((i - 1) + 1)..n : m \in 1..n /\ m \in i..n
      BY <3>1
    <3> QED
      BY <2>1, <2>2, <3>1, <3>2, <3>3 DEF LastOf
  <2> QED
    BY <2>3, <2>4
<1>7. LastOf(q, n + 1, M, e) <=>
        LastOf(p, n, M, e) \/ (e = q[1] /\ e \in M /\ \A d : ~LastOf(p, n, M, d))
  BY <1>4, <1>5, <1>6
<1> QED
  BY <1>1, <1>2, <1>3, <1>7

-----------------------------------------------------------------------------
(* Only                                                                    *)

\* f holds what the loop of Only goes through.
OnlyRuns(f, S, q, T) ==
  /\ f \in [0..Len(q) -> Seq(S)]
  /\ f[0] = <<>>
  /\ \A i \in 1..Len(q) : f[i] = IF q[i] \in T THEN Append(f[i - 1], q[i]) ELSE f[i - 1]
  /\ Only(q, T) = f[Len(q)]

\* The loop of Only is well defined.
LEMMA OnlyRounds ==
  ASSUME NEW S, NEW q \in Seq(S), NEW T
  PROVE  \E f : OnlyRuns(f, S, q, T)
<1> DEFINE n == Len(q)
           g == [i \in 1..n |-> [r \in Seq(S) |-> IF q[i] \in T THEN Append(r, q[i]) ELSE r]]
           Q == Seq(S)
           b == <<>>
           Loop(h) == [i \in 0..n |-> IF i = 0 THEN b
                         ELSE IF q[i] \in T THEN Append(h[i - 1], q[i]) ELSE h[i - 1]]
<1>1. n \in Nat /\ b \in Q /\ g \in [1..n -> [Q -> Q]]
  OBVIOUS
<1>2. \A i \in 1..n, r \in Q : g[i][r] = IF q[i] \in T THEN Append(r, q[i]) ELSE r
  OBVIOUS
<1>3. \A i \in 1..n : q[i] \in S
  OBVIOUS
<1>4. \A i \in 1..n, r \in Q : Append(r, q[i]) \in Q
  BY <1>3
<1> HIDE DEF n, g, Q, b
<1>5. PICK f \in [0..n -> Q] : f[0] = b /\ \A i \in 1..n : f[i] = g[i][f[i - 1]]
  BY <1>1, RoundsExist DEF Runs
<1>6. \A i \in 0..n : i # 0 => i \in 1..n /\ i - 1 \in 0..n
  BY <1>1
<1>7. f = Loop(f)
  BY <1>2, <1>5, <1>6
<1> DEFINE c == CHOOSE h : h = Loop(h)
<1>8. c = Loop(c)
  BY <1>7
<1>9. Only(q, T) = c[n]
  BY DEF Only, Iterated, n, b
<1> HIDE DEF c
<1>10. c[0] = b /\ \A i \in 1..n : c[i] = IF q[i] \in T THEN Append(c[i - 1], q[i]) ELSE c[i - 1]
  <2>1. \A i \in 0..n : c[i] = IF i = 0 THEN b ELSE IF q[i] \in T THEN Append(c[i - 1], q[i]) ELSE c[i - 1]
    <3>1. ASSUME NEW i \in 0..n
          PROVE  Loop(c)[i] = IF i = 0 THEN b ELSE IF q[i] \in T THEN Append(c[i - 1], q[i]) ELSE c[i - 1]
      OBVIOUS
    <3> HIDE DEF Loop
    <3> QED
      BY <1>8, <3>1
  <2> QED
    BY <1>1, <2>1
<1>11. c \in [0..n -> Q]
  <2> DEFINE A == {i \in 0..n : c[i] \in Q}
  <2>1. 0 \in A
    BY <1>1, <1>10
  <2>2. ASSUME NEW i \in 1..n, i - 1 \in A PROVE i \in A
    <3>1. PICK r \in Q : r = c[i - 1]
      BY <2>2
    <3>2. PICK x : x = Append(r, q[i])
      OBVIOUS
    <3>3. x \in Q
      BY <1>4, <3>2
    <3>4. c[i] = IF q[i] \in T THEN x ELSE r
      BY <1>10, <3>1, <3>2
    <3>5. i \in 0..n
      BY <1>1
    <3> QED
      BY <3>3, <3>4, <3>5
  <2>3. 0..n \subseteq A
    <3> HIDE DEF A
    <3> QED
      BY <1>1, <2>1, <2>2, CountUp
  <2> QED
    BY <1>8, <2>3
<1>12. OnlyRuns(c, S, q, T)
  BY <1>9, <1>10, <1>11 DEF n, Q, b, OnlyRuns
<1> QED
  BY <1>12

\* Only keeps, of the elements in T, which is the last.
LEMMA OnlyLast ==
  ASSUME NEW S, NEW q \in Seq(S), NEW T
  PROVE  /\ Only(q, T) \in Seq(S)
         /\ \A M, e :
              LastOf(Only(q, T), Len(Only(q, T)), M, e) <=> LastOf(q, Len(q), M \cap T, e)
<1>0. PICK f : OnlyRuns(f, S, q, T)
  BY OnlyRounds
<1>1. /\ f \in [0..Len(q) -> Seq(S)]
      /\ f[0] = <<>>
      /\ \A i \in 1..Len(q) : f[i] = IF q[i] \in T THEN Append(f[i - 1], q[i]) ELSE f[i - 1]
      /\ Only(q, T) = f[Len(q)]
  BY <1>0 DEF OnlyRuns
<1>2. Len(q) \in Nat
  OBVIOUS
<1>3. Only(q, T) \in Seq(S)
  BY <1>1, <1>2
<1>4. ASSUME NEW M, NEW e
      PROVE  LastOf(Only(q, T), Len(Only(q, T)), M, e) <=> LastOf(q, Len(q), M \cap T, e)
  <2> DEFINE A == {i \in 0..Len(q) : LastOf(f[i], Len(f[i]), M, e) <=> LastOf(q, i, M \cap T, e)}
  <2>1. 0 \in A
    BY <1>1, <1>2 DEF LastOf
  <2>2. ASSUME NEW i \in 1..Len(q), i - 1 \in A PROVE i \in A
    <3>1. f[i - 1] \in Seq(S) /\ q[i] \in S /\ i \in Nat \ {0}
      BY <1>1
    <3>2. LastOf(q, i, M \cap T, e)
            <=> IF q[i] \in M \cap T THEN e = q[i] ELSE LastOf(q, i - 1, M \cap T, e)
      BY <3>1, LastStep
    <3>3. CASE q[i] \in T
      <4>1. f[i] = Append(f[i - 1], q[i])
        BY <1>1, <3>3
      <4>2. LastOf(f[i], Len(f[i]), M, e)
              <=> IF q[i] \in M THEN e = q[i] ELSE LastOf(f[i - 1], Len(f[i - 1]), M, e)
        <5>1. PICK r \in Seq(S) : r = f[i - 1]
          BY <3>1
        <5>2. PICK x \in S : x = q[i]
          BY <3>1
        <5>3. LastOf(Append(r, x), Len(Append(r, x)), M, e)
                <=> IF x \in M THEN e = x ELSE LastOf(r, Len(r), M, e)
          BY LastAppended
        <5> QED
          BY <4>1, <5>1, <5>2, <5>3, Zenon
      <4> QED
        BY <2>2, <3>2, <3>3, <4>2
    <3>4. CASE q[i] \notin T
      <4>1. f[i] = f[i - 1] /\ q[i] \notin M \cap T
        BY <1>1, <3>4
      <4> QED
        BY <2>2, <3>2, <4>1
    <3> QED
      BY <3>3, <3>4
  <2>3. 0..Len(q) \subseteq A
    <3> HIDE DEF A
    <3> QED
      BY <1>2, <2>1, <2>2, CountUp
  <2>4. Len(q) \in A
    <3> HIDE DEF A
    <3> QED
      BY <1>2, <2>3
  <2>5. LastOf(f[Len(q)], Len(f[Len(q)]), M, e) <=> LastOf(q, Len(q), M \cap T, e)
    BY <2>4
  <2> QED
    BY <1>1, <2>5, Zenon
<1> QED
  BY <1>3, <1>4

\* e is in the list q
Occurs(e, q) == \E j \in 1..Len(q) : q[j] = e

\* Only keeps exactly the elements in T.
LEMMA OnlyMembers ==
  ASSUME NEW S, NEW q \in Seq(S), NEW T, NEW e
  PROVE  Occurs(e, Only(q, T)) <=> e \in T /\ Occurs(e, q)
<1>1. ASSUME NEW p \in Seq(S), NEW U
      PROVE  (\E d : LastOf(p, Len(p), {e} \cap U, d))
               <=> e \in U /\ \E j \in 1..Len(p) : p[j] = e
  <2>1. Len(p) \in Nat
    OBVIOUS
  <2>2. ASSUME NEW j \in 1..Len(p), p[j] = e, e \in U
        PROVE  \E d : LastOf(p, Len(p), {e} \cap U, d)
    <3>1. p[j] \in {e} \cap U
      BY <2>2
    <3> QED
      BY <2>1, <3>1, LastUnique
  <2>3. ASSUME NEW d, LastOf(p, Len(p), {e} \cap U, d)
        PROVE  e \in U /\ \E j \in 1..Len(p) : p[j] = e
    BY <2>3 DEF LastOf
  <2> QED
    BY <2>2, <2>3
<1>2. Only(q, T) \in Seq(S)
  BY OnlyLast
<1>3. (\E d : LastOf(Only(q, T), Len(Only(q, T)), {e} \cap {e}, d))
        <=> \E d : LastOf(q, Len(q), {e} \cap T, d)
  <2>1. {e} \cap {e} = {e}
    OBVIOUS
  <2>2. \A d : LastOf(Only(q, T), Len(Only(q, T)), {e}, d) <=> LastOf(q, Len(q), {e} \cap T, d)
    BY OnlyLast
  <2> QED
    BY <2>1, <2>2
<1> QED
  BY <1>1, <1>2, <1>3 DEF Occurs

-----------------------------------------------------------------------------
(* RemoveAt and IsSuffix                                                   *)

\* What is left after the r-th element is taken out.
LEMMA RemoveAtIs ==
  ASSUME NEW S, NEW q \in Seq(S), NEW r \in 1..Len(q)
  PROVE  /\ RemoveAt(q, r) \in Seq(S)
         /\ Len(RemoveAt(q, r)) = Len(q) - 1
         /\ \A j \in 1..(Len(q) - 1) : RemoveAt(q, r)[j] = IF j < r THEN q[j] ELSE q[j + 1]
<1>1. SubSeq(q, 1, r - 1) \in Seq(S) /\ Len(SubSeq(q, 1, r - 1)) = r - 1
      /\ \A j \in 1..(r - 1) : SubSeq(q, 1, r - 1)[j] = q[j]
  OBVIOUS
<1>2. SubSeq(q, r + 1, Len(q)) \in Seq(S) /\ Len(SubSeq(q, r + 1, Len(q))) = Len(q) - r
      /\ \A j \in 1..(Len(q) - r) : SubSeq(q, r + 1, Len(q))[j] = q[r + j]
  OBVIOUS
<1>3. PICK a \in Seq(S), c \in Seq(S) : a = SubSeq(q, 1, r - 1) /\ c = SubSeq(q, r + 1, Len(q))
  BY <1>1, <1>2
<1>4. RemoveAt(q, r) = a \o c
  BY <1>3 DEF RemoveAt
<1>5. a \o c \in Seq(S) /\ Len(a \o c) = Len(a) + Len(c)
      /\ \A j \in 1..(Len(a) + Len(c)) : (a \o c)[j] = IF j <= Len(a) THEN a[j] ELSE c[j - Len(a)]
  OBVIOUS
<1>6. Len(a) = r - 1 /\ Len(c) = Len(q) - r /\ Len(q) \in Nat
  BY <1>1, <1>2, <1>3
<1>7. ASSUME NEW j \in 1..(Len(q) - 1)
      PROVE  (a \o c)[j] = IF j < r THEN q[j] ELSE q[j + 1]
  <2>1. (a \o c)[j] = IF j <= r - 1 THEN a[j] ELSE c[j - (r - 1)]
    BY <1>5, <1>6
  <2>2. CASE j < r
    <3>1. j \in 1..(r - 1)
      BY <2>2
    <3>2. a[j] = q[j]
      BY <1>1, <1>3, <3>1
    <3> QED
      BY <2>1, <2>2, <3>1, <3>2
  <2>3. CASE ~(j < r)
    <3>1. j - (r - 1) \in 1..(Len(q) - r) /\ r + (j - (r - 1)) = j + 1
      BY <1>6, <2>3
    <3>2. c[j - (r - 1)] = q[r + (j - (r - 1))]
      BY <1>2, <1>3, <3>1
    <3> QED
      BY <2>1, <2>3, <3>1, <3>2
  <2> QED
    BY <2>2, <2>3
<1> QED
  BY <1>4, <1>5, <1>6, <1>7

\* An element that is not in M can be taken out.
LEMMA LastRemoved ==
  ASSUME NEW S, NEW q \in Seq(S), NEW r \in 1..Len(q), NEW M, q[r] \notin M, NEW e
  PROVE  LastOf(RemoveAt(q, r), Len(RemoveAt(q, r)), M, e) <=> LastOf(q, Len(q), M, e)
<1> DEFINE n == Len(q)
<1>1. PICK p \in Seq(S) : p = RemoveAt(q, r)
  BY RemoveAtIs
<1>2. /\ Len(p) = n - 1 /\ n \in Nat
      /\ \A j \in 1..(n - 1) : p[j] = IF j < r THEN q[j] ELSE q[j + 1]
  BY <1>1, RemoveAtIs
<1> HIDE DEF n
<1>3. r \in 1..n
  BY DEF n
<1>4. ASSUME LastOf(p, n - 1, M, e) PROVE LastOf(q, n, M, e)
  <2>1. PICK j \in 1..(n - 1) : p[j] = e /\ e \in M /\ \A m \in (j + 1)..(n - 1) : p[m] \notin M
    BY <1>4 DEF LastOf
  <2>2. PICK i \in 1..n : i = IF j < r THEN j ELSE j + 1
    BY <1>2
  <2>3. q[i] = e
    BY <1>2, <2>1, <2>2
  <2>4. ASSUME NEW m \in (i + 1)..n PROVE q[m] \notin M
    <3>1. CASE m < r
      <4>1. m \in (j + 1)..(n - 1) /\ m \in 1..(n - 1)
        BY <1>2, <1>3, <2>2, <3>1
      <4> QED
        BY <1>2, <2>1, <3>1, <4>1
    <3>2. CASE m = r
      BY <3>2
    <3>3. CASE m > r
      <4>1. m - 1 \in (j + 1)..(n - 1) /\ m - 1 \in 1..(n - 1) /\ ~(m - 1 < r) /\ (m - 1) + 1 = m
        BY <1>2, <1>3, <2>2, <3>3
      <4> QED
        BY <1>2, <2>1, <4>1
    <3> QED
      BY <1>2, <1>3, <3>1, <3>2, <3>3
  <2> QED
    BY <2>1, <2>3, <2>4 DEF LastOf
<1>5. ASSUME LastOf(q, n, M, e) PROVE LastOf(p, n - 1, M, e)
  <2>1. PICK i \in 1..n : q[i] = e /\ e \in M /\ \A m \in (i + 1)..n : q[m] \notin M
    BY <1>5 DEF LastOf
  <2>2. i # r
    BY <2>1
  <2>3. PICK j \in 1..(n - 1) : j = IF i < r THEN i ELSE i - 1
    BY <1>2, <1>3, <2>2
  <2>4. p[j] = e
    <3>1. CASE i < r
      BY <1>2, <2>1, <2>3, <3>1
    <3>2. CASE i > r
      <4>1. ~(j < r) /\ j + 1 = i
        BY <1>2, <1>3, <2>3, <3>2
      <4> QED
        BY <1>2, <2>1, <4>1
    <3> QED
      BY <1>2, <1>3, <2>2, <3>1, <3>2
  <2>5. ASSUME NEW m \in (j + 1)..(n - 1) PROVE p[m] \notin M
    <3>1. m \in 1..(n - 1)
      BY <1>2
    <3>2. CASE m < r
      <4>1. m \in (i + 1)..n
        BY <1>2, <1>3, <2>2, <2>3, <3>2
      <4> QED
        BY <1>2, <2>1, <3>1, <3>2, <4>1
    <3>3. CASE ~(m < r)
      <4>1. m + 1 \in (i + 1)..n
        BY <1>2, <1>3, <2>2, <2>3, <3>3
      <4> QED
        BY <1>2, <2>1, <3>1, <3>3, <4>1
    <3> QED
      BY <3>2, <3>3
  <2> QED
    BY <2>1, <2>4, <2>5 DEF LastOf
<1> QED
  BY <1>1, <1>2, <1>4, <1>5 DEF n

\* A suffix, element by element.
LEMMA SuffixIs ==
  ASSUME NEW S, NEW s \in Seq(S), NEW t \in Seq(S)
  PROVE  IsSuffix(s, t) <=>
           Len(s) <= Len(t) /\ \A i \in 1..Len(s) : s[i] = t[(Len(t) - Len(s)) + i]
<1> DEFINE m == Len(s)
           n == Len(t)
<1>0. ASSUME NEW u \in Seq(S) PROVE Reverse(u) \in Seq(S)
  <2>1. Len(u) \in Nat
    OBVIOUS
  <2>2. \A i \in 1..Len(u) : (Len(u) - i) + 1 \in 1..Len(u)
    BY <2>1
  <2>3. Reverse(u) \in [1..Len(u) -> S]
    BY <2>2 DEF Reverse
  <2> QED
    BY <2>1, <2>3, SeqDef
<1>1. PICK a \in Seq(S) : a = Reverse(s)
  BY <1>0
<1>2. PICK b \in Seq(S) : b = Reverse(t)
  BY <1>0
<1>3. m \in Nat /\ n \in Nat /\ Len(a) = m /\ Len(b) = n
  BY <1>1, <1>2 DEF Reverse
<1>4. \A i \in 1..m : a[i] = s[(m - i) + 1]
  BY <1>1 DEF Reverse
<1>5. \A i \in 1..n : b[i] = t[(n - i) + 1]
  BY <1>2 DEF Reverse
<1>6. IsSuffix(s, t) <=> m <= n /\ SubSeq(a, 1, m) = SubSeq(b, 1, m)
  BY <1>1, <1>2, <1>3 DEF IsSuffix, IsPrefix
<1>7. m <= n => (SubSeq(a, 1, m) = SubSeq(b, 1, m) <=> \A i \in 1..m : a[i] = b[i])
  <2> SUFFICES ASSUME m <= n PROVE SubSeq(a, 1, m) = SubSeq(b, 1, m) <=> \A i \in 1..m : a[i] = b[i]
    OBVIOUS
  <2>1. SubSeq(a, 1, m) = [i \in 1..m |-> a[i]]
    BY <1>3
  <2>2. SubSeq(b, 1, m) = [i \in 1..m |-> b[i]]
    BY <1>3
  <2> QED
    BY <2>1, <2>2
<1> HIDE DEF m, n
<1>8. ASSUME m <= n, \A i \in 1..m : a[i] = b[i], NEW i \in 1..m PROVE s[i] = t[(n - m) + i]
  <2>1. (m - i) + 1 \in 1..m /\ (m - i) + 1 \in 1..n
    BY <1>3, <1>8
  <2>2. (m - ((m - i) + 1)) + 1 = i /\ (n - ((m - i) + 1)) + 1 = (n - m) + i
    BY <1>3
  <2>3. a[(m - i) + 1] = s[i] /\ b[(m - i) + 1] = t[(n - m) + i]
    BY <1>4, <1>5, <2>1, <2>2
  <2> QED
    BY <1>8, <2>1, <2>3
<1>9. ASSUME m <= n, \A i \in 1..m : s[i] = t[(n - m) + i], NEW i \in 1..m PROVE a[i] = b[i]
  <2>1. (m - i) + 1 \in 1..m /\ i \in 1..n
    BY <1>3, <1>9
  <2>2. (n - m) + ((m - i) + 1) = (n - i) + 1
    BY <1>3
  <2>3. a[i] = s[(m - i) + 1] /\ b[i] = t[(n - i) + 1]
    BY <1>4, <1>5, <2>1
  <2> QED
    BY <1>9, <2>1, <2>2, <2>3
<1> QED
  BY <1>6, <1>7, <1>8, <1>9 DEF m, n

\* What is left to visit of a list stays its end when the next element is visited.
LEMMA SuffixTail ==
  ASSUME NEW S, NEW s \in Seq(S), NEW t \in Seq(S), IsSuffix(s, t), s # <<>>
  PROVE  IsSuffix(Tail(s), t)
<1>1. PICK r \in Seq(S) : r = Tail(s)
  BY HeadTailProperties
<1>2. Len(s) \in Nat /\ Len(t) \in Nat /\ Len(r) = Len(s) - 1 /\ \A i \in 1..Len(r) : r[i] = s[i + 1]
  BY <1>1, HeadTailProperties
<1>3. Len(s) <= Len(t) /\ \A i \in 1..Len(s) : s[i] = t[(Len(t) - Len(s)) + i]
  BY SuffixIs
<1>4. ASSUME NEW i \in 1..Len(r) PROVE r[i] = t[(Len(t) - Len(r)) + i]
  <2>1. i + 1 \in 1..Len(s) /\ (Len(t) - Len(s)) + (i + 1) = (Len(t) - Len(r)) + i
    BY <1>2
  <2>2. r[i] = s[i + 1] /\ s[i + 1] = t[(Len(t) - Len(s)) + (i + 1)]
    BY <1>2, <1>3, <2>1
  <2> QED
    BY <2>1, <2>2
<1>5. Len(r) <= Len(t)
  BY <1>2, <1>3
<1> QED
  BY <1>1, <1>4, <1>5, SuffixIs

\* A list is its own end.
LEMMA SuffixSelf ==
  ASSUME NEW S, NEW s \in Seq(S)
  PROVE  IsSuffix(s, s)
BY DEF IsSuffix, IsPrefix

=============================================================================
