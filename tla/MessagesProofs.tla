--------------------------- MODULE MessagesProofs ---------------------------
(***************************************************************************)
(* The linked lists of the message queues, the references of the messages  *)
(* and the queues as mailboxes, for any number of senders, messages and    *)
(* writing instances.                                                      *)
(***************************************************************************)
EXTENDS Messages, IterationProofs, FiniteSetTheorems

USE MessagesAssumption

-----------------------------------------------------------------------------
(* Linked lists                                                            *)

Elements == Messages \cup {Null}

\* f gives what comes from each element on, by positions
Follows(f, nx) ==
  /\ f \in [Elements -> Seq(Messages)] /\ Len(f[Null]) = 0
  /\ \A m \in Messages :
       /\ Len(f[m]) = Len(f[nx[m]]) + 1
       /\ f[m][1] = m
       /\ \A k \in 1..Len(f[nx[m]]) : f[m][k + 1] = f[nx[m]][k]

\* An element before a sequence.
LEMMA ConsIs ==
  ASSUME NEW m \in Messages, NEW r \in Seq(Messages)
  PROVE  /\ <<m>> \o r \in Seq(Messages) /\ Len(<<m>> \o r) = Len(r) + 1
         /\ (<<m>> \o r)[1] = m /\ \A k \in 1..Len(r) : (<<m>> \o r)[k + 1] = r[k]
OBVIOUS

\* Sequences are equal when they agree at all positions.
LEMMA SameSeq ==
  ASSUME NEW S, NEW p \in Seq(S), NEW q \in Seq(S), Len(p) = Len(q),
         \A k \in 1..Len(q) : p[k] = q[k]
  PROVE  p = q
BY SeqEqual

\* The sequence of a message and that of the next.
LEMMA FollowsAt ==
  ASSUME NEW nx \in [Messages -> Elements], NEW f, Follows(f, nx), NEW m \in Messages
  PROVE  /\ m \in Elements /\ nx[m] \in Elements
         /\ f[m] \in Seq(Messages) /\ f[nx[m]] \in Seq(Messages)
         /\ Len(f[m]) \in Nat /\ Len(f[nx[m]]) \in Nat
         /\ Len(f[m]) = Len(f[nx[m]]) + 1 /\ f[m][1] = m
         /\ \A k \in 1..Len(f[nx[m]]) : f[m][k + 1] = f[nx[m]][k]
<1>1. f \in [Elements -> Seq(Messages)] /\ m \in Elements /\ nx[m] \in Elements
  BY DEF Follows, Elements
<1>2. f[m] \in Seq(Messages) /\ f[nx[m]] \in Seq(Messages)
  BY <1>1
<1>3. /\ Len(f[m]) = Len(f[nx[m]]) + 1 /\ f[m][1] = m
      /\ \A k \in 1..Len(f[nx[m]]) : f[m][k + 1] = f[nx[m]][k]
  BY DEF Follows
<1> QED
  BY <1>1, <1>2, <1>3

LEMMA FollowsCons ==
  ASSUME NEW nx \in [Messages -> Elements], NEW f, Follows(f, nx), NEW m \in Messages
  PROVE  f[m] = <<m>> \o f[nx[m]]
<1>1. f[m] \in Seq(Messages) /\ f[nx[m]] \in Seq(Messages) /\ Len(f[m]) = Len(f[nx[m]]) + 1 /\ f[m][1] = m
      /\ \A k \in 1..Len(f[nx[m]]) : f[m][k + 1] = f[nx[m]][k]
  BY DEF Follows, Elements
<1>2. PICK r \in Seq(Messages) : r = f[nx[m]]
  BY <1>1
<1>3. PICK t \in Seq(Messages) : t = f[m]
  BY <1>1
<1>4. Len(r) \in Nat /\ Len(t) = Len(r) + 1 /\ t[1] = m /\ \A k \in 1..Len(r) : t[k + 1] = r[k]
  BY <1>1, <1>2, <1>3
<1>5. <<m>> \o r \in Seq(Messages) /\ Len(<<m>> \o r) = Len(r) + 1
      /\ (<<m>> \o r)[1] = m /\ \A k \in 1..Len(r) : (<<m>> \o r)[k + 1] = r[k]
  BY ConsIs
<1>6. ASSUME NEW k \in 1..Len(t) PROVE t[k] = (<<m>> \o r)[k]
  <2>1. CASE k = 1
    BY <1>4, <1>5, <2>1
  <2>2. CASE k # 1
    <3>1. PICK j \in 1..Len(r) : k = j + 1
      <4>1. k - 1 \in 1..Len(r) /\ (k - 1) + 1 = k
        BY <1>4, <2>2
      <4> QED
        BY <4>1
    <3>2. t[j + 1] = r[j] /\ (<<m>> \o r)[j + 1] = r[j]
      BY <1>4, <1>5
    <3> QED
      BY <3>1, <3>2
  <2> QED
    BY <2>1, <2>2
<1>7. t = <<m>> \o r
  BY <1>4, <1>5, <1>6, SameSeq
<1> QED
  BY <1>2, <1>3, <1>7

\* The recursive definition has this one solution.
LEMMA AlongIs ==
  ASSUME NEW nx \in [Messages -> Elements], NEW f, Follows(f, nx)
  PROVE  Along(nx) = f
<1> DEFINE Eq(g) == g = [m \in Messages \cup {Null} |-> IF m = Null THEN <<>> ELSE <<m>> \o g[nx[m]]]
<1>1. f \in [Elements -> Seq(Messages)] /\ f[Null] = <<>>
  BY DEF Follows, Elements
<1>2. \A m \in Messages : f[m] = <<m>> \o f[nx[m]]
  BY FollowsCons
<1>3. Eq(f)
  BY <1>1, <1>2 DEF Elements
<1>4. Along(nx) = CHOOSE g : Eq(g)
  BY DEF Along
<1>5. Eq(Along(nx))
  <2> HIDE DEF Eq
  <2> QED
    BY <1>3, <1>4
<1>6. PICK g : g = Along(nx)
  OBVIOUS
<1>7. /\ g = [m \in Elements |-> g[m]] /\ g[Null] = <<>>
      /\ \A m \in Messages : g[m] = <<m>> \o g[nx[m]]
  BY <1>5, <1>6 DEF Elements
<1> HIDE DEF Eq
<1>8. ASSUME NEW x \in Elements, g[x] # f[x] PROVE FALSE
  <2> DEFINE D == {z \in Elements : g[z] # f[z]}
             T == {Len(f[y]) : y \in D}
  <2>1. T \in SUBSET Nat /\ T # {}
    <3>1. \A y \in Elements : Len(f[y]) \in Nat
      BY <1>1
    <3>2. D \subseteq Elements /\ x \in D
      BY <1>8
    <3> HIDE DEF D
    <3>3. Len(f[x]) \in T
      BY <3>2
    <3>4. \A t \in T : t \in Nat
      BY <3>1, <3>2
    <3> QED
      BY <3>3, <3>4
  <2>2. PICK n \in T : \A k \in T : n <= k
    <3> HIDE DEF T
    <3> QED
      BY <2>1, SmallestExists
  <2>3. PICK y \in Elements : g[y] # f[y] /\ Len(f[y]) = n
    OBVIOUS
  <2>4. y # Null
    BY <1>1, <1>7, <2>3
  <2>5. y \in Messages /\ nx[y] \in Elements /\ g[nx[y]] # f[nx[y]]
    BY <1>2, <1>7, <2>3, <2>4 DEF Elements
  <2>6. Len(f[nx[y]]) \in T /\ Len(f[nx[y]]) \in Nat
    BY <1>1, <2>5
  <2>7. Len(f[y]) = Len(f[nx[y]]) + 1
    BY <2>5 DEF Follows
  <2> QED
    BY <2>2, <2>3, <2>6, <2>7
<1> QED
  BY <1>1, <1>6, <1>7, <1>8

LEMMA LinkedFollows ==
  ASSUME NEW nx \in [Messages -> Elements]
  PROVE  Linked(nx) <=> Follows(Along(nx), nx)
<1>1. ASSUME Linked(nx) PROVE Follows(Along(nx), nx)
  <2>1. Along(nx) \in [Elements -> Seq(Messages)] /\ Len(Along(nx)[Null]) = 0
        /\ \A m \in Messages : Along(nx)[m] = <<m>> \o Along(nx)[nx[m]]
    BY <1>1 DEF Linked, Elements
  <2>2. ASSUME NEW m \in Messages
        PROVE  /\ Len(Along(nx)[m]) = Len(Along(nx)[nx[m]]) + 1 /\ Along(nx)[m][1] = m
               /\ \A k \in 1..Len(Along(nx)[nx[m]]) : Along(nx)[m][k + 1] = Along(nx)[nx[m]][k]
    <3>1. PICK r \in Seq(Messages) : r = Along(nx)[nx[m]]
      BY <2>1
    <3>2. Along(nx)[m] = <<m>> \o r
      BY <2>1, <3>1
    <3> QED
      BY <3>1, <3>2, ConsIs
  <2> QED
    BY <2>1, <2>2 DEF Follows
<1>2. ASSUME Follows(Along(nx), nx) PROVE Linked(nx)
  <2>1. \A m \in Messages : Along(nx)[m] = <<m>> \o Along(nx)[nx[m]]
    BY <1>2, FollowsCons
  <2> QED
    BY <1>2, <2>1 DEF Follows, Linked, Elements
<1> QED
  BY <1>1, <1>2

\* What comes from an element on goes on as from any of its elements.
LEMMA RunIs ==
  ASSUME NEW nx \in [Messages -> Elements], NEW f, Follows(f, nx), NEW x \in Elements
  PROVE  \A j \in 1..Len(f[x]) :
           /\ f[x][j] \in Messages /\ Len(f[f[x][j]]) = Len(f[x]) - j + 1
           /\ \A k \in 1..(Len(f[x]) - j + 1) : f[f[x][j]][k] = f[x][j + k - 1]
<1>1. f \in [Elements -> Seq(Messages)] /\ Len(f[Null]) = 0
  BY DEF Follows
<1>2. PICK q \in Seq(Messages) : q = f[x]
  BY <1>1
<1>3. PICK n \in Nat : n = Len(q)
  OBVIOUS
<1>4. \A y \in Messages : /\ f[y] \in Seq(Messages) /\ nx[y] \in Elements /\ f[nx[y]] \in Seq(Messages)
                          /\ Len(f[y]) \in Nat /\ Len(f[nx[y]]) \in Nat /\ Len(f[y]) = Len(f[nx[y]]) + 1
  BY <1>1 DEF Follows, Elements
<1> DEFINE P(j) == /\ Len(f[q[j]]) = n - j + 1
                   /\ \A k \in 1..(n - j + 1) : f[q[j]][k] = q[j + k - 1]
           T == {0} \cup {j \in 1..n : P(j)}
<1>5. ASSUME NEW i \in 1..n, i - 1 \in T PROVE i \in T
  <2> SUFFICES P(i)
    OBVIOUS
  <2>1. CASE i = 1
    <3>1. x \in Messages
      BY <1>1, <1>2, <1>3, <2>1 DEF Elements
    <3>2. q[1] = x
      BY <1>2, <3>1 DEF Follows
    <3>3. f[q[i]] = q /\ n - i + 1 = n /\ \A k \in 1..n : i + k - 1 = k
      BY <1>2, <2>1, <3>2
    <3> QED
      BY <1>3, <3>3
  <2>2. CASE i # 1
    <3>1. PICK h \in 1..n : i = h + 1 /\ P(h)
      <4>1. i - 1 \in 1..n /\ i = (i - 1) + 1 /\ i - 1 # 0
        BY <2>2
      <4>2. P(i - 1)
        BY <1>5, <4>1
      <4> HIDE DEF P
      <4> QED
        BY <4>1, <4>2
    <3>2. PICK y \in Messages : y = q[h]
      BY <1>3
    <3>3. PICK z \in Elements : z = nx[y]
      BY <1>4
    <3>4. f[y] \in Seq(Messages) /\ f[z] \in Seq(Messages) /\ Len(f[y]) = Len(f[z]) + 1
          /\ \A k \in 1..Len(f[z]) : f[y][k + 1] = f[z][k]
      BY <1>4, <3>3 DEF Follows
    <3>5. Len(f[y]) = n - h + 1 /\ \A k \in 1..(n - h + 1) : f[y][k] = q[h + k - 1]
      BY <3>1, <3>2
    <3>6. Len(f[z]) = n - i + 1 /\ Len(f[z]) >= 1
      <4>1. PICK lz \in Nat : lz = Len(f[z])
        BY <3>4
      <4>2. n - h + 1 = lz + 1 /\ i = h + 1
        BY <3>1, <3>4, <3>5, <4>1
      <4>3. lz = n - i + 1 /\ lz >= 1
        BY <4>2
      <4> QED
        BY <4>1, <4>3
    <3>7. z \in Messages /\ f[z][1] = z
      BY <1>1, <3>6 DEF Follows, Elements
    <3>8. \A k \in 1..(n - i + 1) : f[z][k] = q[i + k - 1]
      <4> SUFFICES ASSUME NEW k \in 1..(n - i + 1) PROVE f[z][k] = q[i + k - 1]
        OBVIOUS
      <4>1. f[z][k] = f[y][k + 1]
        BY <3>4, <3>6
      <4>2. PICK l \in 1..(n - h + 1) : l = k + 1 /\ h + l - 1 = i + k - 1
        <5>1. k + 1 \in 1..(n - h + 1) /\ h + (k + 1) - 1 = i + k - 1
          BY <3>1
        <5> QED
          BY <5>1
      <4>3. f[y][l] = q[h + l - 1]
        BY <3>5
      <4> QED
        BY <4>1, <4>2, <4>3
    <3>9. z = q[i]
      <4>1. 1 \in 1..(n - i + 1) /\ i + 1 - 1 = i
        BY <3>6
      <4>2. f[z][1] = q[i + 1 - 1]
        BY <3>8, <4>1
      <4> QED
        BY <3>7, <4>1, <4>2
    <3> QED
      BY <3>6, <3>8, <3>9
  <2> QED
    BY <2>1, <2>2
<1>6. 0..n \subseteq T
  <2>1. 0 \in T
    OBVIOUS
  <2> HIDE DEF T
  <2> QED
    BY <1>5, <2>1, CountUp
<1>7. ASSUME NEW j \in 1..n PROVE q[j] \in Messages /\ P(j)
  <2>1. j \in T /\ j # 0
    BY <1>6
  <2> QED
    BY <1>3, <2>1
<1> QED
  BY <1>2, <1>3, <1>7

\* Its elements are distinct, and each has the link to the next.
LEMMA RunNext ==
  ASSUME NEW nx \in [Messages -> Elements], NEW f, Follows(f, nx), NEW x \in Elements,
         NEW j \in 1..Len(f[x])
  PROVE  /\ \A k \in 1..Len(f[x]) : f[x][k] = f[x][j] => k = j
         /\ nx[f[x][j]] = IF j = Len(f[x]) THEN Null ELSE f[x][j + 1]
<1>1. f \in [Elements -> Seq(Messages)] /\ Len(f[Null]) = 0
  BY DEF Follows
<1>2. PICK q \in Seq(Messages) : q = f[x]
  BY <1>1
<1>3. PICK n \in Nat : n = Len(q)
  OBVIOUS
<1>4. \A k \in 1..n : q[k] \in Messages /\ Len(f[q[k]]) = n - k + 1
  BY <1>2, <1>3, RunIs
<1>5. ASSUME NEW k \in 1..n, q[k] = q[j] PROVE k = j
  <2>1. n - k + 1 = n - j + 1
    BY <1>2, <1>3, <1>4, <1>5
  <2> QED
    BY <1>2, <1>3, <2>1
<1>6. PICK y \in Messages : y = q[j]
  BY <1>2, <1>3, <1>4
<1>7. PICK z \in Elements : z = nx[y]
  OBVIOUS
<1>8. f[y] \in Seq(Messages) /\ f[z] \in Seq(Messages) /\ Len(f[y]) = Len(f[z]) + 1
      /\ \A k \in 1..Len(f[z]) : f[y][k + 1] = f[z][k]
  BY <1>7, FollowsAt
<1>9. z = IF j = n THEN Null ELSE q[j + 1]
  <2>1. Len(f[z]) = n - j
    <3>1. PICK lz \in Nat : lz = Len(f[z])
      BY <1>8
    <3>2. j \in 1..n
      BY <1>2, <1>3
    <3>3. Len(f[q[j]]) = n - j + 1
      BY <1>4, <3>2
    <3>4. lz + 1 = n - j + 1
      BY <1>6, <1>8, <3>1, <3>3
    <3> QED
      BY <3>1, <3>2, <3>4
  <2>2. CASE j = n
    <3>1. ASSUME z \in Messages PROVE FALSE
      <4>1. Len(f[z]) = Len(f[nx[z]]) + 1 /\ f[nx[z]] \in Seq(Messages)
        BY <1>1, <3>1 DEF Follows
      <4> QED
        BY <2>1, <2>2, <4>1
    <3> QED
      BY <2>2, <3>1 DEF Elements
  <2>3. CASE j # n
    <3>1. 1 \in 1..Len(f[z]) /\ 2 \in 1..(n - j + 1) /\ j + 2 - 1 = j + 1
      BY <1>2, <1>3, <2>1, <2>3
    <3>2. z \in Messages /\ f[z][1] = z
      BY <1>1, <3>1 DEF Follows, Elements
    <3>3. f[y][1 + 1] = f[z][1] /\ 1 + 1 = 2
      BY <1>8, <3>1
    <3>4. f[y][2] = q[j + 2 - 1]
      BY <1>2, <1>3, <1>6, <3>1, RunIs
    <3> QED
      BY <2>3, <3>1, <3>2, <3>3, <3>4
  <2> QED
    BY <2>2, <2>3
<1> QED
  BY <1>2, <1>3, <1>5, <1>6, <1>7, <1>9

\* Being in a sequence.
LEMMA InSeq ==
  ASSUME NEW q \in Seq(Messages), NEW m
  PROVE  m \in ToSet(q) <=> \E k \in 1..Len(q) : q[k] = m
BY DEF ToSet

\* What comes from an element on is this element and what comes from the next on.
LEMMA RunMembers ==
  ASSUME NEW nx \in [Messages -> Elements], NEW f, Follows(f, nx), NEW x \in Messages
  PROVE  \A y : y \in ToSet(f[x]) <=> y = x \/ y \in ToSet(f[nx[x]])
<1>1. f[x] \in Seq(Messages) /\ f[nx[x]] \in Seq(Messages) /\ Len(f[x]) = Len(f[nx[x]]) + 1
      /\ f[x][1] = x /\ \A k \in 1..Len(f[nx[x]]) : f[x][k + 1] = f[nx[x]][k]
  BY DEF Follows, Elements
<1>2. PICK q \in Seq(Messages), r \in Seq(Messages) : q = f[x] /\ r = f[nx[x]]
  BY <1>1
<1>3. Len(r) \in Nat /\ Len(q) = Len(r) + 1 /\ q[1] = x /\ \A k \in 1..Len(r) : q[k + 1] = r[k]
  BY <1>1, <1>2
<1>4. ASSUME NEW k \in 1..Len(q) PROVE q[k] = x \/ q[k] \in ToSet(r)
  <2>1. CASE k = 1
    BY <1>3, <2>1
  <2>2. CASE k # 1
    <3>1. PICK j \in 1..Len(r) : k = j + 1
      <4>1. k - 1 \in 1..Len(r) /\ (k - 1) + 1 = k
        BY <1>3, <2>2
      <4> QED
        BY <4>1
    <3> QED
      BY <1>3, <3>1, InSeq
  <2> QED
    BY <2>1, <2>2
<1>5. x \in ToSet(q)
  <2>1. 1 \in 1..Len(q)
    BY <1>3
  <2> QED
    BY <1>3, <2>1, InSeq
<1>6. ASSUME NEW y \in ToSet(r) PROVE y \in ToSet(q)
  <2>1. PICK k \in 1..Len(r) : r[k] = y
    BY InSeq
  <2>2. k + 1 \in 1..Len(q) /\ q[k + 1] = y
    BY <1>3, <2>1
  <2> QED
    BY <2>2, InSeq
<1> QED
  BY <1>2, <1>4, <1>5, <1>6, InSeq

\* The message m is linked behind e.
Extended(f, e, m) == [x \in Elements |-> IF e \in ToSet(f[x]) THEN Append(f[x], m) ELSE f[x]]

LEMMA AppendIs ==
  ASSUME NEW q \in Seq(Messages), NEW m \in Messages
  PROVE  /\ Append(q, m) \in Seq(Messages) /\ Len(Append(q, m)) = Len(q) + 1
         /\ Append(q, m)[Len(q) + 1] = m /\ \A k \in 1..Len(q) : Append(q, m)[k] = q[k]
OBVIOUS

LEMMA LinkBehind ==
  ASSUME NEW nx \in [Messages -> Elements], NEW f, Follows(f, nx),
         NEW e \in Messages, NEW m \in Messages, e # m, nx[e] = Null, nx[m] = Null
  PROVE  Follows(Extended(f, e, m), [nx EXCEPT ![e] = m])
<1> DEFINE g == Extended(f, e, m)
           ny == [nx EXCEPT ![e] = m]
<1>1. f \in [Elements -> Seq(Messages)] /\ Len(f[Null]) = 0 /\ Null \in Elements
  BY DEF Follows, Elements
<1>2. ToSet(f[Null]) = {}
  <2>1. \A k \in 1..Len(f[Null]) : FALSE
    BY <1>1
  <2> QED
    BY <1>1, <2>1, InSeq
<1>3. \A x \in Elements : g[x] = IF e \in ToSet(f[x]) THEN Append(f[x], m) ELSE f[x]
  BY DEF Extended
<1>4. g \in [Elements -> Seq(Messages)]
  <2>1. \A x \in Elements : f[x] \in Seq(Messages) /\ Append(f[x], m) \in Seq(Messages)
    BY <1>1, AppendIs
  <2> QED
    BY <2>1 DEF Extended
<1>5. g[Null] = f[Null]
  BY <1>1, <1>2, <1>3
<1>6. ASSUME NEW y \in Messages
      PROVE  /\ Len(g[y]) = Len(g[ny[y]]) + 1 /\ g[y][1] = y
             /\ \A k \in 1..Len(g[ny[y]]) : g[y][k + 1] = g[ny[y]][k]
  <2>1. y \in Elements /\ m \in Elements
    BY DEF Elements
  <2>2. CASE y = e
    <3>1. f[e] \in Seq(Messages) /\ Len(f[e]) = 1 /\ f[e][1] = e /\ e \in ToSet(f[e])
      <4>1. f[e] \in Seq(Messages) /\ Len(f[e]) = Len(f[nx[e]]) + 1 /\ f[e][1] = e
        BY FollowsAt
      <4>2. e \in ToSet(f[e]) <=> e = e \/ e \in ToSet(f[nx[e]])
        BY RunMembers
      <4> QED
        BY <1>1, <1>2, <4>1, <4>2
    <3>2. f[m] \in Seq(Messages) /\ Len(f[m]) = 1 /\ f[m][1] = m /\ e \notin ToSet(f[m])
      <4>1. f[m] \in Seq(Messages) /\ Len(f[m]) = Len(f[nx[m]]) + 1 /\ f[m][1] = m
        BY FollowsAt
      <4>2. e \in ToSet(f[m]) <=> e = m \/ e \in ToSet(f[nx[m]])
        BY RunMembers
      <4> QED
        BY <1>1, <1>2, <4>1, <4>2
    <3>3. g[y] = Append(f[e], m) /\ ny[y] = m /\ g[m] = f[m]
      BY <1>3, <2>1, <2>2, <3>1, <3>2
    <3> HIDE DEF g, ny
    <3>4. Len(g[y]) = 2 /\ g[y][1] = e /\ g[y][2] = m
      BY <3>1, <3>3, AppendIs
    <3> QED
      BY <2>2, <3>2, <3>3, <3>4
  <2>3. CASE y # e
    <3>1. PICK z \in Elements : z = nx[y] /\ z = ny[y]
      BY <2>3
    <3>2. PICK q \in Seq(Messages), r \in Seq(Messages) : q = f[y] /\ r = f[z]
      BY <1>1, <2>1
    <3>3. Len(r) \in Nat /\ Len(q) = Len(r) + 1 /\ q[1] = y /\ \A k \in 1..Len(r) : q[k + 1] = r[k]
      <4>1. /\ Len(f[nx[y]]) \in Nat /\ Len(f[y]) = Len(f[nx[y]]) + 1 /\ f[y][1] = y
            /\ \A k \in 1..Len(f[nx[y]]) : f[y][k + 1] = f[nx[y]][k]
        BY FollowsAt
      <4> QED
        BY <3>1, <3>2, <4>1
    <3>4. e \in ToSet(q) <=> e \in ToSet(r)
      BY <2>3, <3>1, <3>2, RunMembers
    <3>5. CASE e \in ToSet(r)
      <4>1. g[y] = Append(q, m) /\ g[z] = Append(r, m)
        BY <1>3, <2>1, <3>2, <3>4, <3>5
      <4>2. PICK u \in Seq(Messages), v \in Seq(Messages) : u = g[y] /\ v = g[z]
        BY <1>4, <2>1
      <4> HIDE DEF g, ny
      <4>3. Len(u) = Len(q) + 1 /\ u[Len(q) + 1] = m /\ \A k \in 1..Len(q) : u[k] = q[k]
        BY <4>1, <4>2, AppendIs
      <4>4. Len(v) = Len(r) + 1 /\ v[Len(r) + 1] = m /\ \A k \in 1..Len(r) : v[k] = r[k]
        BY <4>1, <4>2, AppendIs
      <4>5. Len(u) = Len(v) + 1 /\ u[1] = y
        BY <3>3, <4>3, <4>4
      <4>6. ASSUME NEW k \in 1..Len(v) PROVE u[k + 1] = v[k]
        <5>1. CASE k = Len(r) + 1
          BY <3>3, <4>3, <4>4, <5>1
        <5>2. CASE k # Len(r) + 1
          <6>1. k \in 1..Len(r) /\ k + 1 \in 1..Len(q)
            BY <3>3, <4>4, <5>2
          <6> QED
            BY <3>3, <4>3, <4>4, <6>1
        <5> QED
          BY <5>1, <5>2
      <4> QED
        BY <3>1, <4>2, <4>5, <4>6
    <3>6. CASE e \notin ToSet(r)
      <4>1. g[y] = q /\ g[z] = r
        BY <1>3, <2>1, <3>2, <3>4, <3>6
      <4> HIDE DEF g, ny
      <4> QED
        BY <3>1, <3>3, <4>1
    <3> QED
      BY <3>5, <3>6
  <2> QED
    BY <2>2, <2>3
<1> QED
  BY <1>1, <1>4, <1>5, <1>6 DEF Follows

\* The elements of T are freed: they have no link, and nobody else has one to them.
Freed(f, T) == [x \in Elements |-> IF x \in T THEN <<x>> ELSE f[x]]
WithoutLinks(nx, T) == [x \in Messages |-> IF x \in T THEN Null ELSE nx[x]]

LEMMA FreeAll ==
  ASSUME NEW nx \in [Messages -> Elements], NEW f, Follows(f, nx), NEW T \in SUBSET Messages,
         \A x \in Messages : x \notin T => nx[x] \notin T
  PROVE  Follows(Freed(f, T), WithoutLinks(nx, T))
<1> USE DEF Freed, WithoutLinks
<1> DEFINE g == Freed(f, T)
           ny == WithoutLinks(nx, T)
<1>1. f \in [Elements -> Seq(Messages)] /\ Len(f[Null]) = 0 /\ Null \in Elements /\ Null \notin T
  BY DEF Follows, Elements
<1>2. g \in [Elements -> Seq(Messages)] /\ g[Null] = f[Null]
  BY <1>1
<1>3. ASSUME NEW y \in Messages
      PROVE  /\ Len(g[y]) = Len(g[ny[y]]) + 1 /\ g[y][1] = y
             /\ \A k \in 1..Len(g[ny[y]]) : g[y][k + 1] = g[ny[y]][k]
  <2>1. y \in Elements
    BY DEF Elements
  <2>2. CASE y \in T
    <3>1. g[y] = <<y>> /\ ny[y] = Null
      BY <2>1, <2>2
    <3> HIDE DEF g, ny
    <3> QED
      BY <1>1, <1>2, <3>1
  <2>3. CASE y \notin T
    <3>1. ny[y] = nx[y] /\ nx[y] \notin T /\ nx[y] \in Elements
      BY <2>3
    <3>2. g[y] = f[y] /\ g[ny[y]] = f[nx[y]]
      BY <2>1, <2>3, <3>1
    <3> HIDE DEF g, ny
    <3> QED
      BY <3>1, <3>2, FollowsAt
  <2> QED
    BY <2>2, <2>3
<1> QED
  BY <1>1, <1>2, <1>3 DEF Follows

\* The message m is taken out.
Position(q, m) == CHOOSE k \in 1..Len(q) : q[k] = m

Shortened(f, m) ==
  [x \in Elements |-> IF x = m THEN <<m>>
                      ELSE IF m \in ToSet(f[x]) THEN RemoveAt(f[x], Position(f[x], m)) ELSE f[x]]

Bypassed(nx, m) ==
  [x \in Messages |-> IF x = m THEN Null ELSE IF nx[x] = m THEN nx[m] ELSE nx[x]]

\* A message is at one position.
LEMMA PositionIs ==
  ASSUME NEW nx \in [Messages -> Elements], NEW f, Follows(f, nx), NEW x \in Elements, NEW k \in 1..Len(f[x])
  PROVE  Position(f[x], f[x][k]) = k
<1>1. Position(f[x], f[x][k]) \in 1..Len(f[x]) /\ f[x][Position(f[x], f[x][k])] = f[x][k]
  BY DEF Position
<1> QED
  BY <1>1, RunNext

\* No message comes behind itself.
LEMMA NotBehind ==
  ASSUME NEW nx \in [Messages -> Elements], NEW f, Follows(f, nx), NEW m \in Messages
  PROVE  m \notin ToSet(f[nx[m]]) /\ nx[m] # m
<1>1. /\ m \in Elements /\ nx[m] \in Elements /\ f[m] \in Seq(Messages) /\ f[nx[m]] \in Seq(Messages)
      /\ Len(f[m]) \in Nat /\ Len(f[nx[m]]) \in Nat
      /\ Len(f[m]) = Len(f[nx[m]]) + 1 /\ f[m][1] = m
      /\ \A k \in 1..Len(f[nx[m]]) : f[m][k + 1] = f[nx[m]][k]
  BY FollowsAt
<1>2. ASSUME m \in ToSet(f[nx[m]]) PROVE FALSE
  <2>1. PICK k \in 1..Len(f[nx[m]]) : f[nx[m]][k] = m
    BY <1>1, <1>2, InSeq
  <2>2. k + 1 \in 1..Len(f[m]) /\ 1 \in 1..Len(f[m]) /\ f[m][k + 1] = f[m][1] /\ k + 1 # 1
    BY <1>1, <2>1
  <2> QED
    BY <1>1, <2>2, RunNext
<1>3. nx[m] # m
  BY <1>1
<1> QED
  BY <1>2, <1>3

\* What is left after the message at position p is taken out.
Removed(u, q, p) ==
  /\ u \in Seq(Messages) /\ Len(u) = Len(q) - 1
  /\ \A j \in 1..(Len(q) - 1) : u[j] = IF j < p THEN q[j] ELSE q[j + 1]

LEMMA RemovedIs ==
  ASSUME NEW q \in Seq(Messages), NEW p \in 1..Len(q)
  PROVE  Removed(RemoveAt(q, p), q, p)
BY RemoveAtIs DEF Removed

LEMMA CutOut ==
  ASSUME NEW nx \in [Messages -> Elements], NEW f, Follows(f, nx), NEW m \in Messages
  PROVE  Follows(Shortened(f, m), Bypassed(nx, m))
<1> DEFINE g == Shortened(f, m)
           ny == Bypassed(nx, m)
<1>1. f \in [Elements -> Seq(Messages)] /\ Len(f[Null]) = 0 /\ Null \in Elements /\ Null # m
  BY DEF Follows, Elements
<1>2. ToSet(f[Null]) = {}
  <2>1. \A k \in 1..Len(f[Null]) : FALSE
    BY <1>1
  <2> QED
    BY <1>1, <2>1, InSeq
<1>3. \A x \in Elements : /\ x = m => g[x] = <<m>>
                          /\ x # m /\ m \in ToSet(f[x]) => g[x] = RemoveAt(f[x], Position(f[x], m))
                          /\ x # m /\ m \notin ToSet(f[x]) => g[x] = f[x]
  BY DEF Shortened
<1>4. \A x \in Messages : ny[x] = IF x = m THEN Null ELSE IF nx[x] = m THEN nx[m] ELSE nx[x]
  BY DEF Bypassed
<1>5. g \in [Elements -> Seq(Messages)]
  <2>1. ASSUME NEW x \in Elements, m \in ToSet(f[x])
        PROVE  RemoveAt(f[x], Position(f[x], m)) \in Seq(Messages)
    <3>1. PICK k \in 1..Len(f[x]) : f[x][k] = m
      BY <1>1, <2>1, InSeq
    <3>2. Position(f[x], m) = k /\ f[x] \in Seq(Messages)
      BY <1>1, <3>1, PositionIs
    <3> QED
      BY <3>1, <3>2, RemoveAtIs
  <2>2. \A x \in Elements : f[x] \in Seq(Messages)
    BY <1>1
  <2>3. <<m>> \in Seq(Messages)
    OBVIOUS
  <2>4. \A x \in Elements : g[x] \in Seq(Messages)
    <3> HIDE DEF g
    <3> QED
      BY <1>3, <2>1, <2>2, <2>3
  <2>5. g = [x \in Elements |-> g[x]]
    BY DEF Shortened
  <2> HIDE DEF g
  <2> QED
    BY <2>4, <2>5
<1>6. g[Null] = f[Null]
  BY <1>1, <1>2, <1>3
<1> HIDE DEF g, ny
<1>7. ASSUME NEW y \in Messages
      PROVE  /\ Len(g[y]) = Len(g[ny[y]]) + 1 /\ g[y][1] = y
             /\ \A k \in 1..Len(g[ny[y]]) : g[y][k + 1] = g[ny[y]][k]
  <2>1. y \in Elements /\ m \in Elements
    BY DEF Elements
  <2>2. CASE y = m
    <3>1. g[y] = <<y>> /\ ny[y] = Null
      BY <1>3, <1>4, <2>1, <2>2
    <3> QED
      BY <1>1, <1>6, <3>1
  <2>3. PICK z \in Elements : z = nx[y]
    OBVIOUS
  <2>4. PICK q \in Seq(Messages), r \in Seq(Messages) : q = f[y] /\ r = f[z]
    BY <1>1, <2>1
  <2>5. Len(r) \in Nat /\ Len(q) = Len(r) + 1 /\ q[1] = y /\ \A k \in 1..Len(r) : q[k + 1] = r[k]
    <3>1. /\ Len(f[nx[y]]) \in Nat /\ Len(f[y]) = Len(f[nx[y]]) + 1 /\ f[y][1] = y
          /\ \A k \in 1..Len(f[nx[y]]) : f[y][k + 1] = f[nx[y]][k]
      BY FollowsAt
    <3> QED
      BY <2>3, <2>4, <3>1
  <2>6. CASE y # m /\ z = m
    <3>1. PICK w \in Elements : w = nx[m] /\ w # m /\ m \notin ToSet(f[w])
      BY NotBehind
    <3>2. PICK t \in Seq(Messages) : t = f[w]
      BY <1>1
    <3>3. Len(t) \in Nat /\ Len(r) = Len(t) + 1 /\ r[1] = m /\ \A k \in 1..Len(t) : r[k + 1] = t[k]
      <4>1. /\ Len(f[nx[m]]) \in Nat /\ Len(f[m]) = Len(f[nx[m]]) + 1 /\ f[m][1] = m
            /\ \A k \in 1..Len(f[nx[m]]) : f[m][k + 1] = f[nx[m]][k]
        BY FollowsAt
      <4> QED
        BY <2>4, <2>6, <3>1, <3>2, <4>1
    <3>4. ny[y] = w /\ g[w] = t
      BY <1>3, <1>4, <2>3, <2>6, <3>1, <3>2
    <3>5. 2 \in 1..Len(q) /\ q[2] = m
      <4>1. 1 \in 1..Len(r) /\ 2 \in 1..Len(q) /\ 1 + 1 = 2
        BY <2>5, <3>3
      <4>2. q[1 + 1] = r[1]
        BY <2>5, <4>1
      <4> QED
        BY <3>3, <4>1, <4>2
    <3>6. g[y] = RemoveAt(q, 2)
      <4>1. m \in ToSet(f[y]) /\ Position(f[y], m) = 2
        BY <2>1, <2>4, <3>5, InSeq, PositionIs
      <4> QED
        BY <1>3, <2>1, <2>4, <2>6, <4>1
    <3>7. PICK u \in Seq(Messages) : u = g[y]
      BY <1>5, <2>1
    <3>8. Len(u) = Len(q) - 1 /\ \A j \in 1..(Len(q) - 1) : u[j] = IF j < 2 THEN q[j] ELSE q[j + 1]
      <4>1. Removed(RemoveAt(q, 2), q, 2)
        BY <3>5, RemovedIs
      <4> QED
        BY <3>6, <3>7, <4>1 DEF Removed
    <3>9. Len(u) = Len(t) + 1 /\ u[1] = y
      <4>1. 1 \in 1..(Len(q) - 1) /\ Len(q) - 1 = Len(t) + 1
        BY <2>5, <3>3
      <4> QED
        BY <2>5, <3>8, <4>1
    <3>10. ASSUME NEW k \in 1..Len(t) PROVE u[k + 1] = t[k]
      <4>1. k + 1 \in 1..(Len(q) - 1) /\ ~(k + 1 < 2) /\ k + 1 \in 1..Len(r)
        BY <2>5, <3>3
      <4>2. u[k + 1] = q[(k + 1) + 1]
        BY <3>8, <4>1
      <4> QED
        BY <2>5, <3>3, <4>1, <4>2
    <3> QED
      BY <3>4, <3>7, <3>9, <3>10
  <2>7. CASE y # m /\ z # m
    <3>1. ny[y] = z /\ (m \in ToSet(q) <=> m \in ToSet(r))
      BY <1>4, <2>3, <2>4, <2>7, RunMembers
    <3>2. CASE m \in ToSet(r)
      <4>1. PICK p \in 1..Len(r) : r[p] = m
        BY <3>2, InSeq
      <4>2. p + 1 \in 1..Len(q) /\ q[p + 1] = m
        BY <2>5, <4>1
      <4>3. g[z] = RemoveAt(r, p)
        <5>1. Position(f[z], m) = p
          BY <2>4, <4>1, PositionIs
        <5> QED
          BY <1>3, <2>4, <2>7, <3>2, <5>1
      <4>4. g[y] = RemoveAt(q, p + 1)
        <5>1. Position(f[y], m) = p + 1
          BY <2>1, <2>4, <4>2, PositionIs
        <5> QED
          BY <1>3, <2>1, <2>4, <2>7, <3>1, <3>2, <5>1
      <4>5. PICK u \in Seq(Messages), v \in Seq(Messages) : u = g[y] /\ v = g[z]
        BY <1>5, <2>1
      <4>6. Len(v) = Len(r) - 1 /\ \A j \in 1..(Len(r) - 1) : v[j] = IF j < p THEN r[j] ELSE r[j + 1]
        <5>1. Removed(RemoveAt(r, p), r, p)
          BY <4>1, RemovedIs
        <5> QED
          BY <4>3, <4>5, <5>1 DEF Removed
      <4>7. Len(u) = Len(q) - 1 /\ \A j \in 1..(Len(q) - 1) : u[j] = IF j < p + 1 THEN q[j] ELSE q[j + 1]
        <5>1. Removed(RemoveAt(q, p + 1), q, p + 1)
          BY <4>2, RemovedIs
        <5> QED
          BY <4>4, <4>5, <5>1 DEF Removed
      <4>8. Len(u) = Len(v) + 1 /\ u[1] = y
        <5>1. 1 \in 1..(Len(q) - 1) /\ 1 < p + 1 /\ Len(q) - 1 = (Len(r) - 1) + 1
          BY <2>5, <4>1
        <5> QED
          BY <2>5, <4>6, <4>7, <5>1
      <4>9. ASSUME NEW k \in 1..Len(v) PROVE u[k + 1] = v[k]
        <5>1. k + 1 \in 1..(Len(q) - 1) /\ k \in 1..(Len(r) - 1) /\ k + 1 \in 1..Len(r) /\ k \in 1..Len(r)
          BY <2>5, <4>6
        <5>2. u[k + 1] = IF k + 1 < p + 1 THEN q[k + 1] ELSE q[(k + 1) + 1]
          BY <4>7, <5>1
        <5>3. v[k] = IF k < p THEN r[k] ELSE r[k + 1]
          BY <4>6, <5>1
        <5>4. q[k + 1] = r[k] /\ q[(k + 1) + 1] = r[k + 1]
          BY <2>5, <5>1
        <5>5. k + 1 < p + 1 <=> k < p
          BY <5>1
        <5> QED
          BY <5>2, <5>3, <5>4, <5>5
      <4> QED
        BY <3>1, <4>5, <4>8, <4>9
    <3>3. CASE m \notin ToSet(r)
      <4>1. g[y] = q /\ g[z] = r
        BY <1>3, <2>1, <2>4, <2>7, <3>1, <3>3
      <4> QED
        BY <2>5, <3>1, <4>1
    <3> QED
      BY <3>2, <3>3
  <2> QED
    BY <2>2, <2>6, <2>7
<1> QED
  BY <1>1, <1>5, <1>6, <1>7 DEF Follows, g, ny

-----------------------------------------------------------------------------
(* The queues                                                              *)

QueuesTyped ==
  /\ list_ \in [Instances -> Elements] /\ end_el_ \in [Instances -> Elements]
  /\ next \in [Messages -> Elements] /\ enqueued \in [Messages -> BOOLEAN]

\* The chain of a queue, in terms of what follows from its first element on.
LEMMA ChainIs ==
  ASSUME QueuesTyped, Linked(next), NEW i \in Instances
  PROVE  /\ Follows(Along(next), next) /\ list_[i] \in Elements
         /\ Chain(i) = Along(next)[list_[i]] /\ Chain(i) \in Seq(Messages) /\ Len(Chain(i)) \in Nat
         /\ list_[i] = Null <=> Chain(i) = <<>>
         /\ list_[i] # Null => list_[i] \in Messages /\ Len(Chain(i)) >= 1 /\ Chain(i)[1] = list_[i]
         /\ \A m : Queued(i, m) <=> \E k \in 1..Len(Chain(i)) : Chain(i)[k] = m
<1>1. PICK nx \in [Messages -> Elements] : nx = next
  BY DEF QueuesTyped
<1>2. PICK f : f = Along(next)
  OBVIOUS
<1>3. PICK x \in Elements : x = list_[i]
  BY DEF QueuesTyped
<1>4. Follows(f, nx)
  <2>1. Linked(nx) /\ f = Along(nx)
    BY <1>1, <1>2
  <2> QED
    BY <2>1, LinkedFollows
<1>5. f[x] \in Seq(Messages) /\ Len(f[Null]) = 0
  BY <1>4 DEF Follows
<1>6. x # Null => x \in Messages /\ Len(f[x]) >= 1 /\ f[x][1] = x
  <2> SUFFICES ASSUME x # Null PROVE x \in Messages /\ Len(f[x]) >= 1 /\ f[x][1] = x
    OBVIOUS
  <2>1. x \in Messages
    BY DEF Elements
  <2>2. Len(f[nx[x]]) \in Nat /\ Len(f[x]) = Len(f[nx[x]]) + 1 /\ f[x][1] = x
    BY <1>4, <2>1, FollowsAt
  <2> QED
    BY <2>1, <2>2
<1>7. x = Null <=> f[x] = <<>>
  BY <1>5, <1>6
<1>8. Chain(i) = f[x]
  BY <1>2, <1>3 DEF Chain
<1>9. \A m : Queued(i, m) <=> \E k \in 1..Len(f[x]) : f[x][k] = m
  BY <1>5, <1>8, InSeq DEF Queued
<1> QED
  BY <1>1, <1>2, <1>3, <1>4, <1>5, <1>6, <1>7, <1>8, <1>9

\* The positions of a queue: no message is twice in it, links go from each to the next.
LEMMA ChainLinks ==
  ASSUME QueuesTyped, Linked(next), NEW i \in Instances, NEW j \in 1..Len(Chain(i))
  PROVE  /\ Chain(i)[j] \in Messages
         /\ \A k \in 1..Len(Chain(i)) : Chain(i)[k] = Chain(i)[j] => k = j
         /\ next[Chain(i)[j]] = IF j = Len(Chain(i)) THEN Null ELSE Chain(i)[j + 1]
<1>1. /\ Follows(Along(next), next) /\ list_[i] \in Elements
      /\ Chain(i) = Along(next)[list_[i]] /\ Chain(i) \in Seq(Messages)
  BY ChainIs
<1>2. PICK nx \in [Messages -> Elements], x \in Elements : nx = next /\ x = list_[i]
  BY <1>1 DEF QueuesTyped
<1> DEFINE f == Along(nx)
<1>3. Follows(f, nx) /\ Chain(i) = f[x] /\ f[x] \in Seq(Messages) /\ j \in 1..Len(f[x])
  BY <1>1, <1>2
<1> HIDE DEF f
<1>4. /\ \A k \in 1..Len(f[x]) : f[x][k] = f[x][j] => k = j
      /\ nx[f[x][j]] = IF j = Len(f[x]) THEN Null ELSE f[x][j + 1]
  BY <1>3, RunNext
<1>5. f[x][j] \in Messages
  BY <1>3
<1> QED
  BY <1>2, <1>3, <1>4, <1>5

\* What is queued is linked to what is queued in the same queue.
LEMMA NextQueued ==
  ASSUME QueuesTyped, Linked(next), NEW i \in Instances, NEW m \in Messages, Queued(i, m), next[m] # Null
  PROVE  Queued(i, next[m])
<1>1. PICK k \in 1..Len(Chain(i)) : Chain(i)[k] = m
  BY ChainIs
<1>2. next[m] = IF k = Len(Chain(i)) THEN Null ELSE Chain(i)[k + 1]
  BY <1>1, ChainLinks
<1>3. k + 1 \in 1..Len(Chain(i)) /\ Chain(i)[k + 1] = next[m]
  <2>1. Len(Chain(i)) \in Nat
    BY ChainIs
  <2> QED
    BY <1>2, <2>1
<1> QED
  BY <1>3, ChainIs

\* The last of a queue.
LEMMA LastOfChain ==
  ASSUME QueuesTyped, Linked(next), NEW i \in Instances, list_[i] # Null
  PROVE  /\ Len(Chain(i)) \in 1..Len(Chain(i)) /\ Last(Chain(i)) = Chain(i)[Len(Chain(i))]
         /\ Last(Chain(i)) \in Messages /\ Queued(i, Last(Chain(i))) /\ next[Last(Chain(i))] = Null
<1>1. Len(Chain(i)) \in Nat /\ Len(Chain(i)) >= 1
  BY ChainIs
<1>2. Len(Chain(i)) \in 1..Len(Chain(i)) /\ Last(Chain(i)) = Chain(i)[Len(Chain(i))]
  BY <1>1 DEF Last
<1> QED
  BY <1>2, ChainIs, ChainLinks

LEMMA LinkedIs ==
  ASSUME NEW nx \in [Messages -> Elements], NEW f, Follows(f, nx)
  PROVE  Linked(nx) /\ Along(nx) = f
<1>1. Along(nx) = f
  BY AlongIs
<1> QED
  BY <1>1, LinkedFollows

\* The chains after an append: the message is behind the others, unless the queue is torn.
LEMMA LinkChains ==
  ASSUME QueuesTyped, QueuesAgree, NEW i \in Instances, NEW m \in Messages, ~enqueued[m],
         enqueued' = [enqueued EXCEPT ![m] = TRUE], Link(i, m)
  PROVE  /\ QueuesTyped' /\ Linked(next)'
         /\ \A j \in Instances : Chain(j)' = IF j = i /\ ~Torn(i) THEN Append(Chain(j), m) ELSE Chain(j)
         /\ \A x \in Messages : next'[x] # Null => next[x] # Null \/ Queued(i, x)
<1>1. (\A j \in Instances : ~Queued(j, m)) /\ next[m] = Null /\ Linked(next)
  BY DEF QueuesAgree
<1>2. PICK nx \in [Messages -> Elements] : nx = next
  BY DEF QueuesTyped
<1> DEFINE f == Along(nx)
<1>3. Follows(f, nx) /\ \A j \in Instances : list_[j] \in Elements /\ Chain(j) = f[list_[j]]
  BY <1>1, <1>2, ChainIs
<1> HIDE DEF f
<1>4. QueuesTyped'
  <2>1. m \in Elements
    BY DEF Elements
  <2>2. next' \in [Messages -> Elements] /\ list_' \in [Instances -> Elements]
        /\ end_el_' \in [Instances -> Elements]
    BY <2>1 DEF Link, QueuesTyped
  <2> QED
    BY <2>2 DEF QueuesTyped
<1>5. CASE list_[i] = Null
  <2>1. next' = nx /\ list_' = [list_ EXCEPT ![i] = m] /\ ~Torn(i)
    BY <1>2, <1>5 DEF Link, Torn
  <2>2. Linked(next)' /\ \A j \in Instances : Chain(j)' = f[list_'[j]]
    BY <1>1, <1>2, <2>1 DEF Chain, f
  <2>3. f[m] = <<m>>
    <3>1. f[m] = <<m>> \o f[nx[m]]
      BY <1>3, FollowsCons
    <3>2. f[nx[m]] = <<>>
      BY <1>1, <1>2, <1>3 DEF Follows, Elements
    <3> QED
      BY <3>1, <3>2
  <2>4. Chain(i) = <<>>
    BY <1>1, <1>5, ChainIs
  <2>5. list_'[i] = m /\ \A j \in Instances : j # i => list_'[j] = list_[j]
    BY <2>1 DEF QueuesTyped
  <2>6. Chain(i)' = Append(Chain(i), m)
    <3>1. Append(<<>>, m) = <<m>>
      OBVIOUS
    <3>2. Chain(i)' = <<m>>
      BY <2>2, <2>3, <2>5
    <3> QED
      BY <2>4, <3>1, <3>2
  <2> QED
    BY <1>2, <1>3, <1>4, <2>1, <2>2, <2>5, <2>6
<1>6. CASE list_[i] # Null /\ Queued(i, end_el_[i])
  <2>1. PICK e \in Messages : e = end_el_[i] /\ e = Last(Chain(i)) /\ nx[e] = Null /\ Queued(i, e)
    <3>1. end_el_[i] = Last(Chain(i))
      BY <1>6 DEF QueuesAgree
    <3> QED
      BY <1>1, <1>2, <1>6, <3>1, LastOfChain
  <2>2. e # m /\ ~Torn(i)
    BY <1>1, <2>1 DEF Torn
  <2>3. next' = [nx EXCEPT ![e] = m] /\ list_' = list_
    BY <1>2, <1>6, <2>1 DEF Link
  <2>4. PICK ny \in [Messages -> Elements] : ny = [nx EXCEPT ![e] = m]
    BY DEF Elements
  <2>5. Linked(ny) /\ Along(ny) = Extended(f, e, m)
    <3>1. Follows(Extended(f, e, m), ny)
      BY <1>1, <1>2, <1>3, <2>1, <2>2, <2>4, LinkBehind
    <3> QED
      BY <3>1, LinkedIs
  <2>6. next' = ny
    BY <2>3, <2>4
  <2>7. Linked(next)' /\ \A j \in Instances : Chain(j)' = Extended(f, e, m)[list_[j]]
    BY <2>3, <2>5, <2>6 DEF Chain
  <2>8. \A j \in Instances : Queued(j, e) <=> j = i
    BY <2>1 DEF QueuesAgree
  <2>9. ASSUME NEW j \in Instances
        PROVE  Chain(j)' = IF j = i THEN Append(Chain(j), m) ELSE Chain(j)
    <3>1. Chain(j)' = IF e \in ToSet(f[list_[j]]) THEN Append(f[list_[j]], m) ELSE f[list_[j]]
      BY <1>3, <2>7 DEF Extended
    <3>2. Chain(j)' = IF Queued(j, e) THEN Append(Chain(j), m) ELSE Chain(j)
      BY <1>3, <3>1 DEF Queued
    <3> QED
      BY <2>8, <3>2
  <2>10. \A x \in Messages : next'[x] # Null => next[x] # Null \/ Queued(i, x)
    BY <1>2, <2>1, <2>3
  <2> QED
    BY <1>4, <2>2, <2>7, <2>9, <2>10
<1>7. CASE list_[i] # Null /\ ~Queued(i, end_el_[i])
  <2>1. next' = next /\ list_' = list_
    BY <1>7 DEF Link
  <2>2. Torn(i)
    BY <1>1, <1>7, LastOfChain DEF Torn
  <2>3. Linked(next)' /\ \A j \in Instances : Chain(j)' = Chain(j)
    BY <1>1, <2>1 DEF Chain
  <2> QED
    BY <1>4, <2>1, <2>2, <2>3
<1> QED
  BY <1>5, <1>6, <1>7

\* An element behind a queue is in it, at its end.
LEMMA AppendedIs ==
  ASSUME NEW q \in Seq(Messages), NEW m \in Messages
  PROVE  /\ \A x : x \in ToSet(Append(q, m)) <=> x \in ToSet(q) \/ x = m
         /\ Last(Append(q, m)) = m
<1>1. PICK u \in Seq(Messages) : u = Append(q, m)
  BY AppendIs
<1>2. Len(q) \in Nat /\ Len(u) = Len(q) + 1 /\ u[Len(q) + 1] = m /\ \A k \in 1..Len(q) : u[k] = q[k]
  BY <1>1, AppendIs
<1>3. Last(u) = m
  BY <1>2 DEF Last
<1>4. ASSUME NEW k \in 1..Len(u) PROVE u[k] \in ToSet(q) \/ u[k] = m
  <2>1. CASE k = Len(q) + 1
    BY <1>2, <2>1
  <2>2. CASE k # Len(q) + 1
    <3>1. k \in 1..Len(q)
      BY <1>2, <2>2
    <3> QED
      BY <1>2, <3>1, InSeq
  <2> QED
    BY <2>1, <2>2
<1>5. m \in ToSet(u)
  <2>1. Len(q) + 1 \in 1..Len(u)
    BY <1>2
  <2> QED
    BY <1>2, <2>1, InSeq
<1>6. ASSUME NEW x \in ToSet(q) PROVE x \in ToSet(u)
  <2>1. PICK k \in 1..Len(q) : q[k] = x
    BY InSeq
  <2>2. k \in 1..Len(u) /\ u[k] = x
    BY <1>2, <2>1
  <2> QED
    BY <2>2, InSeq
<1>7. ASSUME NEW x \in ToSet(u) PROVE x \in ToSet(q) \/ x = m
  <2>1. PICK k \in 1..Len(u) : u[k] = x
    BY InSeq
  <2> QED
    BY <1>4, <2>1
<1> QED
  BY <1>1, <1>3, <1>5, <1>6, <1>7

LEMMA LinkDoes ==
  ASSUME QueuesTyped, QueuesAgree, NEW i \in Instances, NEW m \in Messages, ~enqueued[m],
         enqueued' = [enqueued EXCEPT ![m] = TRUE], Link(i, m)
  PROVE  /\ QueuesTyped' /\ QueuesAgree'
         /\ \A j \in Instances : Chain(j)' = IF j = i /\ ~Torn(i) THEN Append(Chain(j), m) ELSE Chain(j)
         /\ \A j \in Instances, x \in Messages : Queued(j, x)' <=> Queued(j, x) \/ (j = i /\ x = m /\ ~Torn(i))
         /\ \A j \in Instances : ~Queued(j, m)
         /\ \A j \in Instances : Torn(j)' <=> Torn(j)
<1>1. /\ QueuesTyped' /\ Linked(next)' /\ Linked(next)
      /\ \A j \in Instances : Chain(j)' = IF j = i /\ ~Torn(i) THEN Append(Chain(j), m) ELSE Chain(j)
      /\ \A x \in Messages : next'[x] # Null => next[x] # Null \/ Queued(i, x)
  BY LinkChains DEF QueuesAgree
<1>2. \A j \in Instances : Chain(j) \in Seq(Messages)
  BY <1>1, ChainIs
<1>3. ASSUME NEW j \in Instances, NEW x \in Elements
      PROVE  Queued(j, x)' <=> Queued(j, x) \/ (j = i /\ x = m /\ ~Torn(i))
  <2>1. CASE j = i /\ ~Torn(i)
    <3>1. PICK q \in Seq(Messages) : q = Chain(j)
      BY <1>2
    <3>2. Chain(j)' = Append(q, m)
      BY <1>1, <2>1, <3>1
    <3>3. x \in ToSet(Append(q, m)) <=> x \in ToSet(q) \/ x = m
      BY AppendedIs
    <3> QED
      BY <2>1, <3>1, <3>2, <3>3 DEF Queued
  <2>2. CASE ~(j = i /\ ~Torn(i))
    BY <1>1, <2>2 DEF Queued
  <2> QED
    BY <2>1, <2>2
<1>4. \A j \in Instances : ~Queued(j, m)
  BY DEF QueuesAgree
<1>5. Messages \subseteq Elements /\ enqueued'[m] /\ \A x \in Messages : enqueued[x] => enqueued'[x]
  BY DEF Elements, QueuesTyped
<1>6. end_el_'[i] = m /\ \A j \in Instances : j # i => end_el_'[j] = end_el_[j]
  BY DEF Link, QueuesTyped
<1>7. ~Torn(i) => Last(Chain(i)') = m
  <2> SUFFICES ASSUME ~Torn(i) PROVE Last(Chain(i)') = m
    OBVIOUS
  <2>1. PICK q \in Seq(Messages) : q = Chain(i)
    BY <1>2
  <2> QED
    BY <1>1, <2>1, AppendedIs
<1>8. ASSUME NEW j \in Instances, Queued(j, end_el_[j])' PROVE (end_el_[j] = Last(Chain(j)))'
  <2>1. CASE j = i
    BY <1>3, <1>4, <1>5, <1>6, <1>7, <1>8, <2>1
  <2>2. CASE j # i
    <3>1. end_el_[j] \in Elements /\ Chain(j)' = Chain(j) /\ end_el_'[j] = end_el_[j]
      BY <1>1, <1>6, <2>2 DEF QueuesTyped
    <3>2. Queued(j, end_el_[j])
      BY <1>3, <1>8, <2>2, <3>1
    <3> QED
      BY <3>1, <3>2 DEF QueuesAgree
  <2> QED
    BY <2>1, <2>2
<1>9. QueuesAgree'
  <2>1. ASSUME NEW x \in Messages, next'[x] # Null PROVE \E j \in Instances : Queued(j, x)'
    <3>1. PICK j \in Instances : Queued(j, x)
      BY <1>1, <2>1 DEF QueuesAgree
    <3> QED
      BY <1>3, <1>5, <3>1
  <2>2. ASSUME NEW j \in Instances, NEW k \in Instances, NEW x \in Messages, Queued(j, x)', Queued(k, x)'
        PROVE  j = k
    BY <1>3, <1>4, <1>5, <2>2 DEF QueuesAgree
  <2>3. ASSUME NEW j \in Instances, NEW x \in Messages, Queued(j, x)' PROVE enqueued'[x]
    BY <1>3, <1>5, <2>3 DEF QueuesAgree
  <2> QED
    BY <1>1, <1>8, <2>1, <2>2, <2>3 DEF QueuesAgree
<1>10. ASSUME NEW j \in Instances PROVE Torn(j)' <=> Torn(j)
  <2>1. CASE j # i
    <3>1. Chain(j)' = Chain(j) /\ list_'[j] = list_[j] /\ end_el_'[j] = end_el_[j]
      BY <1>1, <1>6, <2>1 DEF Link, QueuesTyped
    <3> QED
      BY <3>1 DEF Torn
  <2>2. CASE j = i /\ ~Torn(i)
    BY <1>6, <1>7, <2>2 DEF Torn
  <2>3. CASE j = i /\ Torn(i)
    <3>1. list_[i] # Null /\ list_'[i] = list_[i] /\ Chain(i)' = Chain(i)
      BY <1>1, <2>3 DEF Link, Torn
    <3>2. Queued(i, Last(Chain(i)))
      BY <1>1, <3>1, LastOfChain
    <3>3. Last(Chain(i)) # m
      BY <1>4, <3>2
    <3> QED
      BY <1>6, <2>3, <3>1, <3>3 DEF Torn
  <2> QED
    BY <2>1, <2>2, <2>3
<1> QED
  BY <1>1, <1>3, <1>4, <1>5, <1>9, <1>10

\* The links after a message was taken out: whoever is linked to it is in its queue.
LEMMA UnlinkNext ==
  ASSUME QueuesTyped, QueuesAgree, NEW i \in Instances, NEW m \in Messages, Queued(i, m), Unlink(i, m)
  PROVE  next' = Bypassed(next, m)
<1>1. ASSUME NEW x \in Messages, next[x] = m PROVE Queued(i, x)
  <2>1. PICK j \in Instances : Queued(j, x)
    BY <1>1 DEF QueuesAgree
  <2>2. Queued(j, m)
    BY <1>1, <2>1, NextQueued DEF QueuesAgree
  <2> QED
    BY <2>1, <2>2 DEF QueuesAgree
<1>2. next' = [x \in Messages |-> CASE x = m -> Null
                                   [] x # m /\ next[x] = m /\ Queued(i, x) -> next[m]
                                   [] OTHER -> next[x]]
  BY DEF Unlink
<1>3. ASSUME NEW x \in Messages
      PROVE  next'[x] = IF x = m THEN Null ELSE IF next[x] = m THEN next[m] ELSE next[x]
  <2>1. CASE x = m
    BY <1>2, <2>1
  <2>2. CASE x # m /\ next[x] = m
    BY <1>1, <1>2, <2>2
  <2>3. CASE x # m /\ next[x] # m
    BY <1>2, <2>3
  <2> QED
    BY <2>1, <2>2, <2>3
<1> QED
  BY <1>2, <1>3 DEF Bypassed

\* Taking out the first leaves what comes from the next on.
LEMMA RemoveFirst1 ==
  ASSUME NEW nx \in [Messages -> Elements], NEW f, Follows(f, nx), NEW m \in Messages
  PROVE  1 \in 1..Len(f[m]) /\ f[m][1] = m /\ f[nx[m]] = RemoveAt(f[m], 1)
<1>1. /\ f[m] \in Seq(Messages) /\ f[nx[m]] \in Seq(Messages) /\ Len(f[nx[m]]) \in Nat
      /\ Len(f[m]) = Len(f[nx[m]]) + 1 /\ f[m][1] = m
      /\ \A k \in 1..Len(f[nx[m]]) : f[m][k + 1] = f[nx[m]][k]
  BY FollowsAt
<1>2. PICK q \in Seq(Messages), r \in Seq(Messages) : q = f[m] /\ r = f[nx[m]]
  BY <1>1
<1>3. Len(r) \in Nat /\ Len(q) = Len(r) + 1 /\ q[1] = m /\ \A k \in 1..Len(r) : q[k + 1] = r[k]
  BY <1>1, <1>2
<1>4. 1 \in 1..Len(q)
  BY <1>3
<1>5. PICK u : u = RemoveAt(q, 1) /\ Removed(u, q, 1)
  BY <1>4, RemovedIs
<1>6. u \in Seq(Messages) /\ Len(u) = Len(r)
  BY <1>3, <1>5 DEF Removed
<1>7. ASSUME NEW k \in 1..Len(r) PROVE u[k] = r[k]
  <2>1. k \in 1..(Len(q) - 1) /\ ~(k < 1)
    BY <1>3
  <2>2. u[k] = q[k + 1]
    BY <1>5, <2>1 DEF Removed
  <2> QED
    BY <1>3, <2>2
<1>8. u = r
  BY <1>6, <1>7, SameSeq
<1> QED
  BY <1>2, <1>3, <1>4, <1>5, <1>8

LEMMA UnlinkChains ==
  ASSUME QueuesTyped, QueuesAgree, NEW i \in Instances, NEW m \in Messages, Queued(i, m), Unlink(i, m)
  PROVE  /\ QueuesTyped' /\ Linked(next)'
         /\ \E p \in 1..Len(Chain(i)) : Chain(i)[p] = m /\ Chain(i)' = RemoveAt(Chain(i), p)
         /\ \A j \in Instances : j # i => Chain(j)' = Chain(j)
         /\ \A x \in Messages : next'[x] # Null => x # m /\ next[x] # Null
<1>1. PICK nx \in [Messages -> Elements] : nx = next
  BY DEF QueuesTyped
<1> DEFINE f == Along(nx)
           g == Shortened(f, m)
<1>2. Follows(f, nx) /\ \A j \in Instances : list_[j] \in Elements /\ Chain(j) = f[list_[j]]
  BY <1>1, ChainIs DEF QueuesAgree
<1> HIDE DEF f
<1>3. PICK ny \in [Messages -> Elements] : ny = Bypassed(nx, m)
  <2>1. Null \in Elements
    BY DEF Elements
  <2>2. \A x \in Messages : nx[x] \in Elements
    OBVIOUS
  <2> QED
    BY <2>1, <2>2 DEF Bypassed
<1>4. next' = ny
  BY <1>1, <1>3, UnlinkNext
<1>5. Linked(ny) /\ Along(ny) = g
  <2>1. Follows(Shortened(f, m), ny)
    BY <1>2, <1>3, CutOut
  <2> QED
    BY <2>1, LinkedIs
<1>6. Linked(next)' /\ \A j \in Instances : Chain(j)' = g[list_'[j]]
  BY <1>4, <1>5 DEF Chain
<1>7. list_' = IF list_[i] = m THEN [list_ EXCEPT ![i] = nx[m]] ELSE list_
  BY <1>1 DEF Unlink
<1>8. /\ list_'[i] = IF list_[i] = m THEN nx[m] ELSE list_[i]
      /\ \A j \in Instances : j # i => list_'[j] = list_[j]
      /\ list_' \in [Instances -> Elements]
  BY <1>7 DEF QueuesTyped
<1>9. QueuesTyped'
  <2>1. end_el_' = end_el_ /\ enqueued' = enqueued
    BY DEF Unlink
  <2> QED
    BY <1>4, <1>8, <2>1 DEF QueuesTyped
<1>10. \A x \in Elements : /\ x # m /\ m \in ToSet(f[x]) => g[x] = RemoveAt(f[x], Position(f[x], m))
                           /\ x # m /\ m \notin ToSet(f[x]) => g[x] = f[x]
  BY DEF Shortened
<1> HIDE DEF g
<1>11. \E p \in 1..Len(Chain(i)) : Chain(i)[p] = m /\ Chain(i)' = RemoveAt(Chain(i), p)
  <2>1. CASE list_[i] = m
    <3>1. m \notin ToSet(f[nx[m]]) /\ nx[m] # m /\ nx[m] \in Elements
      BY <1>2, NotBehind
    <3>2. Chain(i)' = f[nx[m]]
      BY <1>6, <1>8, <1>10, <2>1, <3>1
    <3>3. 1 \in 1..Len(f[m]) /\ f[m][1] = m /\ f[nx[m]] = RemoveAt(f[m], 1)
      BY <1>2, RemoveFirst1
    <3> QED
      BY <1>2, <2>1, <3>2, <3>3
  <2>2. CASE list_[i] # m
    <3>1. PICK x \in Elements : x = list_[i] /\ x # m
      BY <1>2, <2>2
    <3>2. m \in ToSet(f[x]) /\ f[x] \in Seq(Messages)
      BY <1>2, <3>1 DEF Queued, Follows
    <3>3. PICK k \in 1..Len(f[x]) : f[x][k] = m
      BY <3>2, InSeq
    <3>4. Position(f[x], m) = k
      BY <1>2, <3>3, PositionIs
    <3>5. Chain(i)' = RemoveAt(f[x], k)
      BY <1>6, <1>8, <1>10, <2>2, <3>1, <3>2, <3>4
    <3> QED
      BY <1>2, <3>1, <3>3, <3>5
  <2> QED
    BY <2>1, <2>2
<1>12. ASSUME NEW j \in Instances, j # i PROVE Chain(j)' = Chain(j)
  <2>1. ~Queued(j, m)
    BY <1>12 DEF QueuesAgree
  <2>2. m \notin ToSet(f[list_[j]])
    BY <1>2, <2>1 DEF Queued
  <2>3. list_[j] # m
    <3>1. m \in ToSet(f[m])
      BY <1>2, RunMembers
    <3> QED
      BY <2>2, <3>1
  <2> QED
    BY <1>2, <1>6, <1>8, <1>10, <1>12, <2>2, <2>3
<1>13. \A x \in Messages : next'[x] # Null => x # m /\ next[x] # Null
  <2>1. m # Null
    OBVIOUS
  <2> QED
    BY <1>1, <1>3, <1>4, <2>1 DEF Bypassed
<1> QED
  BY <1>6, <1>9, <1>11, <1>12, <1>13

\* The other messages of a queue stay in it; the end stays the end, unless it was taken out.
LEMMA RemovedMembers ==
  ASSUME NEW q \in Seq(Messages), NEW p \in 1..Len(q), \A k \in 1..Len(q) : q[k] = q[p] => k = p
  PROVE  /\ \A x : x \in ToSet(RemoveAt(q, p)) <=> x \in ToSet(q) /\ x # q[p]
         /\ RemoveAt(q, p) \in Seq(Messages)
         /\ RemoveAt(q, p) = <<>> <=> Len(q) = 1
         /\ Len(q) > 1 => Last(RemoveAt(q, p)) = IF p = Len(q) THEN q[Len(q) - 1] ELSE q[Len(q)]
<1>1. PICK u : u = RemoveAt(q, p) /\ Removed(u, q, p)
  BY RemovedIs
<1>2. PICK n \in Nat : n = Len(q) /\ n >= 1
  OBVIOUS
<1>3. u \in Seq(Messages) /\ Len(u) = n - 1 /\ p \in 1..n
      /\ \A j \in 1..(n - 1) : u[j] = IF j < p THEN q[j] ELSE q[j + 1]
  BY <1>1, <1>2 DEF Removed
<1>4. ASSUME NEW x \in ToSet(u) PROVE x \in ToSet(q) /\ x # q[p]
  <2>1. PICK j \in 1..(n - 1) : u[j] = x
    BY <1>3, <1>4, InSeq
  <2>2. PICK k \in 1..n : q[k] = x /\ k # p
    <3>1. CASE j < p
      <4>1. j \in 1..n /\ j # p /\ q[j] = x
        BY <1>2, <1>3, <2>1, <3>1
      <4> QED
        BY <4>1
    <3>2. CASE ~(j < p)
      <4>1. j + 1 \in 1..n /\ j + 1 # p /\ q[j + 1] = x
        BY <1>2, <1>3, <2>1, <3>2
      <4> QED
        BY <4>1
    <3> QED
      BY <3>1, <3>2
  <2> QED
    BY <1>2, <2>2, InSeq
<1>5. ASSUME NEW x \in ToSet(q), x # q[p] PROVE x \in ToSet(u)
  <2>1. PICK k \in 1..n : q[k] = x /\ k # p
    BY <1>2, <1>5, InSeq
  <2>2. PICK j \in 1..(n - 1) : u[j] = x
    <3>1. CASE k < p
      <4>1. k \in 1..(n - 1) /\ u[k] = q[k]
        BY <1>3, <3>1
      <4> QED
        BY <2>1, <4>1
    <3>2. CASE ~(k < p)
      <4>1. PICK j \in 1..(n - 1) : k = j + 1 /\ ~(j < p)
        <5>1. k - 1 \in 1..(n - 1) /\ k = (k - 1) + 1 /\ ~(k - 1 < p)
          BY <1>3, <2>1, <3>2
        <5> QED
          BY <5>1
      <4>2. u[j] = q[j + 1]
        BY <1>3, <4>1
      <4> QED
        BY <2>1, <4>1, <4>2
    <3> QED
      BY <3>1, <3>2
  <2> QED
    BY <1>3, <2>2, InSeq
<1>6. u = <<>> <=> n = 1
  BY <1>3
<1>7. ASSUME n > 1 PROVE Last(u) = IF p = n THEN q[n - 1] ELSE q[n]
  <2>1. n - 1 \in 1..(n - 1) /\ Last(u) = u[n - 1] /\ (n - 1) + 1 = n
    BY <1>3, <1>7 DEF Last
  <2>2. u[n - 1] = IF n - 1 < p THEN q[n - 1] ELSE q[n]
    BY <1>3, <2>1
  <2>3. n - 1 < p <=> p = n
    BY <1>3
  <2> QED
    BY <2>1, <2>2, <2>3
<1> QED
  BY <1>1, <1>2, <1>3, <1>4, <1>5, <1>6, <1>7

\* A queue without elements is empty, before and after every step.
LEMMA EmptyChain ==
  QueuesTyped /\ Linked(next) => \A i \in Instances : list_[i] = Null <=> Chain(i) = <<>>
BY ChainIs

LEMMA EmptyChainAfter ==
  (QueuesTyped /\ Linked(next))' => \A i \in Instances : list_'[i] = Null <=> Chain(i)' = <<>>
<1>1. (QueuesTyped /\ Linked(next) => \A i \in Instances : list_[i] = Null <=> Chain(i) = <<>>)'
  BY EmptyChain, PTL
<1> QED
  BY <1>1

LEMMA UnlinkDoes ==
  ASSUME QueuesTyped, QueuesAgree, NEW i \in Instances, NEW m \in Messages, Queued(i, m), Unlink(i, m)
  PROVE  /\ QueuesTyped' /\ QueuesAgree'
         /\ \E p \in 1..Len(Chain(i)) :
              /\ Chain(i)[p] = m /\ Chain(i)' = RemoveAt(Chain(i), p)
              /\ Torn(i)' <=> Len(Chain(i)) > 1 /\ (p = Len(Chain(i)) \/ Torn(i))
         /\ \A j \in Instances : j # i => Chain(j)' = Chain(j) /\ (Torn(j)' <=> Torn(j))
         /\ \A j \in Instances, x \in Messages : Queued(j, x)' <=> Queued(j, x) /\ x # m
<1>1. /\ QueuesTyped' /\ Linked(next)' /\ Linked(next)
      /\ \E p \in 1..Len(Chain(i)) : Chain(i)[p] = m /\ Chain(i)' = RemoveAt(Chain(i), p)
      /\ \A j \in Instances : j # i => Chain(j)' = Chain(j)
      /\ \A x \in Messages : next'[x] # Null => x # m /\ next[x] # Null
  BY UnlinkChains DEF QueuesAgree
<1>2. PICK q \in Seq(Messages) : q = Chain(i)
  BY <1>1, ChainIs
<1>3. PICK p \in 1..Len(q) : q[p] = m /\ Chain(i)' = RemoveAt(q, p)
  BY <1>1, <1>2
<1>4. \A k \in 1..Len(q) : q[k] = q[p] => k = p
  BY <1>1, <1>2, ChainLinks
<1>5. /\ \A x : x \in ToSet(RemoveAt(q, p)) <=> x \in ToSet(q) /\ x # q[p]
      /\ RemoveAt(q, p) = <<>> <=> Len(q) = 1
      /\ Len(q) > 1 => Last(RemoveAt(q, p)) = IF p = Len(q) THEN q[Len(q) - 1] ELSE q[Len(q)]
  BY <1>4, RemovedMembers
<1>6. ASSUME NEW j \in Instances, NEW x \in Elements PROVE Queued(j, x)' <=> Queued(j, x) /\ x # m
  <2>1. CASE j = i
    BY <1>2, <1>3, <1>5, <2>1 DEF Queued
  <2>2. CASE j # i
    <3>1. Queued(j, x)' <=> Queued(j, x)
      BY <1>1, <2>2 DEF Queued
    <3>2. ~Queued(j, m)
      BY <2>2 DEF QueuesAgree
    <3> QED
      BY <3>1, <3>2
  <2> QED
    BY <2>1, <2>2
<1>7. Messages \subseteq Elements /\ end_el_' = end_el_ /\ enqueued' = enqueued
      /\ \A j \in Instances : end_el_[j] \in Elements
  BY DEF Elements, Unlink, QueuesTyped
<1>8. /\ \A j \in Instances : j # i => list_'[j] = list_[j]
      /\ list_'[i] = Null <=> Len(q) = 1
      /\ list_[i] # Null /\ Last(q) = q[Len(q)] /\ Len(q) \in Nat /\ Len(q) >= 1
  <2>1. \A j \in Instances : j # i => list_'[j] = list_[j]
    BY DEF Unlink, QueuesTyped
  <2>2. list_'[i] = Null <=> Chain(i)' = <<>>
    BY <1>1, EmptyChainAfter
  <2>3. list_[i] = Null <=> q = <<>>
    BY <1>1, <1>2, EmptyChain
  <2> QED
    BY <1>3, <1>5, <2>1, <2>2, <2>3 DEF Last
<1>9. Torn(i)' <=> Len(q) > 1 /\ (p = Len(q) \/ Torn(i))
  <2>1. Torn(i) <=> end_el_[i] # q[Len(q)]
    BY <1>2, <1>8 DEF Torn
  <2>2. Torn(i)' <=> Len(q) # 1 /\ end_el_[i] # Last(RemoveAt(q, p))
    BY <1>3, <1>7, <1>8 DEF Torn
  <2>3. CASE Len(q) > 1 /\ p = Len(q)
    <3>1. Len(q) - 1 \in 1..Len(q) /\ Len(q) - 1 # p
      BY <1>8, <2>3
    <3>2. q[Len(q) - 1] # m
      BY <1>3, <1>4, <3>1
    <3>3. Queued(i, q[Len(q) - 1])
      BY <1>1, <1>2, <3>1, ChainIs
    <3>4. end_el_[i] # q[Len(q) - 1]
      <4>1. ASSUME end_el_[i] = q[Len(q) - 1] PROVE FALSE
        <5>1. end_el_[i] = Last(Chain(i))
          BY <3>3, <4>1 DEF QueuesAgree
        <5>2. q[Len(q) - 1] = m
          BY <1>2, <1>3, <1>8, <2>3, <4>1, <5>1
        <5> QED
          BY <3>2, <5>2
      <4> QED
        BY <4>1
    <3> QED
      BY <1>5, <2>2, <2>3, <3>4
  <2>4. CASE Len(q) > 1 /\ p # Len(q)
    BY <1>5, <2>1, <2>2, <2>4
  <2>5. CASE Len(q) = 1
    BY <2>2, <2>5
  <2>6. Len(q) > 1 \/ Len(q) = 1
    <3>1. PICK n \in Nat : n = Len(q)
      OBVIOUS
    <3>2. n > 1 \/ n = 1
      BY <3>1
    <3> QED
      BY <3>1, <3>2
  <2> QED
    BY <2>3, <2>4, <2>5, <2>6
<1>10. ASSUME NEW j \in Instances, j # i PROVE Chain(j)' = Chain(j) /\ (Torn(j)' <=> Torn(j))
  BY <1>1, <1>7, <1>8, <1>10 DEF Torn
<1>11. ASSUME NEW j \in Instances, Queued(j, end_el_[j])' PROVE (end_el_[j] = Last(Chain(j)))'
  <2>1. Queued(j, end_el_[j]) /\ end_el_[j] # m
    BY <1>6, <1>7, <1>11
  <2>2. end_el_[j] = Last(Chain(j))
    BY <2>1 DEF QueuesAgree
  <2>3. CASE j = i
    <3>1. p # Len(q)
      BY <1>2, <1>3, <1>8, <2>1, <2>2, <2>3
    <3>2. Last(Chain(i)') = q[Len(q)]
      BY <1>3, <1>5, <1>8, <3>1
    <3> QED
      BY <1>2, <1>7, <1>8, <2>2, <2>3, <3>2
  <2>4. CASE j # i
    BY <1>1, <1>7, <2>2, <2>4
  <2> QED
    BY <2>3, <2>4
<1>12. QueuesAgree'
  <2>1. ASSUME NEW x \in Messages, next'[x] # Null PROVE \E j \in Instances : Queued(j, x)'
    <3>1. PICK j \in Instances : Queued(j, x)
      BY <1>1, <2>1 DEF QueuesAgree
    <3> QED
      BY <1>1, <1>6, <1>7, <2>1, <3>1
  <2>2. ASSUME NEW j \in Instances, NEW k \in Instances, NEW x \in Messages, Queued(j, x)', Queued(k, x)'
        PROVE  j = k
    BY <1>6, <1>7, <2>2 DEF QueuesAgree
  <2>3. ASSUME NEW j \in Instances, NEW x \in Messages, Queued(j, x)' PROVE enqueued'[x]
    BY <1>6, <1>7, <2>3 DEF QueuesAgree
  <2> QED
    BY <1>1, <1>11, <2>1, <2>2, <2>3 DEF QueuesAgree
<1> QED
  BY <1>1, <1>2, <1>3, <1>6, <1>7, <1>9, <1>10, <1>12

\* A queue that was flushed is empty, the others stay as they are.
LEMMA FlushChains ==
  ASSUME QueuesTyped, QueuesAgree, NEW i \in Instances,
         list_' = [list_ EXCEPT ![i] = Null],
         next' = [m \in Messages |-> IF Queued(i, m) THEN Null ELSE next[m]],
         UNCHANGED <<end_el_, enqueued>>
  PROVE  /\ QueuesTyped' /\ Linked(next)'
         /\ \A j \in Instances : Chain(j)' = IF j = i THEN <<>> ELSE Chain(j)
<1>1. PICK nx \in [Messages -> Elements] : nx = next
  BY DEF QueuesTyped
<1>2. PICK T \in SUBSET Messages : \A m \in Messages : m \in T <=> Queued(i, m)
  <2>1. {m \in Messages : Queued(i, m)} \in SUBSET Messages
    OBVIOUS
  <2> QED
    BY <2>1
<1> DEFINE f == Along(nx)
           g == Freed(f, T)
<1>3. Follows(f, nx) /\ \A j \in Instances : list_[j] \in Elements /\ Chain(j) = f[list_[j]]
  BY <1>1, ChainIs DEF QueuesAgree
<1> HIDE DEF f
<1>4. PICK ny \in [Messages -> Elements] : ny = WithoutLinks(nx, T)
  <2>1. Null \in Elements
    BY DEF Elements
  <2>2. \A x \in Messages : nx[x] \in Elements
    OBVIOUS
  <2> QED
    BY <2>1, <2>2 DEF WithoutLinks
<1>5. next' = ny
  BY <1>1, <1>2, <1>4 DEF WithoutLinks
<1>6. ASSUME NEW x \in Messages, x \notin T PROVE nx[x] \notin T
  <2> SUFFICES ASSUME nx[x] \in T PROVE FALSE
    OBVIOUS
  <2>1. nx[x] # Null /\ nx[x] \in Messages /\ Queued(i, nx[x])
    BY <1>2
  <2>2. PICK j \in Instances : Queued(j, x)
    BY <1>1, <2>1 DEF QueuesAgree
  <2>3. Queued(j, nx[x])
    BY <1>1, <2>1, <2>2, NextQueued DEF QueuesAgree
  <2>4. j = i
    BY <2>1, <2>3 DEF QueuesAgree
  <2> QED
    BY <1>2, <1>6, <2>2, <2>4
<1>7. Linked(ny) /\ Along(ny) = g
  <2>1. Follows(Freed(f, T), ny)
    BY <1>3, <1>4, <1>6, FreeAll
  <2> QED
    BY <2>1, LinkedIs
<1>8. Linked(next)' /\ \A j \in Instances : Chain(j)' = g[list_'[j]]
  BY <1>5, <1>7 DEF Chain
<1>9. Null \in Elements /\ Null \notin T /\ f[Null] = <<>>
  BY <1>3 DEF Elements, Follows
<1> USE DEF Freed
<1>10. Chain(i)' = <<>>
  <2>1. list_'[i] = Null
    BY DEF QueuesTyped
  <2> QED
    BY <1>8, <1>9, <2>1
<1>11. ASSUME NEW j \in Instances, j # i PROVE Chain(j)' = Chain(j)
  <2>1. list_'[j] = list_[j] /\ list_[j] \in Elements
    BY <1>11 DEF QueuesTyped
  <2>2. list_[j] \notin T
    <3> SUFFICES ASSUME list_[j] \in T PROVE FALSE
      OBVIOUS
    <3>1. PICK x \in Messages : x = list_[j] /\ Queued(i, x)
      BY <1>2
    <3>2. x \in ToSet(f[x])
      BY <1>3, RunMembers
    <3>3. Queued(j, x)
      BY <1>3, <3>1, <3>2 DEF Queued
    <3> QED
      BY <1>11, <3>1, <3>3 DEF QueuesAgree
  <2> QED
    BY <1>3, <1>8, <2>1, <2>2
<1>12. QueuesTyped'
  <2>1. list_' \in [Instances -> Elements]
    BY <1>9 DEF QueuesTyped
  <2> QED
    BY <1>5, <2>1 DEF QueuesTyped
<1> QED
  BY <1>8, <1>10, <1>11, <1>12

LEMMA FlushDoes ==
  ASSUME QueuesTyped, QueuesAgree, NEW i \in Instances, Flushed(i)
  PROVE  /\ QueuesTyped' /\ QueuesAgree'
         /\ \A j \in Instances : Chain(j)' = IF j = i THEN <<>> ELSE Chain(j)
         /\ \A j \in Instances : Torn(j)' <=> Torn(j) /\ j # i
         /\ \A j \in Instances, x \in Messages : Queued(j, x)' <=> Queued(j, x) /\ j # i
<1>1. /\ list_' = [list_ EXCEPT ![i] = Null]
      /\ next' = [m \in Messages |-> IF Queued(i, m) THEN Null ELSE next[m]]
      /\ UNCHANGED <<end_el_, enqueued>>
  BY DEF Flushed
<1>2. /\ QueuesTyped' /\ Linked(next)'
      /\ \A j \in Instances : Chain(j)' = IF j = i THEN <<>> ELSE Chain(j)
  BY <1>1, FlushChains
<1>3. list_'[i] = Null /\ \A j \in Instances : j # i => list_'[j] = list_[j]
  BY <1>1 DEF QueuesTyped
<1>4. \A x : x \notin ToSet(<<>>)
  BY DEF ToSet
<1>5. \A j \in Instances, x \in Elements : Queued(j, x)' <=> Queued(j, x) /\ j # i
  BY <1>2, <1>4 DEF Queued
<1>6. \A j \in Instances : Torn(j)' <=> Torn(j) /\ j # i
  BY <1>1, <1>2, <1>3 DEF Torn
<1>7. Messages \subseteq Elements /\ \A j \in Instances : end_el_[j] \in Elements
  BY DEF Elements, QueuesTyped
<1>8. QueuesAgree'
  <2>1. ASSUME NEW x \in Messages, next'[x] # Null PROVE \E j \in Instances : Queued(j, x)'
    <3>1. next[x] # Null /\ ~Queued(i, x)
      BY <1>1, <2>1
    <3>2. PICK j \in Instances : Queued(j, x)
      BY <3>1 DEF QueuesAgree
    <3> QED
      BY <1>5, <1>7, <3>1, <3>2
  <2>2. ASSUME NEW j \in Instances, NEW k \in Instances, NEW x \in Messages, Queued(j, x)', Queued(k, x)'
        PROVE  j = k
    BY <1>5, <1>7, <2>2 DEF QueuesAgree
  <2>3. ASSUME NEW j \in Instances, NEW x \in Messages, Queued(j, x)' PROVE enqueued'[x]
    BY <1>1, <1>5, <1>7, <2>3 DEF QueuesAgree
  <2>4. ASSUME NEW j \in Instances, Queued(j, end_el_[j])' PROVE (end_el_[j] = Last(Chain(j)))'
    BY <1>1, <1>2, <1>5, <1>7, <2>4 DEF QueuesAgree
  <2> QED
    BY <1>2, <2>1, <2>2, <2>3, <2>4 DEF QueuesAgree
<1> QED
  BY <1>2, <1>5, <1>6, <1>7, <1>8

-----------------------------------------------------------------------------
(* References, senders and writers                                         *)

SendersTyped ==
  /\ pc \in [Senders -> {"idle", "notify", "ref", "append", "wake", "unref"}]
  /\ msg \in [Senders -> Messages \cup {Null}] /\ at \in [Senders -> Instances \cup {Null}]
  /\ caller \in [Senders -> {"transmit", "waker"}]

WritersTyped ==
  /\ instance \in [Instances -> {"unopened", "open", "closing", "deleted"}]
  /\ wpc \in [Instances -> {"asleep", "loop", "locked", "leaving"}]
  /\ cur \in [Instances -> Messages \cup {Null}]

CountsTyped ==
  /\ refc \in [Messages -> Int] /\ leaked \in [Messages -> Nat] /\ hold \in [Messages -> 0..2]
  /\ wakeups \in [Instances -> Nat]

\* As a message is in one queue at most, and sent by its sender only, the references to it
\* can be counted without sets.
InQueue(m) == \E i \in Instances : Queued(i, m)
InAppend(m) == pc[From[m]] = "append" /\ msg[From[m]] = m

Accounted(m) ==
  refc[m] = hold[m] + leaked[m] + (IF InQueue(m) THEN 1 ELSE 0) + (IF InAppend(m) THEN 1 ELSE 0)

\* the leaks of the call that a sender is in
LeaksLocal(s) ==
  /\ pc[s] = "notify" => leaked[msg[s]] < MaxRejected
  /\ pc[s] \in {"ref", "append"} =>
       leaked[msg[s]] < IF caller[s] = "waker" THEN MaxRejected ELSE MaxRejected + 1

Wakers == {s \in Senders : pc[s] = "wake"}
Marked == {m \in Messages : enqueued[m]}

WorksOnFirst == \A i \in Instances : cur[i] # Null => cur[i] = list_[i]

\* the invariant without the bounds and cardinalities that follow from it
PInv ==
  /\ QueuesTyped /\ SendersTyped /\ WritersTyped /\ CountsTyped
  /\ QueuesAgree /\ SendersAgree /\ LeaksBounded /\ WritersAgree /\ WakeupsCovered
  /\ \A m \in Messages : Accounted(m)
  /\ WorksOnFirst

\* The sets of references have at most one element.
LEMMA AccountSets ==
  ASSUME QueuesTyped, QueuesAgree, SendersAgree, NEW m \in Messages
  PROVE  /\ Cardinality({i \in Instances : Queued(i, m)}) = IF InQueue(m) THEN 1 ELSE 0
         /\ Cardinality({s \in Senders : pc[s] = "append" /\ msg[s] = m}) = IF InAppend(m) THEN 1 ELSE 0
<1>1. Cardinality({i \in Instances : Queued(i, m)}) = IF InQueue(m) THEN 1 ELSE 0
  <2>1. CASE InQueue(m)
    <3>1. PICK i \in Instances : Queued(i, m)
      BY <2>1 DEF InQueue
    <3>2. {j \in Instances : Queued(j, m)} = {i}
      BY <3>1 DEF QueuesAgree
    <3> QED
      BY <2>1, <3>2, FS_Singleton
  <2>2. CASE ~InQueue(m)
    <3>1. {j \in Instances : Queued(j, m)} = {}
      BY <2>2 DEF InQueue
    <3> QED
      BY <2>2, <3>1, FS_EmptySet
  <2> QED
    BY <2>1, <2>2
<1>2. Cardinality({s \in Senders : pc[s] = "append" /\ msg[s] = m}) = IF InAppend(m) THEN 1 ELSE 0
  <2>1. \A s \in Senders : pc[s] = "append" /\ msg[s] = m => s = From[m]
    BY DEF SendersAgree
  <2>2. CASE InAppend(m)
    <3>1. {s \in Senders : pc[s] = "append" /\ msg[s] = m} = {From[m]}
      BY <2>1, <2>2 DEF InAppend
    <3> QED
      BY <2>2, <3>1, FS_Singleton
  <2>3. CASE ~InAppend(m)
    <3>1. {s \in Senders : pc[s] = "append" /\ msg[s] = m} = {}
      BY <2>1, <2>3 DEF InAppend
    <3> QED
      BY <2>3, <3>1, FS_EmptySet
  <2> QED
    BY <2>2, <2>3
<1> QED
  BY <1>1, <1>2

\* Nothing happens to the queues.
LEMMA QueuesSame ==
  ASSUME QueuesTyped, QueuesAgree, UNCHANGED <<list_, end_el_, next, enqueued>>
  PROVE  /\ QueuesTyped' /\ QueuesAgree'
         /\ \A j \in Instances : Chain(j)' = Chain(j) /\ (Torn(j)' <=> Torn(j))
         /\ \A j \in Instances, x \in Elements : Queued(j, x)' <=> Queued(j, x)
         /\ \A x \in Messages : InQueue(x)' <=> InQueue(x)
<1>1. QueuesTyped'
  BY DEF QueuesTyped
<1>2. \A j \in Instances : Chain(j)' = Chain(j)
  BY DEF Chain
<1>3. \A j \in Instances : Torn(j)' <=> Torn(j)
  BY <1>2 DEF Torn
<1>4. \A j \in Instances, x \in Elements : Queued(j, x)' <=> Queued(j, x)
  BY <1>2 DEF Queued
<1>5. Messages \subseteq Elements /\ \A j \in Instances : end_el_[j] \in Elements
  BY DEF Elements, QueuesTyped
<1>6. Linked(next)'
  BY DEF QueuesAgree
<1>7. QueuesAgree'
  <2>1. \A x \in Messages : next'[x] # Null => \E j \in Instances : Queued(j, x)'
    BY <1>4, <1>5 DEF QueuesAgree
  <2>2. \A j, k \in Instances, x \in Messages : Queued(j, x)' /\ Queued(k, x)' => j = k
    BY <1>4, <1>5 DEF QueuesAgree
  <2>3. \A j \in Instances, x \in Messages : Queued(j, x)' => enqueued'[x]
    BY <1>4, <1>5 DEF QueuesAgree
  <2>4. ASSUME NEW j \in Instances, Queued(j, end_el_[j])' PROVE (end_el_[j] = Last(Chain(j)))'
    BY <1>2, <1>4, <1>5, <2>4 DEF QueuesAgree
  <2> QED
    BY <1>6, <2>1, <2>2, <2>3, <2>4 DEF QueuesAgree
<1>8. \A x \in Messages : InQueue(x)' <=> InQueue(x)
  BY <1>4, <1>5 DEF InQueue
<1> QED
  BY <1>1, <1>2, <1>3, <1>4, <1>7, <1>8

\* What a step of sender s with its message m does to others.
SenderMoves(s, m) ==
  /\ From[m] = s /\ (pc[s] = "idle" \/ msg[s] = m)
  /\ \A t \in Senders : t # s =>
       pc'[t] = pc[t] /\ msg'[t] = msg[t] /\ at'[t] = at[t] /\ caller'[t] = caller[t]
  /\ \A x \in Messages : x # m =>
       refc'[x] = refc[x] /\ hold'[x] = hold[x] /\ leaked'[x] = leaked[x] /\ (InQueue(x)' <=> InQueue(x))
  /\ pc'[s] # "idle" => msg'[s] = m /\ hold'[m] > 0 /\ at'[s] \in Instances
  /\ leaked'[m] <= MaxRejected + 1 /\ LeaksLocal(s)' /\ Accounted(m)'

LEMMA SenderKeeps ==
  ASSUME PInv, NEW s \in Senders, NEW m \in Messages, SenderMoves(s, m)
  PROVE  SendersAgree' /\ LeaksBounded' /\ \A x \in Messages : Accounted(x)'
<1>1. SendersAgree'
  <2> SUFFICES ASSUME NEW t \in Senders, pc'[t] # "idle"
               PROVE  msg'[t] \in Messages /\ From[msg'[t]] = t /\ hold'[msg'[t]] > 0 /\ at'[t] \in Instances
    BY DEF SendersAgree
  <2>1. CASE t = s
    BY <2>1 DEF SenderMoves
  <2>2. CASE t # s
    <3>1. /\ msg[t] \in Messages /\ From[msg[t]] = t /\ hold[msg[t]] > 0 /\ at[t] \in Instances
          /\ msg'[t] = msg[t] /\ at'[t] = at[t]
      BY <2>2 DEF SenderMoves, PInv, SendersAgree
    <3>2. hold'[msg[t]] = hold[msg[t]]
      BY <2>2, <3>1 DEF SenderMoves
    <3> QED
      BY <3>1, <3>2
  <2> QED
    BY <2>1, <2>2
<1>2. LeaksBounded'
  <2>1. ASSUME NEW x \in Messages PROVE leaked'[x] <= MaxRejected + 1
    BY DEF SenderMoves, PInv, LeaksBounded
  <2>2. ASSUME NEW t \in Senders PROVE LeaksLocal(t)'
    <3>1. CASE t = s
      BY <3>1 DEF SenderMoves
    <3>2. CASE t # s
      <4>1. LeaksLocal(t) /\ pc'[t] = pc[t] /\ msg'[t] = msg[t] /\ caller'[t] = caller[t]
        BY <3>2 DEF SenderMoves, PInv, LeaksBounded, LeaksLocal
      <4>2. CASE pc[t] = "idle"
        BY <4>1, <4>2 DEF LeaksLocal
      <4>3. CASE pc[t] # "idle"
        <5>1. msg[t] \in Messages /\ msg[t] # m
          BY <3>2, <4>3 DEF SenderMoves, PInv, SendersAgree
        <5>2. leaked'[msg[t]] = leaked[msg[t]]
          BY <5>1 DEF SenderMoves
        <5> QED
          BY <4>1, <5>2 DEF LeaksLocal
      <4> QED
        BY <4>2, <4>3
    <3> QED
      BY <3>1, <3>2
  <2> QED
    BY <2>1, <2>2 DEF LeaksBounded, LeaksLocal
<1>3. ASSUME NEW x \in Messages PROVE Accounted(x)'
  <2>1. CASE x = m
    BY <2>1 DEF SenderMoves
  <2>2. CASE x # m
    <3>1. /\ refc'[x] = refc[x] /\ hold'[x] = hold[x] /\ leaked'[x] = leaked[x] /\ (InQueue(x)' <=> InQueue(x))
          /\ Accounted(x)
      BY <2>2 DEF SenderMoves, PInv
    <3>2. InAppend(x)' <=> InAppend(x)
      <4>1. CASE From[x] = s
        BY <2>2, <4>1 DEF InAppend, SenderMoves
      <4>2. CASE From[x] # s
        <5>1. From[x] \in Senders
          OBVIOUS
        <5> QED
          BY <4>2, <5>1 DEF InAppend, SenderMoves
      <4> QED
        BY <4>1, <4>2
    <3> QED
      BY <3>1, <3>2 DEF Accounted
  <2> QED
    BY <2>1, <2>2
<1> QED
  BY <1>1, <1>2, <1>3

LEMMA CoverSame ==
  ASSUME WakeupsCovered, UNCHANGED <<enqueued, wakeups>>,
         \A t \in Senders : pc'[t] = "wake" <=> pc[t] = "wake"
  PROVE  WakeupsCovered'
<1>1. Wakers' = Wakers /\ Marked' = Marked
  BY DEF Wakers, Marked
<1> QED
  BY <1>1 DEF WakeupsCovered, Wakers, Marked

\* A step of a sender that leaves the queues and the writers alone.
LEMMA SimpleSender ==
  ASSUME PInv, NEW s \in Senders, NEW m \in Messages, SenderMoves(s, m), SendersTyped', CountsTyped',
         UNCHANGED <<queues, enqueued, instance, writer>>, pc'[s] = "wake" <=> pc[s] = "wake"
  PROVE  PInv'
<1>1. UNCHANGED <<list_, end_el_, next, enqueued, instance, wpc, cur, wakeups>>
  BY DEF queues, writer
<1>2. QueuesTyped' /\ QueuesAgree'
  BY <1>1, QueuesSame DEF PInv
<1>3. WritersTyped' /\ WritersAgree' /\ WorksOnFirst'
  BY <1>1 DEF PInv, WritersTyped, WritersAgree, WorksOnFirst
<1>4. WakeupsCovered'
  <2>1. \A t \in Senders : pc'[t] = "wake" <=> pc[t] = "wake"
    BY DEF SenderMoves
  <2> QED
    BY <1>1, <2>1, CoverSame DEF PInv
<1> QED
  BY <1>2, <1>3, <1>4, SenderKeeps DEF PInv

\* What is known of a message and its sender.
LEMMA MessageKnown ==
  ASSUME PInv, NEW m \in Messages
  PROVE  /\ refc[m] \in Int /\ hold[m] \in 0..2 /\ leaked[m] \in Nat /\ leaked[m] <= MaxRejected + 1
         /\ Accounted(m) /\ From[m] \in Senders
BY DEF PInv, CountsTyped, LeaksBounded

LEMMA SenderKnown ==
  ASSUME PInv, NEW s \in Senders, pc[s] # "idle"
  PROVE  /\ msg[s] \in Messages /\ From[msg[s]] = s /\ hold[msg[s]] > 0 /\ at[s] \in Instances
         /\ LeaksLocal(s)
BY DEF PInv, SendersAgree, LeaksBounded, LeaksLocal

LEMMA DropKeeps ==
  ASSUME PInv, NEW s \in Senders, NEW m \in Messages, Drop(s, m)
  PROVE  PInv'
<1>1. /\ pc[s] = "idle" /\ From[m] = s /\ hold[m] > 0
      /\ hold' = [hold EXCEPT ![m] = @ - 1] /\ refc' = [refc EXCEPT ![m] = @ - 1]
      /\ UNCHANGED <<list_, end_el_, next, enqueued, leaked, pc, msg, at, caller, instance, wpc, cur, wakeups>>
  BY DEF Drop, queues, sender, writer
<1>2. /\ refc[m] \in Int /\ hold[m] \in 0..2 /\ leaked[m] \in Nat /\ leaked[m] <= MaxRejected + 1
      /\ Accounted(m)
  BY MessageKnown
<1>3. SendersTyped' /\ CountsTyped'
  BY <1>1, <1>2 DEF PInv, SendersTyped, CountsTyped
<1>4. /\ hold'[m] = hold[m] - 1 /\ refc'[m] = refc[m] - 1
      /\ \A x \in Messages : x # m => refc'[x] = refc[x] /\ hold'[x] = hold[x]
  BY <1>1 DEF PInv, CountsTyped
<1>5. \A x \in Messages : InQueue(x)' <=> InQueue(x)
  BY <1>1, QueuesSame DEF PInv
<1>6. Accounted(m)'
  <2>1. InAppend(m)' <=> InAppend(m)
    BY <1>1 DEF InAppend
  <2> QED
    BY <1>1, <1>2, <1>4, <1>5, <2>1 DEF Accounted
<1>7. SenderMoves(s, m)
  BY <1>1, <1>2, <1>4, <1>5, <1>6 DEF SenderMoves, LeaksLocal
<1> QED
  BY <1>1, <1>3, <1>7, SimpleSender DEF queues, writer

LEMMA EnqueueKeeps ==
  ASSUME PInv, NEW s \in Senders, NEW m \in Messages, NEW i \in Instances, Enqueue(s, m, i)
  PROVE  PInv'
<1>1. /\ pc[s] = "idle" /\ From[m] = s /\ hold[m] > 0 /\ leaked[m] < MaxRejected
      /\ pc' = [pc EXCEPT ![s] = "notify"] /\ msg' = [msg EXCEPT ![s] = m] /\ at' = [at EXCEPT ![s] = i]
      /\ UNCHANGED <<list_, end_el_, next, enqueued, refc, hold, leaked, caller, instance, wpc, cur, wakeups>>
  BY DEF Enqueue, queues, refs, writer
<1>2. leaked[m] \in Nat /\ leaked[m] <= MaxRejected + 1 /\ Accounted(m)
  BY MessageKnown
<1>3. SendersTyped' /\ CountsTyped'
  BY <1>1 DEF PInv, SendersTyped, CountsTyped
<1>4. /\ pc'[s] = "notify" /\ msg'[s] = m /\ at'[s] = i
      /\ \A t \in Senders : t # s => pc'[t] = pc[t] /\ msg'[t] = msg[t] /\ at'[t] = at[t]
  BY <1>1 DEF PInv, SendersTyped
<1>5. \A x \in Messages : InQueue(x)' <=> InQueue(x)
  BY <1>1, QueuesSame DEF PInv
<1>6. Accounted(m)'
  <2>1. ~InAppend(m)' /\ ~InAppend(m)
    BY <1>1, <1>4 DEF InAppend
  <2> QED
    BY <1>1, <1>2, <1>5, <2>1 DEF Accounted
<1>7. SenderMoves(s, m)
  BY <1>1, <1>2, <1>4, <1>5, <1>6 DEF SenderMoves, LeaksLocal
<1> QED
  BY <1>1, <1>3, <1>4, <1>7, SimpleSender DEF queues, writer

LEMMA NotifyKeeps ==
  ASSUME PInv, NEW s \in Senders, Notify(s)
  PROVE  PInv'
<1>1. PICK p \in {"ref", "unref"}, c \in {"transmit", "waker"} :
         pc' = [pc EXCEPT ![s] = p] /\ caller' = [caller EXCEPT ![s] = c]
  BY DEF Notify
<1>2. /\ pc[s] = "notify"
      /\ UNCHANGED <<list_, end_el_, next, enqueued, refc, hold, leaked, msg, at, instance, wpc, cur, wakeups>>
  BY DEF Notify, At, queues, refs, writer
<1>3. PICK m \in Messages : m = msg[s] /\ From[m] = s /\ hold[m] > 0 /\ at[s] \in Instances /\ LeaksLocal(s)
  BY <1>2, SenderKnown
<1>4. refc[m] \in Int /\ hold[m] \in 0..2 /\ leaked[m] \in Nat /\ leaked[m] <= MaxRejected + 1 /\ Accounted(m)
  BY MessageKnown
<1>5. /\ pc'[s] = p /\ caller'[s] = c /\ leaked[m] < MaxRejected
      /\ \A t \in Senders : t # s => pc'[t] = pc[t] /\ caller'[t] = caller[t]
  BY <1>1, <1>2, <1>3 DEF PInv, SendersTyped, LeaksLocal
<1>6. SendersTyped' /\ CountsTyped'
  BY <1>1, <1>2 DEF PInv, SendersTyped, CountsTyped
<1>7. \A x \in Messages : InQueue(x)' <=> InQueue(x)
  BY <1>2, QueuesSame DEF PInv
<1>8. Accounted(m)'
  <2>1. ~InAppend(m)' /\ ~InAppend(m)
    BY <1>2, <1>3, <1>5 DEF InAppend
  <2> QED
    BY <1>2, <1>4, <1>7, <2>1 DEF Accounted
<1>9. LeaksLocal(s)'
  BY <1>2, <1>3, <1>4, <1>5 DEF LeaksLocal
<1>10. SenderMoves(s, m)
  BY <1>2, <1>3, <1>4, <1>5, <1>7, <1>8, <1>9 DEF SenderMoves
<1> QED
  BY <1>2, <1>5, <1>6, <1>10, SimpleSender DEF queues, writer

LEMMA RefKeeps ==
  ASSUME PInv, NEW s \in Senders, Ref(s)
  PROVE  PInv'
<1>1. /\ pc[s] = "ref" /\ refc' = [refc EXCEPT ![msg[s]] = @ + 1] /\ pc' = [pc EXCEPT ![s] = "append"]
      /\ UNCHANGED <<list_, end_el_, next, enqueued, hold, leaked, msg, at, caller, instance, wpc, cur, wakeups>>
  BY DEF Ref, At, queues, writer
<1>2. PICK m \in Messages : m = msg[s] /\ From[m] = s /\ hold[m] > 0 /\ at[s] \in Instances /\ LeaksLocal(s)
  BY <1>1, SenderKnown
<1>3. refc[m] \in Int /\ hold[m] \in 0..2 /\ leaked[m] \in Nat /\ leaked[m] <= MaxRejected + 1 /\ Accounted(m)
  BY MessageKnown
<1>4. /\ refc'[m] = refc[m] + 1 /\ \A x \in Messages : x # m => refc'[x] = refc[x]
      /\ pc'[s] = "append" /\ \A t \in Senders : t # s => pc'[t] = pc[t]
  BY <1>1, <1>2, <1>3 DEF PInv, CountsTyped, SendersTyped
<1>5. SendersTyped' /\ CountsTyped'
  <2>1. refc' = [refc EXCEPT ![m] = refc[m] + 1]
    BY <1>1, <1>2
  <2> QED
    BY <1>1, <1>3, <2>1 DEF PInv, SendersTyped, CountsTyped
<1>6. \A x \in Messages : InQueue(x)' <=> InQueue(x)
  BY <1>1, QueuesSame DEF PInv
<1>7. Accounted(m)'
  <2>1. InAppend(m)' /\ ~InAppend(m)
    BY <1>1, <1>2, <1>4 DEF InAppend
  <2> QED
    BY <1>1, <1>3, <1>4, <1>6, <2>1 DEF Accounted
<1>8. LeaksLocal(s)'
  BY <1>1, <1>2, <1>4 DEF LeaksLocal
<1>9. SenderMoves(s, m)
  BY <1>1, <1>2, <1>3, <1>4, <1>6, <1>7, <1>8 DEF SenderMoves
<1> QED
  BY <1>1, <1>4, <1>5, <1>9, SimpleSender DEF queues, writer

LEMMA RejectedKeeps ==
  ASSUME PInv, NEW s \in Senders, AppendRejected(s)
  PROVE  PInv'
<1>1. /\ pc[s] = "append" /\ leaked' = [leaked EXCEPT ![msg[s]] = @ + 1]
      /\ UNCHANGED <<list_, end_el_, next, enqueued, refc, hold, instance, wpc, cur, wakeups>>
  BY DEF AppendRejected, At, queues, writer
<1>2. PICK m \in Messages : m = msg[s] /\ From[m] = s /\ hold[m] > 0 /\ at[s] \in Instances /\ LeaksLocal(s)
  BY <1>1, SenderKnown
<1>3. refc[m] \in Int /\ hold[m] \in 0..2 /\ leaked[m] \in Nat /\ leaked[m] <= MaxRejected + 1 /\ Accounted(m)
  BY MessageKnown
<1>4. /\ leaked'[m] = leaked[m] + 1 /\ \A x \in Messages : x # m => leaked'[x] = leaked[x]
      /\ CountsTyped'
  <2>1. leaked' = [leaked EXCEPT ![m] = leaked[m] + 1]
    BY <1>1, <1>2
  <2> QED
    BY <1>1, <1>3, <2>1 DEF PInv, CountsTyped
<1>5. \A x \in Messages : InQueue(x)' <=> InQueue(x)
  BY <1>1, QueuesSame DEF PInv
<1>6. ASSUME From[m] = s, pc'[s] # "append" PROVE Accounted(m)'
  <2>1. ~InAppend(m)' /\ InAppend(m)
    BY <1>1, <1>2, <1>6 DEF InAppend
  <2> QED
    BY <1>1, <1>3, <1>4, <1>5, <2>1 DEF Accounted
<1>7. CASE caller[s] = "waker"
  <2>1. /\ pc' = [pc EXCEPT ![s] = "ref"] /\ caller' = [caller EXCEPT ![s] = "transmit"]
        /\ UNCHANGED <<msg, at>>
    BY <1>7 DEF AppendRejected
  <2>2. /\ pc'[s] = "ref" /\ caller'[s] = "transmit" /\ msg'[s] = m /\ at'[s] = at[s] /\ SendersTyped'
        /\ \A t \in Senders : t # s => pc'[t] = pc[t] /\ caller'[t] = caller[t]
    BY <1>2, <2>1 DEF PInv, SendersTyped
  <2>3. leaked[m] < MaxRejected
    BY <1>1, <1>2, <1>7 DEF LeaksLocal
  <2>4. leaked'[m] < MaxRejected + 1
    BY <1>3, <1>4, <2>3
  <2>5. LeaksLocal(s)'
    BY <1>2, <2>1, <2>2, <2>4 DEF LeaksLocal
  <2>6. leaked'[m] <= MaxRejected + 1 /\ Accounted(m)'
    BY <1>2, <1>3, <1>4, <1>6, <2>2, <2>4
  <2>7. SenderMoves(s, m)
    BY <1>1, <1>2, <1>4, <1>5, <2>1, <2>2, <2>5, <2>6 DEF SenderMoves
  <2> QED
    BY <1>1, <1>4, <2>2, <2>7, SimpleSender DEF queues, writer
<1>8. CASE caller[s] # "waker"
  <2>1. /\ pc' = [pc EXCEPT ![s] = "idle"] /\ msg' = [msg EXCEPT ![s] = Null]
        /\ at' = [at EXCEPT ![s] = Null] /\ caller' = [caller EXCEPT ![s] = "transmit"]
    BY <1>8 DEF AppendRejected, Return
  <2>2. /\ pc'[s] = "idle" /\ SendersTyped'
        /\ \A t \in Senders : t # s => pc'[t] = pc[t] /\ msg'[t] = msg[t] /\ at'[t] = at[t] /\ caller'[t] = caller[t]
    BY <2>1 DEF PInv, SendersTyped
  <2>3. leaked[m] < MaxRejected + 1
    BY <1>1, <1>2, <1>8 DEF LeaksLocal
  <2>4. leaked'[m] <= MaxRejected + 1 /\ Accounted(m)'
    BY <1>2, <1>3, <1>4, <1>6, <2>2, <2>3
  <2>5. LeaksLocal(s)'
    BY <2>2 DEF LeaksLocal
  <2>6. SenderMoves(s, m)
    BY <1>1, <1>2, <1>4, <1>5, <2>2, <2>4, <2>5 DEF SenderMoves
  <2> QED
    BY <1>1, <1>4, <2>2, <2>6, SimpleSender DEF queues, writer
<1> QED
  BY <1>7, <1>8

LEMMA UnrefKeeps ==
  ASSUME PInv, NEW s \in Senders, Unref(s)
  PROVE  PInv'
<1>1. /\ pc[s] = "unref"
      /\ hold' = [hold EXCEPT ![msg[s]] = @ - 1] /\ refc' = [refc EXCEPT ![msg[s]] = @ - 1]
      /\ pc' = [pc EXCEPT ![s] = "idle"] /\ msg' = [msg EXCEPT ![s] = Null]
      /\ at' = [at EXCEPT ![s] = Null] /\ caller' = [caller EXCEPT ![s] = "transmit"]
      /\ UNCHANGED <<list_, end_el_, next, enqueued, leaked, instance, wpc, cur, wakeups>>
  BY DEF Unref, Return, queues, writer
<1>2. PICK m \in Messages : m = msg[s] /\ From[m] = s /\ hold[m] > 0
  BY <1>1, SenderKnown
<1>3. refc[m] \in Int /\ hold[m] \in 0..2 /\ leaked[m] \in Nat /\ leaked[m] <= MaxRejected + 1 /\ Accounted(m)
  BY MessageKnown
<1>4. /\ hold' = [hold EXCEPT ![m] = hold[m] - 1] /\ refc' = [refc EXCEPT ![m] = refc[m] - 1]
      /\ hold[m] - 1 \in 0..2 /\ refc[m] - 1 \in Int
  BY <1>1, <1>2, <1>3
<1>5. /\ hold'[m] = hold[m] - 1 /\ refc'[m] = refc[m] - 1 /\ CountsTyped'
      /\ \A x \in Messages : x # m => refc'[x] = refc[x] /\ hold'[x] = hold[x]
  BY <1>1, <1>4 DEF PInv, CountsTyped
<1>6. /\ pc'[s] = "idle" /\ SendersTyped'
      /\ \A t \in Senders : t # s => pc'[t] = pc[t] /\ msg'[t] = msg[t] /\ at'[t] = at[t] /\ caller'[t] = caller[t]
  BY <1>1 DEF PInv, SendersTyped
<1>7. \A x \in Messages : InQueue(x)' <=> InQueue(x)
  BY <1>1, QueuesSame DEF PInv
<1>8. Accounted(m)'
  <2>1. ~InAppend(m)' /\ ~InAppend(m)
    BY <1>1, <1>2, <1>6 DEF InAppend
  <2> QED
    BY <1>1, <1>3, <1>5, <1>7, <2>1 DEF Accounted
<1>9. LeaksLocal(s)'
  BY <1>6 DEF LeaksLocal
<1>10. SenderMoves(s, m)
  BY <1>1, <1>2, <1>3, <1>5, <1>6, <1>7, <1>8, <1>9 DEF SenderMoves
<1> QED
  BY <1>1, <1>5, <1>6, <1>10, SimpleSender DEF queues, writer

\* A thread is woken for a message that is marked.
LEMMA WakeKeeps ==
  ASSUME PInv, NEW s \in Senders, Wake(s)
  PROVE  PInv'
<1>1. /\ pc[s] = "wake" /\ wakeups' = [wakeups EXCEPT ![at[s]] = @ + 1] /\ pc' = [pc EXCEPT ![s] = "unref"]
      /\ UNCHANGED <<list_, end_el_, next, enqueued, refc, hold, leaked, msg, at, caller, instance, wpc, cur>>
  BY DEF Wake, queues, refs
<1>2. PICK m \in Messages, i \in Instances : m = msg[s] /\ From[m] = s /\ hold[m] > 0 /\ i = at[s]
  BY <1>1, SenderKnown
<1>3. leaked[m] <= MaxRejected + 1 /\ Accounted(m)
  BY MessageKnown
<1>4. /\ pc'[s] = "unref" /\ SendersTyped' /\ \A t \in Senders : t # s => pc'[t] = pc[t]
  BY <1>1 DEF PInv, SendersTyped
<1>5. /\ wakeups'[i] = wakeups[i] + 1 /\ \A j \in Instances : j # i => wakeups'[j] = wakeups[j]
      /\ CountsTyped' /\ \A j \in Instances : wakeups[j] \in Nat
  BY <1>1, <1>2 DEF PInv, CountsTyped
<1>6. \A x \in Messages : InQueue(x)' <=> InQueue(x)
  BY <1>1, QueuesSame DEF PInv
<1>7. QueuesTyped' /\ QueuesAgree'
  BY <1>1, QueuesSame DEF PInv
<1>8. WritersTyped' /\ WritersAgree' /\ WorksOnFirst'
  BY <1>1 DEF PInv, WritersTyped, WritersAgree, WorksOnFirst
<1>9. SenderMoves(s, m)
  <2>1. ~InAppend(m)' /\ ~InAppend(m)
    BY <1>1, <1>2, <1>4 DEF InAppend
  <2>2. Accounted(m)'
    BY <1>1, <1>3, <1>6, <2>1 DEF Accounted
  <2>3. LeaksLocal(s)'
    BY <1>4 DEF LeaksLocal
  <2> QED
    BY <1>1, <1>2, <1>3, <1>4, <1>6, <2>2, <2>3 DEF SenderMoves
<1>10. WakeupsCovered'
  <2>1. Marked' = Marked /\ Wakers' = Wakers \ {s} /\ s \in Wakers
    BY <1>1, <1>4 DEF Marked, Wakers
  <2>2. IsFiniteSet(Wakers)
    BY FS_Subset DEF Wakers
  <2>3. Cardinality(Wakers \ {s}) = Cardinality(Wakers) - 1 /\ Cardinality(Wakers) \in Nat
    BY <2>1, <2>2, FS_RemoveElement, FS_CardinalityType
  <2>4. \A j \in Instances : wakeups[j] + Cardinality(Wakers) <= Cardinality(Marked)
    BY DEF PInv, WakeupsCovered, Wakers, Marked
  <2>5. Cardinality(Marked) \in Nat
    BY FS_Subset, FS_CardinalityType DEF Marked
  <2>6. ASSUME NEW j \in Instances PROVE wakeups'[j] + Cardinality(Wakers') <= Cardinality(Marked')
    <3>1. PICK cw \in Nat, cm \in Nat : cw = Cardinality(Wakers) /\ cm = Cardinality(Marked)
      BY <2>3, <2>5
    <3>2. Cardinality(Wakers') = cw - 1 /\ Cardinality(Marked') = cm
      BY <2>1, <2>3, <3>1
    <3>3. wakeups[j] + cw <= cm /\ wakeups[j] \in Nat /\ (wakeups'[j] = wakeups[j] \/ wakeups'[j] = wakeups[j] + 1)
      BY <1>5, <2>4, <3>1
    <3> QED
      BY <3>2, <3>3
  <2> QED
    BY <2>6 DEF WakeupsCovered, Wakers, Marked
<1> QED
  BY <1>4, <1>5, <1>7, <1>8, <1>9, <1>10, SenderKeeps DEF PInv

\* A message is appended: its reference is the queue's now, or lost if the queue is torn.
LEMMA AppendKeeps ==
  ASSUME PInv, NEW s \in Senders, append(s)
  PROVE  PInv'
<1>1. /\ pc[s] = "append" /\ ~enqueued[msg[s]]
      /\ enqueued' = [enqueued EXCEPT ![msg[s]] = TRUE] /\ Link(at[s], msg[s])
      /\ leaked' = [leaked EXCEPT ![msg[s]] = @ + IF Torn(at[s]) THEN 1 ELSE 0]
      /\ pc' = [pc EXCEPT ![s] = IF caller[s] = "waker" THEN "wake" ELSE "unref"]
      /\ UNCHANGED <<refc, hold, msg, at, caller, instance, wpc, cur, wakeups>>
  BY DEF append, At, writer
<1>2. PICK m \in Messages, i \in Instances :
         m = msg[s] /\ From[m] = s /\ hold[m] > 0 /\ i = at[s] /\ LeaksLocal(s)
  BY <1>1, SenderKnown
<1>3. refc[m] \in Int /\ hold[m] \in 0..2 /\ leaked[m] \in Nat /\ leaked[m] <= MaxRejected + 1 /\ Accounted(m)
  BY MessageKnown
<1>4. /\ QueuesTyped' /\ QueuesAgree'
      /\ \A j \in Instances, x \in Messages : Queued(j, x)' <=> Queued(j, x) \/ (j = i /\ x = m /\ ~Torn(i))
      /\ \A j \in Instances : ~Queued(j, m)
  <2>1. QueuesTyped /\ QueuesAgree /\ ~enqueued[m] /\ enqueued' = [enqueued EXCEPT ![m] = TRUE] /\ Link(i, m)
    BY <1>1, <1>2 DEF PInv
  <2> QED
    BY <2>1, LinkDoes
<1>5. PICK d \in {0, 1} : d = (IF Torn(i) THEN 1 ELSE 0)
  OBVIOUS
<1>6. PICK p \in {"wake", "unref"} : p = IF caller[s] = "waker" THEN "wake" ELSE "unref"
  OBVIOUS
<1>7. /\ leaked' = [leaked EXCEPT ![m] = leaked[m] + d] /\ leaked[m] + d \in Nat
      /\ pc' = [pc EXCEPT ![s] = p]
  BY <1>1, <1>2, <1>3, <1>5, <1>6
<1>8. /\ leaked'[m] = leaked[m] + d /\ \A x \in Messages : x # m => leaked'[x] = leaked[x]
      /\ pc'[s] = p /\ \A t \in Senders : t # s => pc'[t] = pc[t]
      /\ SendersTyped' /\ CountsTyped'
  <2>1. leaked \in [Messages -> Nat] /\ pc \in [Senders -> {"idle", "notify", "ref", "append", "wake", "unref"}]
    BY DEF PInv, CountsTyped, SendersTyped
  <2>2. leaked' \in [Messages -> Nat] /\ leaked'[m] = leaked[m] + d
        /\ \A x \in Messages : x # m => leaked'[x] = leaked[x]
    BY <1>7, <2>1
  <2>3. /\ pc' \in [Senders -> {"idle", "notify", "ref", "append", "wake", "unref"}]
        /\ pc'[s] = p /\ \A t \in Senders : t # s => pc'[t] = pc[t]
    BY <1>7, <2>1
  <2>4. CountsTyped'
    BY <1>1, <2>2 DEF PInv, CountsTyped
  <2>5. SendersTyped'
    BY <1>1, <2>3 DEF PInv, SendersTyped
  <2> QED
    BY <2>2, <2>3, <2>4, <2>5
<1>9. (\A x \in Messages : x # m => (InQueue(x)' <=> InQueue(x))) /\ ~InQueue(m) /\ (InQueue(m)' <=> ~Torn(i))
  BY <1>4 DEF InQueue
<1>10. SenderMoves(s, m)
  <2>1. ~InAppend(m)' /\ InAppend(m)
    BY <1>1, <1>2, <1>8 DEF InAppend
  <2>2. Accounted(m)'
    <3>1. CASE Torn(i)
      BY <1>1, <1>3, <1>5, <1>8, <1>9, <2>1, <3>1 DEF Accounted
    <3>2. CASE ~Torn(i)
      BY <1>1, <1>3, <1>5, <1>8, <1>9, <2>1, <3>2 DEF Accounted
    <3> QED
      BY <3>1, <3>2
  <2>3. LeaksLocal(s)'
    BY <1>8 DEF LeaksLocal
  <2>4. leaked'[m] <= MaxRejected + 1
    <3>1. leaked[m] < MaxRejected + 1
      BY <1>1, <1>2, <1>3 DEF LeaksLocal
    <3> QED
      BY <1>3, <1>8, <3>1
  <2> QED
    BY <1>1, <1>2, <1>8, <1>9, <2>2, <2>3, <2>4 DEF SenderMoves
<1>11. WritersTyped' /\ WritersAgree'
  BY <1>1 DEF PInv, WritersTyped, WritersAgree
<1>12. WorksOnFirst'
  <2> SUFFICES ASSUME NEW j \in Instances, cur'[j] # Null PROVE cur'[j] = list_'[j]
    BY DEF WorksOnFirst
  <2>1. cur[j] = list_[j] /\ list_[j] # Null /\ cur'[j] = cur[j]
    BY <1>1 DEF PInv, WorksOnFirst
  <2>2. list_' = IF list_[i] = Null THEN [list_ EXCEPT ![i] = m] ELSE list_
    BY <1>1, <1>2 DEF Link
  <2> QED
    BY <2>1, <2>2 DEF PInv, QueuesTyped
<1>13. WakeupsCovered'
  <2>1. Marked' = Marked \cup {m} /\ m \notin Marked
    BY <1>1, <1>2 DEF Marked, PInv, QueuesTyped
  <2>2. Wakers' = Wakers \/ (Wakers' = Wakers \cup {s} /\ s \notin Wakers)
    BY <1>1, <1>8 DEF Wakers
  <2>3. IsFiniteSet(Wakers) /\ IsFiniteSet(Marked)
    BY FS_Subset DEF Wakers, Marked
  <2>4. PICK cw \in Nat, cm \in Nat : cw = Cardinality(Wakers) /\ cm = Cardinality(Marked)
    BY <2>3, FS_CardinalityType
  <2>5. Cardinality(Marked') = cm + 1
    BY <2>1, <2>3, <2>4, FS_AddElement
  <2>6. Cardinality(Wakers') = cw \/ Cardinality(Wakers') = cw + 1
    BY <2>2, <2>3, <2>4, FS_AddElement
  <2>7. ASSUME NEW j \in Instances PROVE wakeups'[j] + Cardinality(Wakers') <= Cardinality(Marked')
    <3>1. wakeups[j] + cw <= cm /\ wakeups[j] \in Nat /\ wakeups'[j] = wakeups[j]
      BY <1>1, <2>4 DEF PInv, WakeupsCovered, Wakers, Marked, CountsTyped
    <3> QED
      BY <2>5, <2>6, <3>1
  <2> QED
    BY <2>7 DEF WakeupsCovered, Wakers, Marked
<1> QED
  BY <1>4, <1>8, <1>10, <1>11, <1>12, <1>13, SenderKeeps DEF PInv

\* What is the same in all steps of a writer.
LEMMA WriterKeeps ==
  ASSUME PInv, QueuesTyped', QueuesAgree', WritersTyped', WritersAgree', WorksOnFirst',
         UNCHANGED <<enqueued, hold, leaked, pc, msg, at, caller>>,
         refc' \in [Messages -> Int], wakeups' \in [Instances -> Nat],
         \A i \in Instances : wakeups'[i] <= wakeups[i],
         \A m \in Messages : Accounted(m)'
  PROVE  PInv'
<1>1. SendersTyped' /\ CountsTyped'
  BY DEF PInv, SendersTyped, CountsTyped
<1>2. SendersAgree' /\ LeaksBounded'
  BY DEF PInv, SendersAgree, LeaksBounded
<1>3. WakeupsCovered'
  <2>1. Wakers' = Wakers /\ Marked' = Marked
    BY DEF Wakers, Marked
  <2>2. IsFiniteSet(Wakers) /\ IsFiniteSet(Marked)
    BY FS_Subset DEF Wakers, Marked
  <2>3. PICK cw \in Nat, cm \in Nat : cw = Cardinality(Wakers) /\ cm = Cardinality(Marked)
    BY <2>2, FS_CardinalityType
  <2>4. ASSUME NEW j \in Instances PROVE wakeups'[j] + Cardinality(Wakers') <= Cardinality(Marked')
    <3>1. wakeups[j] + cw <= cm /\ wakeups[j] \in Nat /\ wakeups'[j] \in Nat /\ wakeups'[j] <= wakeups[j]
      BY <2>3 DEF PInv, WakeupsCovered, Wakers, Marked, CountsTyped
    <3> QED
      BY <2>1, <2>3, <3>1
  <2> QED
    BY <2>4 DEF WakeupsCovered, Wakers, Marked
<1> QED
  BY <1>1, <1>2, <1>3 DEF PInv

\* Steps of a writer that change no queue.
LEMMA SimpleWriter ==
  ASSUME PInv, WritersTyped', WritersAgree', WorksOnFirst', UNCHANGED <<queues, refs, sender>>,
         wakeups' \in [Instances -> Nat], \A i \in Instances : wakeups'[i] <= wakeups[i]
  PROVE  PInv'
<1>1. UNCHANGED <<list_, end_el_, next, enqueued, refc, hold, leaked, pc, msg, at, caller>>
  BY DEF queues, refs, sender
<1>2. QueuesTyped' /\ QueuesAgree' /\ \A x \in Messages : InQueue(x)' <=> InQueue(x)
  BY <1>1, QueuesSame DEF PInv
<1>3. ASSUME NEW m \in Messages PROVE Accounted(m)'
  <2>1. InAppend(m)' <=> InAppend(m)
    BY <1>1 DEF InAppend
  <2> QED
    BY <1>1, <1>2, <2>1 DEF PInv, Accounted
<1>4. refc' \in [Messages -> Int]
  BY <1>1 DEF PInv, CountsTyped
<1> QED
  BY <1>1, <1>2, <1>3, <1>4, WriterKeeps

LEMMA LoopKeeps ==
  ASSUME PInv, NEW i \in Instances, NEW start \in {"loop", "locked"}, Loop(i, start)
  PROVE  PInv'
<1>1. /\ wpc[i] = "asleep" /\ instance[i] = "open" /\ (i \in Woken => wakeups[i] > 0)
      /\ wakeups' = [wakeups EXCEPT ![i] = IF i \in Woken THEN @ - 1 ELSE @]
      /\ wpc' = [wpc EXCEPT ![i] = start] /\ UNCHANGED <<queues, refs, sender, instance, cur, list_>>
  BY DEF Loop, queues
<1>2. wakeups \in [Instances -> Nat]
  BY DEF PInv, CountsTyped
<1>3. PICK w \in Nat : w <= wakeups[i] /\ wakeups' = [wakeups EXCEPT ![i] = w]
  <2>1. CASE i \in Woken
    <3>1. wakeups[i] - 1 \in Nat /\ wakeups[i] - 1 <= wakeups[i]
      BY <1>1, <1>2, <2>1
    <3> QED
      BY <1>1, <2>1, <3>1
  <2>2. CASE i \notin Woken
    <3>1. wakeups[i] \in Nat /\ wakeups[i] <= wakeups[i]
      BY <1>2
    <3>2. wakeups' = [wakeups EXCEPT ![i] = wakeups[i]]
      BY <1>1, <2>2
    <3> QED
      BY <3>1, <3>2
  <2> QED
    BY <2>1, <2>2
<1>4. wakeups' \in [Instances -> Nat] /\ \A j \in Instances : wakeups'[j] <= wakeups[j]
  BY <1>2, <1>3
<1>5. WritersTyped' /\ WritersAgree' /\ WorksOnFirst'
  BY <1>1 DEF PInv, WritersTyped, WritersAgree, WorksOnFirst
<1> QED
  BY <1>1, <1>4, <1>5, SimpleWriter

LEMMA ThreadKeeps ==
  ASSUME PInv, NEW i \in Instances, First(i) \/ Sleep(i) \/ Unlock(i) \/ Open(i) \/ Close(i)
  PROVE  PInv'
<1>1. UNCHANGED <<queues, refs, sender, wakeups, list_>>
  BY DEF First, Sleep, Unlock, Open, Close, queues, writer
<1>2. wakeups' \in [Instances -> Nat] /\ \A j \in Instances : wakeups'[j] <= wakeups[j]
  BY <1>1 DEF PInv, CountsTyped
<1>3. WritersTyped /\ WritersAgree /\ WorksOnFirst /\ \A j \in Instances : list_[j] \in Messages \cup {Null}
  BY DEF PInv, QueuesTyped, Elements
<1>4. WritersTyped' /\ WritersAgree' /\ WorksOnFirst'
  <2>1. CASE First(i)
    <3>1. /\ wpc[i] = "loop" /\ cur' = [cur EXCEPT ![i] = list_[i]] /\ instance' = instance
          /\ wpc' = [wpc EXCEPT ![i] = IF list_[i] = Null THEN "leaving" ELSE "loop"]
      BY <2>1 DEF First
    <3>2. WritersTyped'
      BY <1>3, <3>1 DEF WritersTyped
    <3>3. WritersAgree'
      BY <1>3, <3>1 DEF WritersTyped, WritersAgree
    <3>4. WorksOnFirst'
      BY <1>1, <1>3, <3>1 DEF WritersTyped, WorksOnFirst
    <3> QED
      BY <3>2, <3>3, <3>4
  <2>2. CASE Sleep(i)
    <3>1. wpc[i] = "leaving" /\ wpc' = [wpc EXCEPT ![i] = "asleep"] /\ UNCHANGED <<instance, cur>>
      BY <2>2 DEF Sleep
    <3> QED
      BY <1>1, <1>3, <3>1 DEF WritersTyped, WritersAgree, WorksOnFirst
  <2>3. CASE Unlock(i)
    <3>1. wpc[i] = "locked" /\ wpc' = [wpc EXCEPT ![i] = "loop"] /\ UNCHANGED <<instance, cur>>
      BY <2>3 DEF Unlock
    <3> QED
      BY <1>1, <1>3, <3>1 DEF WritersTyped, WritersAgree, WorksOnFirst
  <2>4. CASE Open(i)
    <3>1. instance' = [instance EXCEPT ![i] = "open"] /\ UNCHANGED <<wpc, cur>>
      BY <2>4 DEF Open, writer
    <3> QED
      BY <1>1, <1>3, <3>1 DEF WritersTyped, WritersAgree, WorksOnFirst
  <2>5. CASE Close(i)
    <3>1. wpc[i] = "asleep" /\ instance' = [instance EXCEPT ![i] = "closing"] /\ UNCHANGED <<wpc, cur>>
      BY <2>5 DEF Close, writer
    <3> QED
      BY <1>1, <1>3, <3>1 DEF WritersTyped, WritersAgree, WorksOnFirst
  <2> QED
    BY <2>1, <2>2, <2>3, <2>4, <2>5
<1> QED
  BY <1>1, <1>2, <1>4, SimpleWriter

\* msgq_pop() and msgq_remove(): the queue gives its reference back.
LEMMA UnlinkKeeps ==
  ASSUME PInv, NEW i \in Instances, NEW m \in Messages, Queued(i, m), Unlink(i, m),
         UNCHANGED <<sender, wakeups>>, WritersTyped', WritersAgree', WorksOnFirst'
  PROVE  PInv'
<1>1. /\ refc' = [refc EXCEPT ![m] = @ - 1]
      /\ UNCHANGED <<enqueued, hold, leaked, pc, msg, at, caller, wakeups>>
  BY DEF Unlink, sender
<1>2. /\ QueuesTyped' /\ QueuesAgree'
      /\ \A j \in Instances, x \in Messages : Queued(j, x)' <=> Queued(j, x) /\ x # m
  BY UnlinkDoes DEF PInv
<1>3. InQueue(m) /\ ~InQueue(m)' /\ \A x \in Messages : x # m => (InQueue(x)' <=> InQueue(x))
  BY <1>2 DEF InQueue
<1>4. refc \in [Messages -> Int] /\ leaked \in [Messages -> Nat] /\ hold \in [Messages -> 0..2]
      /\ wakeups \in [Instances -> Nat]
  BY DEF PInv, CountsTyped
<1>5. refc' \in [Messages -> Int] /\ refc'[m] = refc[m] - 1 /\ \A x \in Messages : x # m => refc'[x] = refc[x]
  BY <1>1, <1>4
<1>6. ASSUME NEW x \in Messages PROVE Accounted(x)'
  <2>1. (InAppend(x)' <=> InAppend(x)) /\ Accounted(x) /\ hold'[x] = hold[x] /\ leaked'[x] = leaked[x]
        /\ refc[x] \in Int /\ leaked[x] \in Nat /\ hold[x] \in 0..2
    BY <1>1, <1>4 DEF InAppend, PInv
  <2>2. CASE x = m
    BY <1>3, <1>5, <2>1, <2>2 DEF Accounted
  <2>3. CASE x # m
    BY <1>3, <1>5, <2>1, <2>3 DEF Accounted
  <2> QED
    BY <2>2, <2>3
<1>7. wakeups' \in [Instances -> Nat] /\ \A j \in Instances : wakeups'[j] <= wakeups[j]
  BY <1>1, <1>4
<1> QED
  BY <1>1, <1>2, <1>5, <1>6, <1>7, WriterKeeps

LEMMA PopKnown ==
  ASSUME PInv, NEW i \in Instances, cur[i] # Null
  PROVE  cur[i] = list_[i] /\ list_[i] \in Messages /\ Queued(i, list_[i])
<1>1. cur[i] = list_[i] /\ list_[i] # Null
  BY DEF PInv, WorksOnFirst
<1>2. /\ list_[i] \in Messages /\ Len(Chain(i)) \in Nat /\ Len(Chain(i)) >= 1 /\ Chain(i)[1] = list_[i]
      /\ \A m : Queued(i, m) <=> \E k \in 1..Len(Chain(i)) : Chain(i)[k] = m
  BY <1>1, ChainIs DEF PInv, QueuesAgree
<1>3. 1 \in 1..Len(Chain(i))
  BY <1>2
<1> QED
  BY <1>1, <1>2, <1>3

LEMMA PopKeeps ==
  ASSUME PInv, NEW i \in Instances, Pop(i)
  PROVE  PInv'
<1>1. /\ wpc[i] = "loop" /\ cur[i] # Null /\ Unlink(i, list_[i]) /\ cur' = [cur EXCEPT ![i] = Null]
      /\ UNCHANGED <<sender, instance, wpc, wakeups>>
  BY DEF Pop
<1>2. PICK m \in Messages : m = list_[i] /\ Queued(i, m)
  BY <1>1, PopKnown
<1>3. Unlink(i, m)
  BY <1>1, <1>2
<1>4. WritersTyped' /\ WritersAgree'
  BY <1>1 DEF PInv, WritersTyped, WritersAgree
<1>5. WorksOnFirst'
  <2>1. \A j \in Instances : j # i => list_'[j] = list_[j]
    BY <1>3 DEF Unlink, PInv, QueuesTyped
  <2> QED
    BY <1>1, <2>1 DEF PInv, WorksOnFirst, WritersTyped
<1> QED
  BY <1>1, <1>2, <1>3, <1>4, <1>5, UnlinkKeeps

LEMMA RemoveKeeps ==
  ASSUME PInv, NEW i \in Instances, NEW m \in Messages, msgq_remove(i, m)
  PROVE  PInv'
<1>1. wpc[i] = "loop" /\ cur[i] = Null /\ Queued(i, m) /\ Unlink(i, m)
      /\ UNCHANGED <<sender, instance, wpc, cur, wakeups>>
  BY DEF msgq_remove, writer
<1>2. WritersTyped' /\ WritersAgree'
  BY <1>1 DEF PInv, WritersTyped, WritersAgree
<1>3. WorksOnFirst'
  <2>1. \A j \in Instances : j # i => list_'[j] = list_[j]
    BY <1>1 DEF Unlink, PInv, QueuesTyped
  <2> QED
    BY <1>1, <2>1 DEF PInv, WorksOnFirst
<1> QED
  BY <1>1, <1>2, <1>3, UnlinkKeeps

\* flush(): all references of the queue are given back.
LEMMA FlushKeeps ==
  ASSUME PInv, NEW i \in Instances, Flush(i) \/ Delete(i)
  PROVE  PInv'
<1>1. /\ Flushed(i) /\ UNCHANGED <<pc, msg, at, caller, wpc, cur, wakeups>>
      /\ refc' = [m \in Messages |-> IF Queued(i, m) THEN refc[m] - 1 ELSE refc[m]]
      /\ UNCHANGED <<enqueued, hold, leaked>> /\ list_' = [list_ EXCEPT ![i] = Null]
  BY DEF Flush, Delete, Flushed, sender, writer
<1>2. /\ QueuesTyped' /\ QueuesAgree'
      /\ \A j \in Instances, x \in Messages : Queued(j, x)' <=> Queued(j, x) /\ j # i
  BY <1>1, FlushDoes DEF PInv
<1>3. /\ cur[i] = Null
      /\ instance' = instance \/ (instance' = [instance EXCEPT ![i] = "deleted"] /\ wpc[i] = "asleep")
  BY DEF Flush, Delete, PInv, WritersAgree, WritersTyped
<1>4. WritersTyped' /\ WritersAgree'
  BY <1>1, <1>3 DEF PInv, WritersTyped, WritersAgree
<1>5. WorksOnFirst'
  BY <1>1, <1>3 DEF PInv, QueuesTyped, WorksOnFirst
<1>6. refc \in [Messages -> Int] /\ leaked \in [Messages -> Nat] /\ hold \in [Messages -> 0..2]
      /\ wakeups \in [Instances -> Nat]
  BY DEF PInv, CountsTyped
<1>7. refc' \in [Messages -> Int]
  BY <1>1, <1>6
<1>8. ASSUME NEW x \in Messages PROVE Accounted(x)'
  <2>1. (InAppend(x)' <=> InAppend(x)) /\ Accounted(x) /\ hold'[x] = hold[x] /\ leaked'[x] = leaked[x]
        /\ refc[x] \in Int /\ leaked[x] \in Nat /\ hold[x] \in 0..2
    BY <1>1, <1>6 DEF InAppend, PInv
  <2>2. CASE Queued(i, x)
    <3>1. refc'[x] = refc[x] - 1 /\ InQueue(x)
      BY <1>1, <2>2 DEF InQueue
    <3>2. ~InQueue(x)'
      BY <1>2, <2>2 DEF InQueue, PInv, QueuesAgree
    <3> QED
      BY <2>1, <3>1, <3>2 DEF Accounted
  <2>3. CASE ~Queued(i, x)
    <3>1. refc'[x] = refc[x] /\ (InQueue(x)' <=> InQueue(x))
      BY <1>1, <1>2, <2>3 DEF InQueue
    <3> QED
      BY <2>1, <3>1 DEF Accounted
  <2> QED
    BY <2>2, <2>3
<1>9. wakeups' \in [Instances -> Nat] /\ \A j \in Instances : wakeups'[j] <= wakeups[j]
  BY <1>1, <1>6
<1> QED
  BY <1>1, <1>2, <1>4, <1>5, <1>7, <1>8, <1>9, WriterKeeps

LEMMA PInvInit == Init => PInv
<1> SUFFICES ASSUME Init PROVE PInv
  OBVIOUS
<1>1. QueuesTyped /\ SendersTyped /\ WritersTyped /\ CountsTyped
  <2>1. \A m \in Messages : (IF m \in Kept THEN 2 ELSE 1) \in 0..2 /\ (IF m \in Kept THEN 2 ELSE 1) \in Int
    OBVIOUS
  <2>2. hold \in [Messages -> 0..2] /\ refc \in [Messages -> Int]
    BY <2>1 DEF Init
  <2> QED
    BY <2>2 DEF Init, QueuesTyped, SendersTyped, WritersTyped, CountsTyped, Elements
<1>2. Linked(next)
  <2> DEFINE nx == [m \in Messages |-> Null]
             f == [x \in Elements |-> IF x = Null THEN <<>> ELSE <<x>>]
  <2>1. nx \in [Messages -> Elements] /\ f \in [Elements -> Seq(Messages)] /\ f[Null] = <<>>
        /\ \A m \in Messages : f[m] = <<m>> /\ nx[m] = Null
    BY DEF Elements
  <2> HIDE DEF f, nx
  <2>2. Follows(f, nx)
    <3>1. Len(f[Null]) = 0
      BY <2>1
    <3>2. ASSUME NEW m \in Messages
          PROVE  /\ Len(f[m]) = Len(f[nx[m]]) + 1 /\ f[m][1] = m
                 /\ \A k \in 1..Len(f[nx[m]]) : f[m][k + 1] = f[nx[m]][k]
      <4>1. Len(f[nx[m]]) = 0
        BY <2>1, <3>1
      <4>2. Len(<<m>>) = 1 /\ <<m>>[1] = m
        OBVIOUS
      <4>4. f[m] = <<m>>
        BY <2>1
      <4>3. \A k \in 1..0 : f[m][k + 1] = f[nx[m]][k]
        OBVIOUS
      <4> QED
        BY <4>1, <4>2, <4>3, <4>4
    <3> QED
      BY <2>1, <3>1, <3>2 DEF Follows
  <2>3. Linked(nx)
    BY <2>1, <2>2, LinkedIs
  <2> QED
    BY <2>3 DEF Init, nx
<1>3. \A i \in Instances, x \in Elements : ~Queued(i, x)
  <2>1. \A i \in Instances : Chain(i) = <<>>
    BY <1>1, <1>2, EmptyChain DEF Init
  <2> QED
    BY <2>1 DEF Queued, ToSet
<1>4. QueuesAgree
  <2>1. Messages \subseteq Elements /\ (\A i \in Instances : end_el_[i] \in Elements) /\ \A m \in Messages : next[m] = Null
    BY DEF Elements, Init
  <2> QED
    BY <1>2, <1>3, <2>1 DEF QueuesAgree
<1>5. SendersAgree /\ LeaksBounded /\ WritersAgree /\ WorksOnFirst
  BY DEF Init, SendersAgree, LeaksBounded, WritersAgree, WorksOnFirst
<1>6. WakeupsCovered
  <2>1. Wakers = {} /\ Marked = {}
    BY DEF Init, Wakers, Marked
  <2>2. Cardinality(Wakers) = 0 /\ Cardinality(Marked) = 0
    BY <2>1, FS_EmptySet
  <2>3. \A i \in Instances : wakeups[i] = 0
    BY DEF Init
  <2> QED
    BY <2>2, <2>3 DEF WakeupsCovered, Wakers, Marked
<1>7. ASSUME NEW m \in Messages PROVE Accounted(m)
  <2>1. ~InQueue(m) /\ ~InAppend(m)
    BY <1>3 DEF InQueue, InAppend, Elements, Init
  <2>2. refc[m] = hold[m] /\ leaked[m] = 0 /\ refc[m] \in Int
    BY <1>1 DEF Init, CountsTyped
  <2> QED
    BY <2>1, <2>2 DEF Accounted
<1> QED
  BY <1>1, <1>4, <1>5, <1>6, <1>7 DEF PInv

\* A step that changes none of it, such as one that leaves the defined behaviour.
LEMMA NothingMoved ==
  ASSUME PInv, UNCHANGED <<queues, refs, sender, instance, writer>>
  PROVE  PInv'
<1>1. UNCHANGED <<list_, instance, wpc, cur, wakeups>>
  BY DEF queues, writer
<1>2. WritersTyped' /\ WritersAgree' /\ WorksOnFirst'
  BY <1>1 DEF PInv, WritersTyped, WritersAgree, WorksOnFirst
<1>3. wakeups' \in [Instances -> Nat] /\ \A j \in Instances : wakeups'[j] <= wakeups[j]
  BY <1>1 DEF PInv, CountsTyped
<1> QED
  BY <1>2, <1>3, SimpleWriter

LEMMA PInvNext == PInv /\ [Next]_vars => PInv'
<1> SUFFICES ASSUME PInv, [Next]_vars PROVE PInv'
  OBVIOUS
<1>1. ASSUME NEW s \in Senders, SenderStep(s) PROVE PInv'
  <2>1. CASE Undefined(s)
    BY <2>1, NothingMoved DEF Undefined
  <2> QED
    BY <1>1, <2>1, NotifyKeeps, RefKeeps, RejectedKeeps, AppendKeeps, WakeKeeps, UnrefKeeps DEF SenderStep
<1>2. ASSUME NEW s \in Senders, NEW m \in Messages, Drop(s, m) PROVE PInv'
  BY <1>2, DropKeeps
<1>3. ASSUME NEW s \in Senders, NEW m \in Messages, NEW i \in Instances, Enqueue(s, m, i) PROVE PInv'
  BY <1>3, EnqueueKeeps
<1>4. ASSUME NEW i \in Instances, WriterStep(i) PROVE PInv'
  BY <1>4, LoopKeeps, ThreadKeeps, PopKeeps, FlushKeeps DEF WriterStep
<1>5. ASSUME NEW i \in Instances, Flush(i) \/ Open(i) \/ Close(i) PROVE PInv'
  BY <1>5, FlushKeeps, ThreadKeeps
<1>6. ASSUME NEW i \in Instances, NEW m \in Messages, msgq_remove(i, m) PROVE PInv'
  BY <1>6, RemoveKeeps
<1>7. CASE UNCHANGED vars
  BY <1>7, NothingMoved DEF vars
<1> QED
  BY <1>1, <1>2, <1>3, <1>4, <1>5, <1>6, <1>7 DEF Next

UndefinedOK == undefined \in BOOLEAN

\* The bounds and the cardinalities.
LEMMA PInvGives == PInv /\ UndefinedOK => QInv
<1> SUFFICES ASSUME PInv, undefined \in BOOLEAN PROVE QInv
  BY DEF UndefinedOK
<1>1. RefsAccounted
  <2> SUFFICES ASSUME NEW m \in Messages
               PROVE  refc[m] = hold[m] + leaked[m] + Cardinality({i \in Instances : Queued(i, m)})
                                + Cardinality({s \in Senders : pc[s] = "append" /\ msg[s] = m})
    BY DEF RefsAccounted
  <2>1. /\ Cardinality({i \in Instances : Queued(i, m)}) = IF InQueue(m) THEN 1 ELSE 0
        /\ Cardinality({s \in Senders : pc[s] = "append" /\ msg[s] = m}) = IF InAppend(m) THEN 1 ELSE 0
    BY AccountSets DEF PInv
  <2>2. Accounted(m)
    BY DEF PInv
  <2> QED
    BY <2>1, <2>2 DEF Accounted
<1>2. CurrentIsFirst
  <2> SUFFICES ASSUME NEW i \in Instances, cur[i] # Null PROVE cur[i] = list_[i] /\ refc[cur[i]] > 0
    BY DEF CurrentIsFirst
  <2>1. PICK m \in Messages : m = cur[i] /\ m = list_[i] /\ Queued(i, m)
    BY PopKnown
  <2>2. InQueue(m) /\ refc[m] \in Int /\ hold[m] \in 0..2 /\ leaked[m] \in Nat /\ Accounted(m)
    BY <2>1, MessageKnown DEF InQueue
  <2>3. refc[m] > 0
    BY <2>2 DEF Accounted
  <2> QED
    BY <2>1, <2>3
<1>3. refc \in [Messages -> 0..(MaxRejected + 5)] /\ leaked \in [Messages -> 0..(MaxRejected + 2)]
  <2>1. ASSUME NEW m \in Messages PROVE refc[m] \in 0..(MaxRejected + 5) /\ leaked[m] \in 0..(MaxRejected + 2)
    <3>1. refc[m] \in Int /\ hold[m] \in 0..2 /\ leaked[m] \in Nat /\ leaked[m] <= MaxRejected + 1 /\ Accounted(m)
      BY MessageKnown
    <3>2. PICK a \in 0..1, b \in 0..1 : refc[m] = hold[m] + leaked[m] + a + b
      BY <3>1 DEF Accounted
    <3> QED
      BY <3>1, <3>2
  <2> QED
    BY <2>1 DEF PInv, CountsTyped
<1>4. wakeups \in [Instances -> 0..Cardinality(Messages)]
  <2>1. ASSUME NEW i \in Instances PROVE wakeups[i] \in 0..Cardinality(Messages)
    <3>1. IsFiniteSet(Wakers) /\ IsFiniteSet(Marked) /\ Cardinality(Marked) <= Cardinality(Messages)
      BY FS_Subset DEF Wakers, Marked
    <3>2. PICK cw \in Nat, cm \in Nat, c \in Nat :
             cw = Cardinality(Wakers) /\ cm = Cardinality(Marked) /\ c = Cardinality(Messages)
      BY <3>1, FS_CardinalityType
    <3>3. wakeups[i] \in Nat /\ wakeups[i] + cw <= cm
      BY <3>2 DEF PInv, CountsTyped, WakeupsCovered, Wakers, Marked
    <3>4. wakeups[i] \in 0..c
      BY <3>1, <3>2, <3>3
    <3> QED
      BY <3>2, <3>4
  <2> QED
    BY <2>1 DEF PInv, CountsTyped
<1>5. TypeOK
  BY <1>3, <1>4 DEF TypeOK, PInv, QueuesTyped, SendersTyped, WritersTyped, CountsTyped, Elements
<1> QED
  BY <1>1, <1>2, <1>5 DEF QInv, PInv

LEMMA PInvAlways == Spec => []PInv
BY PInvInit, PInvNext, PTL DEF Spec

LEMMA UndefinedTyped == Spec => []UndefinedOK
<1>1. Init => UndefinedOK
  BY DEF Init, UndefinedOK
<1>2. UndefinedOK /\ [Next]_vars => UndefinedOK'
  <2> SUFFICES ASSUME undefined \in BOOLEAN, [Next]_vars PROVE undefined' \in BOOLEAN
    BY DEF UndefinedOK
  <2>1. CASE UNCHANGED vars
    BY <2>1 DEF vars
  <2>2. ASSUME NEW s \in Senders, SenderStep(s) PROVE undefined' = TRUE \/ Defined
    BY <2>2 DEF SenderStep, Undefined, Notify, Ref, AppendRejected, append, Wake, Unref
  <2>3. ASSUME NEW i \in Instances, WriterStep(i) PROVE Defined
    BY <2>3 DEF WriterStep, Loop, First, Pop, Sleep, Unlock, Delete
  <2>4. ASSUME NEW s \in Senders, NEW m \in Messages, NEW i \in Instances,
               Enqueue(s, m, i)
        PROVE  Defined
    BY <2>4 DEF Enqueue
  <2>5. ASSUME NEW s \in Senders, NEW m \in Messages, Drop(s, m) PROVE Defined
    BY <2>5 DEF Drop
  <2>6. ASSUME NEW i \in Instances, NEW m \in Messages, msgq_remove(i, m) PROVE Defined
    BY <2>6 DEF msgq_remove
  <2>7. ASSUME NEW i \in Instances, Flush(i) \/ Open(i) \/ Close(i) PROVE Defined
    BY <2>7 DEF Flush, Open, Close
  <2>8. Next => undefined' = TRUE \/ Defined
    BY <2>2, <2>3, <2>4, <2>5, <2>6, <2>7 DEF Next
  <2>9. Next => undefined' = TRUE \/ undefined' = undefined
    BY <2>8 DEF Defined
  <2> QED
    BY <2>1, <2>9
<1> QED
  BY <1>1, <1>2, PTL DEF Spec

\* In every state the linked lists are intact but for their end pointers, senders and
\* writers agree with them, and every reference is accounted for.
THEOREM MessagesInductive == Spec => []QInv
BY PInvAlways, UndefinedTyped, PInvGives, PTL

\* The state keeps its types: no count of references or wakeups falls below zero or grows
\* without a message.
THEOREM MessagesTyped == Spec => []TypeOK
<1>1. QInv => TypeOK
  BY DEF QInv
<1> QED
  BY <1>1, MessagesInductive, PTL

\* RefCount of every message: exactly the references of its sender, of a queue, of a
\* msgq_append() under way, and those that rejected or lost appends do not give back.
THEOREM ReferencesExact == Spec => []RefsAccounted
<1>1. QInv => RefsAccounted
  BY DEF QInv
<1> QED
  BY <1>1, MessagesInductive, PTL

\* msgq_pop() takes the message that msgq_first() has returned, and that is not deleted.
THEOREM PopsCurrent == Spec => []CurrentIsFirst
<1>1. QInv => CurrentIsFirst
  BY DEF QInv
<1> QED
  BY <1>1, MessagesInductive, PTL
-----------------------------------------------------------------------------
(* The queues as mailboxes                                                 *)

\* the message m is appended to a queue behind whose end_el_ nobody looks
Lost(m) == /\ \E i \in Instances : Torn(i)
           /\ ~enqueued[m] /\ Boxes' = Boxes /\ Posted' = Posted \cup {m}

LEMMA PostRefines ==
  ASSUME PInv, NEW s \in Senders, append(s)
  PROVE  MB!Next \/ \E m \in Messages : Lost(m)
<1>1. /\ pc[s] = "append" /\ ~enqueued[msg[s]]
      /\ enqueued' = [enqueued EXCEPT ![msg[s]] = TRUE] /\ Link(at[s], msg[s])
  BY DEF append, At
<1>2. PICK m \in Messages, i \in Instances : m = msg[s] /\ i = at[s]
  BY <1>1, SenderKnown
<1>3. /\ QueuesTyped /\ QueuesAgree /\ ~enqueued[m] /\ enqueued' = [enqueued EXCEPT ![m] = TRUE]
      /\ Link(i, m)
  BY <1>1, <1>2 DEF PInv
<1>4. \A j \in Instances : Chain(j)' = IF j = i /\ ~Torn(i) THEN Append(Chain(j), m) ELSE Chain(j)
  BY <1>3, LinkDoes
<1>5. m \notin Posted /\ Posted' = Posted \cup {m}
  BY <1>3 DEF Posted, QueuesTyped
<1>6. CASE Torn(i)
  <2>1. Boxes' = Boxes
    BY <1>4, <1>6 DEF Boxes
  <2> QED
    BY <1>3, <1>5, <1>6, <2>1 DEF Lost
<1>7. CASE ~Torn(i)
  <2>1. Boxes' = [Boxes EXCEPT ![i] = Append(@, m)]
    BY <1>4, <1>7 DEF Boxes
  <2>2. MB!Post(i, m)
    BY <1>5, <2>1 DEF MB!Post
  <2> QED
    BY <2>2 DEF MB!Next
<1> QED
  BY <1>6, <1>7

\* msgq_pop() and msgq_remove() take the message out where it is.
LEMMA TakeRefines ==
  ASSUME PInv, NEW i \in Instances, NEW m \in Messages, Queued(i, m), Unlink(i, m)
  PROVE  MB!Next
<1>1. QueuesTyped /\ QueuesAgree
  BY DEF PInv
<1>2. /\ \E p \in 1..Len(Chain(i)) : Chain(i)' = RemoveAt(Chain(i), p)
      /\ \A j \in Instances : j # i => Chain(j)' = Chain(j)
  BY <1>1, UnlinkDoes
<1>3. PICK p \in 1..Len(Chain(i)) : Chain(i)' = RemoveAt(Chain(i), p)
  BY <1>2
<1>4. Boxes' = [Boxes EXCEPT ![i] = RemoveAt(@, p)] /\ Boxes[i] = Chain(i)
  BY <1>2, <1>3 DEF Boxes
<1>5. Posted' = Posted
  BY DEF Unlink, Posted
<1>6. MB!Take(i, p) <=> Boxes' = [Boxes EXCEPT ![i] = RemoveAt(@, p)] /\ UNCHANGED Posted
  BY Zenon DEF MB!Take, RemoveAt, MB!RemoveAt
<1>7. MB!Take(i, p)
  BY <1>4, <1>5, <1>6
<1>8. p \in 1..Len(Boxes[i])
  BY <1>3, <1>4
<1> QED
  BY <1>7, <1>8 DEF MB!Next

LEMMA ClearRefines ==
  ASSUME PInv, NEW i \in Instances, Flushed(i)
  PROVE  MB!Next
<1>1. \A j \in Instances : Chain(j)' = IF j = i THEN <<>> ELSE Chain(j)
  BY FlushDoes DEF PInv
<1>2. Boxes' = [Boxes EXCEPT ![i] = <<>>]
  BY <1>1 DEF Boxes
<1>3. Posted' = Posted
  BY DEF Flushed, Posted
<1>4. MB!Clear(i)
  BY <1>2, <1>3 DEF MB!Clear
<1> QED
  BY <1>4 DEF MB!Next

LEMMA OtherStepsHidden ==
  ASSUME PInv, UNCHANGED <<queues, enqueued>>
  PROVE  UNCHANGED <<Boxes, Posted>>
<1>1. UNCHANGED <<list_, end_el_, next, enqueued>>
  BY DEF queues
<1>2. \A j \in Instances : Chain(j)' = Chain(j)
  BY <1>1, QueuesSame DEF PInv
<1> QED
  BY <1>1, <1>2 DEF Boxes, Posted

\* The linked lists with their end pointers are mailboxes: a message is posted at most
\* once and to one box, stays in order until it is taken or the box is cleared, and is
\* lost only if it is appended to a queue whose end msgq_remove() has taken out.
THEOREM Mailboxes == Spec => MailboxUnlessTorn
<1>1. Init => MB!Init
  <2> SUFFICES ASSUME Init PROVE MB!Init
    OBVIOUS
  <2>1. \A i \in Instances : Chain(i) = <<>>
    <3>1. QueuesTyped /\ Linked(next) /\ \A i \in Instances : list_[i] = Null
      BY PInvInit DEF PInv, QueuesAgree, Init
    <3> QED
      BY <3>1, EmptyChain
  <2>2. \A m \in Messages : ~enqueued[m]
    BY DEF Init
  <2> QED
    BY <2>1, <2>2 DEF MB!Init, Boxes, Posted
<1>2. PInv /\ [Next]_vars => [\/ MB!Next
                              \/ \E i \in Instances, m \in Messages :
                                   Torn(i) /\ ~enqueued[m] /\ Boxes' = Boxes
                                   /\ Posted' = Posted \cup {m}]_<<Boxes, Posted>>
  <2> SUFFICES ASSUME PInv, [Next]_vars
               PROVE  \/ MB!Next \/ \E m \in Messages : Lost(m)
                      \/ UNCHANGED <<Boxes, Posted>>
    BY DEF Lost
  <2>1. CASE UNCHANGED vars
    BY <2>1, OtherStepsHidden DEF vars, refs
  <2>2. ASSUME NEW s \in Senders, append(s) PROVE MB!Next \/ \E m \in Messages : Lost(m)
    BY <2>2, PostRefines
  <2>3. ASSUME NEW s \in Senders, SenderStep(s), ~append(s) PROVE UNCHANGED <<queues, enqueued>>
    BY <2>3 DEF SenderStep, Undefined, Notify, Ref, AppendRejected, Wake, Unref, refs
  <2>4. ASSUME NEW s \in Senders, NEW m \in Messages, Drop(s, m) PROVE UNCHANGED <<queues, enqueued>>
    BY <2>4 DEF Drop
  <2>5. ASSUME NEW s \in Senders, NEW m \in Messages, NEW i \in Instances, Enqueue(s, m, i)
        PROVE  UNCHANGED <<queues, enqueued>>
    BY <2>5 DEF Enqueue, refs
  <2>6. ASSUME NEW i \in Instances, Pop(i) PROVE MB!Next
    <3>1. PICK m \in Messages : m = list_[i] /\ Queued(i, m)
      BY <2>6, PopKnown DEF Pop
    <3>2. Unlink(i, m)
      BY <2>6, <3>1 DEF Pop
    <3> QED
      BY <3>1, <3>2, TakeRefines
  <2>7. ASSUME NEW i \in Instances, NEW m \in Messages, msgq_remove(i, m) PROVE MB!Next
    BY <2>7, TakeRefines DEF msgq_remove
  <2>8. ASSUME NEW i \in Instances, Flush(i) \/ Delete(i) PROVE MB!Next
    BY <2>8, ClearRefines DEF Flush, Delete
  <2>9. ASSUME NEW i \in Instances,
               \/ Loop(i, "loop") \/ Loop(i, "locked") \/ First(i) \/ Sleep(i) \/ Unlock(i)
               \/ Open(i) \/ Close(i)
        PROVE  UNCHANGED <<queues, enqueued>>
    BY <2>9 DEF Loop, First, Sleep, Unlock, Open, Close, refs
  <2>10. Next => MB!Next \/ (\E m \in Messages : Lost(m)) \/ UNCHANGED <<queues, enqueued>>
    BY <2>2, <2>3, <2>4, <2>5, <2>6, <2>7, <2>8, <2>9 DEF Next, SenderStep, WriterStep
  <2> QED
    BY <2>1, <2>10, OtherStepsHidden
<1> QED
  BY <1>1, <1>2, PInvAlways, PTL DEF Spec, MailboxUnlessTorn
=============================================================================
