-------------------------- MODULE ObserversProofs ---------------------------
(***************************************************************************)
(* Interface observers: an event walks lists that stand still, and the     *)
(* last of the calls that an observer made decides whether it is in them,  *)
(* for any number of observers, threads and queued calls.                  *)
(***************************************************************************)
EXTENDS Observers, IterationProofs, FiniteSetTheorems

-----------------------------------------------------------------------------
(* process_bbio_queue()                                                    *)

Lists == [Kinds -> Seq(Observers)]
Entries == {0, 1} \X Observers

\* add_observer() and remove_observer() make lists of lists; removing takes out one
\* observer, adding puts one into the lists of what it observes.
LEMMA ProcessedTyped ==
  ASSUME NEW b \in Lists, NEW e \in Entries
  PROVE  /\ Processed(b, e) \in Lists
         /\ \A o \in Observers, k \in Kinds : k \in Watched[o] =>
              (o \in Range(Processed(b, e)[k])
                 <=> IF e[2] = o THEN e[1] = 1 ELSE o \in Range(b[k]))
<1>1. PICK x \in Observers, i \in {0, 1} : e = <<i, x>>
  BY DEF Entries
<1>2. ASSUME NEW s \in Seq(Observers), NEW o
      PROVE  o \in Range(s) <=> Occurs(o, s)
  BY DEF Range, Occurs
<1>3. ASSUME NEW k \in Kinds
      PROVE  /\ Only(b[k], Observers \ {x}) \in Seq(Observers)
             /\ \A o \in Observers :
                  o \in Range(Only(b[k], Observers \ {x})) <=> o # x /\ o \in Range(b[k])
  <2>1. PICK s \in Seq(Observers) : s = b[k]
    BY DEF Lists
  <2>2. PICK r \in Seq(Observers) : r = Only(s, Observers \ {x})
    BY OnlyLast
  <2>3. ASSUME NEW o \in Observers PROVE o \in Range(r) <=> o # x /\ o \in Range(s)
    <3>1. Occurs(o, r) <=> o \in Observers \ {x} /\ Occurs(o, s)
      BY <2>2, OnlyMembers
    <3> QED
      BY <1>2, <3>1
  <2> QED
    BY <2>1, <2>2, <2>3
<1>4. ASSUME NEW k \in Kinds
      PROVE  /\ Append(b[k], x) \in Seq(Observers)
             /\ \A o \in Observers : o \in Range(Append(b[k], x)) <=> o = x \/ o \in Range(b[k])
  <2>1. PICK s \in Seq(Observers) : s = b[k]
    BY DEF Lists
  <2>2. /\ Append(s, x) \in Seq(Observers) /\ Len(Append(s, x)) = Len(s) + 1 /\ Len(s) \in Nat
        /\ Append(s, x)[Len(s) + 1] = x /\ \A j \in 1..Len(s) : Append(s, x)[j] = s[j]
    OBVIOUS
  <2>3. PICK r \in Seq(Observers) : r = Append(s, x)
    BY <2>2
  <2>4. ASSUME NEW o \in Observers PROVE o \in Range(r) <=> o = x \/ o \in Range(s)
    <3>1. \A j \in 1..(Len(s) + 1) : j = Len(s) + 1 \/ j \in 1..Len(s)
      BY <2>2
    <3>2. Occurs(o, r) <=> o = x \/ Occurs(o, s)
      BY <2>2, <2>3, <3>1 DEF Occurs
    <3> QED
      BY <1>2, <3>2
  <2> QED
    BY <2>1, <2>3, <2>4
<1>5. CASE i = 1
  <2>1. Processed(b, e) = [k \in Kinds |-> IF k \in Watched[x] THEN Append(b[k], x) ELSE b[k]]
    BY <1>1, <1>5 DEF Processed, Added
  <2>2. Processed(b, e) \in Lists
    BY <1>4, <2>1 DEF Lists
  <2>3. ASSUME NEW o \in Observers, NEW k \in Kinds, k \in Watched[o]
        PROVE  o \in Range(Processed(b, e)[k]) <=> IF e[2] = o THEN e[1] = 1 ELSE o \in Range(b[k])
    <3>1. e[1] = 1 /\ e[2] = x
      BY <1>1, <1>5
    <3>2. CASE k \in Watched[x]
      <4>1. Processed(b, e)[k] = Append(b[k], x)
        BY <2>1, <2>3, <3>2
      <4>2. o \in Range(Append(b[k], x)) <=> o = x \/ o \in Range(b[k])
        BY <1>4, <2>3
      <4> QED
        BY <3>1, <4>1, <4>2
    <3>3. CASE k \notin Watched[x]
      <4>1. Processed(b, e)[k] = b[k] /\ o # x
        BY <2>1, <2>3, <3>3
      <4> QED
        BY <3>1, <4>1
    <3> QED
      BY <3>2, <3>3
  <2> QED
    BY <2>2, <2>3
<1>6. CASE i = 0
  <2>0. e[1] = 0 /\ e[2] = x
    BY <1>1, <1>6
  <2>1. Processed(b, e) = [k \in Kinds |-> Only(b[k], Observers \ {x})]
    BY <2>0 DEF Processed, Removed
  <2>2. Processed(b, e) \in Lists
    BY <1>3, <2>1 DEF Lists
  <2>3. ASSUME NEW o \in Observers, NEW k \in Kinds, k \in Watched[o]
        PROVE  o \in Range(Processed(b, e)[k]) <=> IF e[2] = o THEN e[1] = 1 ELSE o \in Range(b[k])
    <3>1. Processed(b, e)[k] = Only(b[k], Observers \ {x})
      BY <2>1, <2>3
    <3>2. o \in Range(Only(b[k], Observers \ {x})) <=> o # x /\ o \in Range(b[k])
      BY <1>3, <2>3
    <3> QED
      BY <2>0, <3>1, <3>2
  <2> QED
    BY <2>2, <2>3
<1> QED
  BY <1>5, <1>6

\* f holds the lists that process_bbio_queue() goes through.
ProcessRuns(f, b, q) ==
  /\ f \in [0..Len(q) -> Lists]
  /\ f[0] = b
  /\ \A i \in 1..Len(q) : f[i] = Processed(f[i - 1], q[i])
  /\ ProcessQueue(b, q) = f[Len(q)]

\* The loop of process_bbio_queue() is well defined.
LEMMA ProcessRounds ==
  ASSUME NEW b \in Lists, NEW q \in Seq(Entries)
  PROVE  \E f : ProcessRuns(f, b, q)
<1> DEFINE n == Len(q)
           g == [i \in 1..n |-> [r \in Lists |-> Processed(r, q[i])]]
           Loop(h) == [i \in 0..n |-> IF i = 0 THEN b ELSE Processed(h[i - 1], q[i])]
<1>1. n \in Nat /\ \A i \in 1..n : q[i] \in Entries
  OBVIOUS
<1>2. ASSUME NEW i \in 1..n, NEW r \in Lists PROVE Processed(r, q[i]) \in Lists
  BY <1>1, ProcessedTyped
<1>3. g \in [1..n -> [Lists -> Lists]]
  BY <1>2
<1>4. \A i \in 1..n, r \in Lists : g[i][r] = Processed(r, q[i])
  OBVIOUS
<1> HIDE DEF n, g
<1>5. PICK f \in [0..n -> Lists] : f[0] = b /\ \A i \in 1..n : f[i] = g[i][f[i - 1]]
  <2>1. PICK f : Runs(f, Lists, b, n, g)
    BY <1>1, <1>3, RoundsExist
  <2> QED
    BY <2>1 DEF Runs
<1>6. \A i \in 0..n : i # 0 => i \in 1..n /\ i - 1 \in 0..n
  BY <1>1
<1>7. f = Loop(f)
  BY <1>4, <1>5, <1>6
<1> DEFINE c == CHOOSE h : h = Loop(h)
<1>8. c = Loop(c)
  BY <1>7
<1>9. ProcessQueue(b, q) = c[n]
  BY DEF ProcessQueue, Iterated, n
<1> HIDE DEF c
<1>10. c[0] = b /\ \A i \in 1..n : c[i] = Processed(c[i - 1], q[i])
  <2>1. \A i \in 0..n : Loop(c)[i] = IF i = 0 THEN b ELSE Processed(c[i - 1], q[i])
    OBVIOUS
  <2> HIDE DEF Loop
  <2> QED
    BY <1>1, <1>8, <2>1
<1>11. c \in [0..n -> Lists]
  <2> DEFINE A == {i \in 0..n : c[i] \in Lists}
  <2>1. 0 \in A /\ \A i \in 1..n : i - 1 \in A => i \in A
    BY <1>1, <1>2, <1>10
  <2>2. 0..n \subseteq A
    <3> HIDE DEF A
    <3> QED
      BY <1>1, <2>1, CountUp
  <2> QED
    BY <1>8, <2>2
<1>12. ProcessRuns(c, b, q)
  BY <1>9, <1>10, <1>11 DEF n, ProcessRuns
<1> QED
  BY <1>12

\* The calls of o in a queue.
CallsOf(o) == {<<0, o>>, <<1, o>>}

\* process_bbio_queue() puts o into a list iff the last of its queued calls registers
\* it, or none unregisters it and it is in the list already.
LEMMA ProcessedLast ==
  ASSUME NEW b \in Lists, NEW q \in Seq(Entries)
  PROVE  /\ ProcessQueue(b, q) \in Lists
         /\ \A o \in Observers, k \in Kinds : k \in Watched[o] =>
              (o \in Range(ProcessQueue(b, q)[k]) <=>
                 \/ LastOf(q, Len(q), CallsOf(o), <<1, o>>)
                 \/ o \in Range(b[k]) /\ ~LastOf(q, Len(q), CallsOf(o), <<0, o>>))
<1>1. PICK f : ProcessRuns(f, b, q)
  BY ProcessRounds
<1>2. /\ f \in [0..Len(q) -> Lists] /\ f[0] = b
      /\ \A i \in 1..Len(q) : f[i] = Processed(f[i - 1], q[i])
      /\ ProcessQueue(b, q) = f[Len(q)]
  BY <1>1 DEF ProcessRuns
<1>3. Len(q) \in Nat /\ \A i \in 1..Len(q) : q[i] \in Entries
  OBVIOUS
<1>4. ProcessQueue(b, q) \in Lists
  BY <1>2, <1>3
<1>5. ASSUME NEW o \in Observers, NEW k \in Kinds, k \in Watched[o]
      PROVE  o \in Range(ProcessQueue(b, q)[k]) <=>
                 \/ LastOf(q, Len(q), CallsOf(o), <<1, o>>)
                 \/ o \in Range(b[k]) /\ ~LastOf(q, Len(q), CallsOf(o), <<0, o>>)
  <2> DEFINE In(i) == o \in Range(f[i][k])
             Last1(i) == LastOf(q, i, CallsOf(o), <<1, o>>)
             Last0(i) == LastOf(q, i, CallsOf(o), <<0, o>>)
             A == {i \in 0..Len(q) : In(i) <=> Last1(i) \/ (o \in Range(b[k]) /\ ~Last0(i))}
  <2>1. 0 \in A
    BY <1>2, <1>3 DEF LastOf
  <2>2. ASSUME NEW i \in 1..Len(q), i - 1 \in A PROVE i \in A
    <3>0. i \in Nat \ {0} /\ i \in 0..Len(q) /\ i - 1 \in 0..Len(q)
      BY <1>3
    <3>1. PICK e \in Entries : e = q[i]
      BY <1>3
    <3>2. In(i) <=> IF e[2] = o THEN e[1] = 1 ELSE In(i - 1)
      <4>1. PICK r \in Lists : r = f[i - 1]
        BY <1>2, <3>0
      <4>2. f[i] = Processed(r, e)
        BY <1>2, <3>1, <4>1
      <4>3. o \in Range(Processed(r, e)[k]) <=> IF e[2] = o THEN e[1] = 1 ELSE o \in Range(r[k])
        BY <1>5, ProcessedTyped
      <4> QED
        BY <4>1, <4>2, <4>3
    <3>3. Last1(i) <=> IF e \in CallsOf(o) THEN <<1, o>> = e ELSE Last1(i - 1)
      BY <3>0, <3>1, LastStep
    <3>4. Last0(i) <=> IF e \in CallsOf(o) THEN <<0, o>> = e ELSE Last0(i - 1)
      BY <3>0, <3>1, LastStep
    <3>5. (e \in CallsOf(o) <=> e[2] = o) /\ (e = <<1, o>> <=> e[2] = o /\ e[1] = 1)
          /\ (e = <<0, o>> <=> e[2] = o /\ e[1] = 0) /\ e[1] \in {0, 1}
      BY DEF Entries, CallsOf
    <3>6. In(i - 1) <=> Last1(i - 1) \/ (o \in Range(b[k]) /\ ~Last0(i - 1))
      BY <2>2
    <3> HIDE DEF In, Last1, Last0
    <3> QED
      BY <3>0, <3>2, <3>3, <3>4, <3>5, <3>6
  <2>3. 0..Len(q) \subseteq A
    <3> HIDE DEF A
    <3> QED
      BY <1>3, <2>1, <2>2, CountUp
  <2>4. Len(q) \in A
    <3> HIDE DEF A
    <3> QED
      BY <1>3, <2>3
  <2>5. In(Len(q)) <=> Last1(Len(q)) \/ (o \in Range(b[k]) /\ ~Last0(Len(q)))
    BY <2>4
  <2>6. In(Len(q)) <=> o \in Range(ProcessQueue(b, q)[k])
    BY <1>2
  <2> HIDE DEF In
  <2> QED
    BY <2>5, <2>6
<1> QED
  BY <1>4, <1>5
-----------------------------------------------------------------------------
(* Whether an observer is in a list once the queue is processed            *)

Standing(b, q, o, k) ==
  \/ LastOf(q, Len(q), CallsOf(o), <<1, o>>)
  \/ o \in Range(b[k]) /\ ~LastOf(q, Len(q), CallsOf(o), <<0, o>>)

\* With nothing queued the list itself decides.
LEMMA StandingEmpty ==
  ASSUME NEW b, NEW o, NEW k
  PROVE  Standing(b, <<>>, o, k) <=> o \in Range(b[k])
BY DEF Standing, LastOf

\* A call that is queued decides for its observer and nobody else.
LEMMA StandingAppend ==
  ASSUME NEW b, NEW q \in Seq(Entries), NEW e \in Entries, NEW o \in Observers, NEW k
  PROVE  Standing(b, Append(q, e), o, k) <=> IF e[2] = o THEN e[1] = 1 ELSE Standing(b, q, o, k)
<1>1. \A d : LastOf(Append(q, e), Len(Append(q, e)), CallsOf(o), d)
               <=> IF e \in CallsOf(o) THEN d = e ELSE LastOf(q, Len(q), CallsOf(o), d)
  BY LastAppended
<1>2. (e \in CallsOf(o) <=> e[2] = o) /\ (<<1, o>> = e <=> e[2] = o /\ e[1] = 1)
      /\ (<<0, o>> = e <=> e[2] = o /\ e[1] = 0) /\ e[1] \in {0, 1}
  BY DEF Entries, CallsOf
<1>3. LastOf(Append(q, e), Len(Append(q, e)), CallsOf(o), <<1, o>>)
        <=> IF e[2] = o THEN e[1] = 1 ELSE LastOf(q, Len(q), CallsOf(o), <<1, o>>)
  BY <1>1, <1>2
<1>4. LastOf(Append(q, e), Len(Append(q, e)), CallsOf(o), <<0, o>>)
        <=> IF e[2] = o THEN e[1] = 0 ELSE LastOf(q, Len(q), CallsOf(o), <<0, o>>)
  BY <1>1, <1>2
<1>5. e[1] = 1 \/ e[1] = 0
  BY <1>2
<1> QED
  BY <1>3, <1>4, <1>5 DEF Standing

\* Another observer's call can be taken out of the queue.
LEMMA StandingRemove ==
  ASSUME NEW b, NEW q \in Seq(Entries), NEW r \in 1..Len(q), NEW o \in Observers, NEW k, q[r][2] # o
  PROVE  Standing(b, RemoveAt(q, r), o, k) <=> Standing(b, q, o, k)
<1>1. q[r] \notin CallsOf(o)
  BY DEF CallsOf
<1>2. \A d : LastOf(RemoveAt(q, r), Len(RemoveAt(q, r)), CallsOf(o), d)
               <=> LastOf(q, Len(q), CallsOf(o), d)
  BY <1>1, LastRemoved
<1> QED
  BY <1>2 DEF Standing

\* LastCallWins in terms of the queue.
LEMMA LastCallIs ==
  ASSUME TypeOK
  PROVE  LastCallWins <=> \A o \in Observers : opc[o] = "idle" =>
           \A k \in Watched[o] : Standing(bbio, bbio_queue, o, k) <=> o \notin gone
<1>1. bbio \in Lists /\ bbio_queue \in Seq(Entries)
  BY DEF TypeOK, Lists, Entries
<1>2. \A o \in Observers, k \in Kinds : k \in Watched[o] =>
        (o \in Range(ProcessQueue(bbio, bbio_queue)[k]) <=> Standing(bbio, bbio_queue, o, k))
  BY <1>1, ProcessedLast DEF Standing
<1>3. \A o \in Observers : Watched[o] \subseteq Kinds
  BY ObserversAssumption
<1> QED
  BY <1>2, <1>3 DEF LastCallWins

-----------------------------------------------------------------------------
(* The inductive invariant                                                 *)

\* The events under way are finitely many, so their counter can be read off.
LEMMA WalkingCount ==
  ASSUME EventsCounted
  PROVE  /\ IsFiniteSet(Walking) /\ bbio_events \in Nat
         /\ bbio_events = 0 => Walking = {}
         /\ \A t \in Walking : bbio_events - 1 = 0 => Walking = {t}
<1>1. IsFiniteSet(Walking)
  BY ObserversAssumption, FS_Subset DEF Walking
<1>2. bbio_events = Cardinality(Walking) /\ Cardinality(Walking) \in Nat
  BY <1>1, FS_CardinalityType DEF EventsCounted
<1>3. bbio_events = 0 => Walking = {}
  BY <1>1, <1>2, FS_EmptySet
<1>4. ASSUME NEW t \in Walking, bbio_events - 1 = 0 PROVE Walking = {t}
  <2>1. Cardinality(Walking) = 1
    BY <1>2, <1>4
  <2> QED
    BY <1>1, <1>4, <2>1, FS_Singleton
<1> QED
  BY <1>1, <1>2, <1>3, <1>4

\* Every action counts the event it begins or ends.
LEMMA CountStays ==
  ASSUME TypeOK, EventsCounted, [Next]_vars
  PROVE  EventsCounted' /\ bbio_events' \in 0..Cardinality(Threads)
<1>1. EventsCounted'
  <2>1. ASSUME UNCHANGED <<bbio_events, tpc>> PROVE EventsCounted'
    BY <2>1 DEF EventsCounted, Walking
  <2>2. ASSUME NEW t \in Threads, NEW k \in Kinds, Notify(t, k) PROVE EventsCounted'
    <3>1. Walking' = Walking \cup {t} /\ t \notin Walking
      BY <2>2 DEF Notify, Walking, TypeOK
    <3>2. Cardinality(Walking') = Cardinality(Walking) + 1
      BY <3>1, WalkingCount, FS_AddElement
    <3> QED
      BY <2>2, <3>2 DEF Notify, EventsCounted
  <2>3. ASSUME NEW t \in Threads, NotifyEnd(t) PROVE EventsCounted'
    <3>1. Walking' = Walking \ {t} /\ t \in Walking
      BY <2>3 DEF NotifyEnd, Walking, TypeOK
    <3>2. Cardinality(Walking') = Cardinality(Walking) - 1
      BY <3>1, WalkingCount, FS_RemoveElement
    <3> QED
      BY <2>3, <3>2 DEF NotifyEnd, EventsCounted
  <2>4. ASSUME NEW o \in Observers, ObserverStep(o) PROVE UNCHANGED <<bbio_events, tpc>>
    BY <2>4 DEF ObserverStep, RegisterObserver, UnregisterObserver, SearchQueue, QueueRemoval
  <2>5. ASSUME NEW t \in Threads, Walk(t) PROVE UNCHANGED <<bbio_events, tpc>>
    BY <2>5 DEF Walk
  <2> QED
    BY <2>1, <2>2, <2>3, <2>4, <2>5 DEF Next, ThreadStep, vars
<1>2. IsFiniteSet(Threads) /\ Walking' \subseteq Threads
  BY ObserversAssumption DEF Walking
<1>3. Cardinality(Walking') <= Cardinality(Threads) /\ Cardinality(Walking') \in Nat
      /\ Cardinality(Threads) \in Nat
  BY <1>2, FS_Subset, FS_CardinalityType
<1> QED
  BY <1>1, <1>3 DEF EventsCounted
\* The entry that the search of unregister_observer() takes out is a registration of
\* the same observer.
LEMMA SearchTakes ==
  ASSUME TypeOK, NEW o \in Observers, SearchQueue(o)
  PROVE  \/ bbio_queue' = bbio_queue
         \/ \E r \in 1..Len(bbio_queue) :
              bbio_queue[r][2] = o /\ bbio_queue' = RemoveAt(bbio_queue, r)
<1> DEFINE J == {j \in DOMAIN bbio_queue : Differs(bbio_queue[j], o)}
           re == CHOOSE j \in J : \A i \in J : j <= i
<1>1. J # {} /\ bbio_queue' = IF bbio_queue[re][2] = o THEN RemoveAt(bbio_queue, re) ELSE bbio_queue
  BY DEF SearchQueue
<1>2. DOMAIN bbio_queue = 1..Len(bbio_queue) /\ Len(bbio_queue) \in Nat
  BY DEF TypeOK
<1>3. J \in SUBSET Nat
  BY <1>2
<1> HIDE DEF J
<1>4. \E m \in J : \A y \in J : m <= y
  BY <1>1, <1>3, SmallestExists
<1>5. re \in J
  BY <1>4
<1>6. re \in 1..Len(bbio_queue)
  BY <1>2, <1>5 DEF J
<1> HIDE DEF re
<1> QED
  BY <1>1, <1>6

\* A call that is made keeps the queue a queue of calls.
LEMMA QueueTyped ==
  ASSUME NEW q \in Seq(Entries), NEW o \in Observers, NEW i \in {0, 1}
  PROVE  Append(q, <<i, o>>) \in Seq(Entries)
<1>1. <<i, o>> \in Entries
  BY DEF Entries
<1> QED
  BY <1>1

\* Every action keeps the types.
LEMMA TypesStay ==
  ASSUME TypeOK, EventsCounted, [Next]_vars
  PROVE  TypeOK'
<1>1. bbio_events' \in 0..Cardinality(Threads)
  BY CountStays
<1>2. bbio \in Lists /\ bbio_queue \in Seq(Entries)
  BY DEF TypeOK, Lists, Entries
<1>3. ASSUME NEW o \in Observers
      PROVE  Added(bbio, o) \in Lists /\ Removed(bbio, o) \in Lists
  <2>1. <<1, o>> \in Entries /\ <<0, o>> \in Entries
    BY DEF Entries
  <2>2. Processed(bbio, <<1, o>>) = Added(bbio, o) /\ Processed(bbio, <<0, o>>) = Removed(bbio, o)
    BY DEF Processed
  <2> QED
    BY <1>2, <2>1, <2>2, ProcessedTyped
<1>4. ASSUME bbio' \in Lists, bbio_queue' \in Seq(Entries),
             bbio_mutex' \in Observers \cup {Nobody},
             opc' \in [Observers -> {"idle", "search"}], tpc' \in [Threads -> {"idle", "walk"}],
             kind' \in [Threads -> Kinds], todo' \in [Threads -> Seq(Observers)],
             gone' \subseteq Observers
      PROVE  TypeOK'
  BY <1>1, <1>4 DEF TypeOK, Lists, Entries
<1> USE DEF TypeOK
<1>5. CASE UNCHANGED vars
  BY <1>2, <1>4, <1>5 DEF vars
<1>6. ASSUME NEW o \in Observers, RegisterObserver(o) PROVE TypeOK'
  <2>1. bbio' \in Lists /\ bbio_queue' \in Seq(Entries)
    <3>1. bbio' \in {bbio, Added(bbio, o)} /\ bbio_queue' \in {bbio_queue, Append(bbio_queue, <<1, o>>)}
      BY <1>6 DEF RegisterObserver
    <3> QED
      BY <1>2, <1>3, <3>1, QueueTyped
  <2> QED
    BY <1>4, <1>6, <2>1 DEF RegisterObserver
<1>7. ASSUME NEW o \in Observers, UnregisterObserver(o) PROVE TypeOK'
  <2>1. bbio' \in Lists /\ bbio_queue' \in Seq(Entries)
    BY <1>2, <1>3, <1>7 DEF UnregisterObserver
  <2>2. bbio_mutex' \in Observers \cup {Nobody} /\ gone' \subseteq Observers
    BY <1>7 DEF UnregisterObserver
  <2>3. opc' \in [Observers -> {"idle", "search"}]
    BY <1>7 DEF UnregisterObserver
  <2> QED
    BY <1>4, <1>7, <2>1, <2>2, <2>3 DEF UnregisterObserver
<1>8. ASSUME NEW o \in Observers, SearchQueue(o) PROVE TypeOK'
  <2>1. bbio_queue' \in Seq(Entries)
    <3>1. CASE bbio_queue' = bbio_queue
      BY <1>2, <3>1
    <3>2. CASE \E r \in 1..Len(bbio_queue) :
              bbio_queue[r][2] = o /\ bbio_queue' = RemoveAt(bbio_queue, r)
      BY <1>2, <3>2, RemoveAtIs
    <3> QED
      BY <1>8, <3>1, <3>2, SearchTakes
  <2> QED
    BY <1>2, <1>4, <1>8, <2>1 DEF SearchQueue
<1>9. ASSUME NEW o \in Observers, QueueRemoval(o) PROVE TypeOK'
  <2>1. bbio_queue' \in Seq(Entries)
    BY <1>2, <1>9, QueueTyped DEF QueueRemoval
  <2> QED
    BY <1>2, <1>4, <1>9, <2>1 DEF QueueRemoval
<1>10. ASSUME NEW t \in Threads, NEW k \in Kinds, Notify(t, k) PROVE TypeOK'
  BY <1>2, <1>4, <1>10 DEF Notify
<1>11. ASSUME NEW t \in Threads, Walk(t) PROVE TypeOK'
  <2>1. Tail(todo[t]) \in Seq(Observers)
    BY <1>11, HeadTailProperties DEF Walk
  <2>2. todo' \in [Threads -> Seq(Observers)]
    BY <1>11, <2>1 DEF Walk
  <2> QED
    BY <1>2, <1>4, <1>11, <2>2 DEF Walk
<1>12. ASSUME NEW t \in Threads, NotifyEnd(t) PROVE TypeOK'
  <2>1. ProcessQueue(bbio, bbio_queue) \in Lists
    BY <1>2, ProcessedLast
  <2>2. bbio' \in Lists /\ bbio_queue' \in Seq(Entries)
    BY <1>2, <1>12, <2>1 DEF NotifyEnd
  <2> QED
    BY <1>4, <1>12, <2>2 DEF NotifyEnd
<1> QED
  BY <1>5, <1>6, <1>7, <1>8, <1>9, <1>10, <1>11, <1>12 DEF Next, ObserverStep, ThreadStep

\* What an event walks is still, and the queue is processed with the last event.
LEMMA QueueStays ==
  ASSUME TypeOK, EventsCounted, NothingLeftQueued, SearchLocked, [Next]_vars
  PROVE  NothingLeftQueued' /\ SearchLocked'
<1> USE DEF NothingLeftQueued, SearchLocked
<1>0. bbio_events \in Nat /\ Nobody \notin Observers
  BY ObserversAssumption DEF TypeOK
<1>1. CASE UNCHANGED vars
  BY <1>1 DEF vars
<1>2. ASSUME NEW o \in Observers, RegisterObserver(o) PROVE NothingLeftQueued' /\ SearchLocked'
  BY <1>0, <1>2 DEF RegisterObserver
<1>3. ASSUME NEW o \in Observers, UnregisterObserver(o) PROVE NothingLeftQueued' /\ SearchLocked'
  BY <1>0, <1>3 DEF UnregisterObserver, TypeOK
<1>4. ASSUME NEW o \in Observers, SearchQueue(o) PROVE NothingLeftQueued' /\ SearchLocked'
  <2>1. bbio_events > 0 /\ UNCHANGED <<bbio_events, bbio_mutex, opc>>
    BY <1>4 DEF SearchQueue
  <2> QED
    BY <1>0, <2>1
<1>5. ASSUME NEW o \in Observers, QueueRemoval(o) PROVE NothingLeftQueued' /\ SearchLocked'
  <2>1. bbio_events > 0 /\ UNCHANGED bbio_events /\ bbio_mutex = o
        /\ opc' = [opc EXCEPT ![o] = "idle"]
    BY <1>5 DEF QueueRemoval
  <2> QED
    BY <1>0, <2>1 DEF TypeOK
<1>6. ASSUME NEW t \in Threads, NEW k \in Kinds, Notify(t, k) PROVE NothingLeftQueued' /\ SearchLocked'
  BY <1>0, <1>6 DEF Notify
<1>7. ASSUME NEW t \in Threads, Walk(t) PROVE NothingLeftQueued' /\ SearchLocked'
  BY <1>7 DEF Walk
<1>8. ASSUME NEW t \in Threads, NotifyEnd(t) PROVE NothingLeftQueued' /\ SearchLocked'
  <2>1. \A o \in Observers : opc'[o] # "search"
    BY <1>0, <1>8 DEF NotifyEnd, TypeOK
  <2>2. bbio_events - 1 = 0 => bbio_queue' = <<>>
    BY <1>8 DEF NotifyEnd
  <2> QED
    BY <1>8, <2>1, <2>2 DEF NotifyEnd
<1> QED
  BY <1>1, <1>2, <1>3, <1>4, <1>5, <1>6, <1>7, <1>8 DEF Next, ObserverStep, ThreadStep
-----------------------------------------------------------------------------
\* The lists change only when no event walks them.
LEMMA ListsStill ==
  ASSUME TypeOK, EventsCounted, Next, NEW t \in Threads, tpc[t] = "walk", tpc'[t] = "walk"
  PROVE  bbio' = bbio /\ kind'[t] = kind[t]
<1>1. t \in Walking /\ bbio_events # 0 /\ bbio_events \in Nat
  BY WalkingCount DEF Walking
<1>2. ASSUME NEW o \in Observers, ObserverStep(o) PROVE bbio' = bbio /\ kind'[t] = kind[t]
  <2>1. bbio_events > 0
    BY <1>1
  <2> QED
    BY <1>2, <2>1 DEF ObserverStep, RegisterObserver, UnregisterObserver, SearchQueue, QueueRemoval
<1>3. ASSUME NEW s \in Threads, NEW k \in Kinds, Notify(s, k) PROVE bbio' = bbio /\ kind'[t] = kind[t]
  BY <1>3 DEF Notify, TypeOK
<1>4. ASSUME NEW s \in Threads, Walk(s) PROVE bbio' = bbio /\ kind'[t] = kind[t]
  BY <1>4 DEF Walk
<1>5. ASSUME NEW s \in Threads, NotifyEnd(s) PROVE bbio' = bbio /\ kind'[t] = kind[t]
  <2>1. s \in Walking /\ s # t
    BY <1>5 DEF NotifyEnd, Walking, TypeOK
  <2>2. bbio_events - 1 # 0
    BY <1>1, <2>1, WalkingCount
  <2> QED
    BY <1>5, <2>2 DEF NotifyEnd
<1> QED
  BY <1>2, <1>3, <1>4, <1>5 DEF Next, ThreadStep

\* An event stays at the end of its list.
LEMMA WalkStays ==
  ASSUME TypeOK, EventsCounted, WalkValid, [Next]_vars
  PROVE  WalkValid'
<1> SUFFICES ASSUME NEW t \in Threads, tpc'[t] = "walk"
             PROVE  IsSuffix(todo'[t], bbio'[kind'[t]])
  BY DEF WalkValid
<1>1. CASE UNCHANGED vars
  BY <1>1 DEF WalkValid, vars
<1>2. CASE Next /\ tpc[t] = "walk"
  <2>1. bbio' = bbio /\ kind'[t] = kind[t]
    BY <1>2, ListsStill
  <2>2. PICK s \in Seq(Observers), l \in Seq(Observers) : s = todo[t] /\ l = bbio[kind[t]]
    BY DEF TypeOK
  <2>3. IsSuffix(s, l)
    BY <1>2, <2>2 DEF WalkValid
  <2>4. todo'[t] = s \/ (s # <<>> /\ todo'[t] = Tail(s))
    <3>1. ASSUME NEW o \in Observers, ObserverStep(o) PROVE todo'[t] = s
      BY <2>2, <3>1 DEF ObserverStep, RegisterObserver, UnregisterObserver, SearchQueue, QueueRemoval
    <3>2. ASSUME NEW x \in Threads, NEW k \in Kinds, Notify(x, k) PROVE todo'[t] = s
      BY <1>2, <2>2, <3>2 DEF Notify, TypeOK
    <3>3. ASSUME NEW x \in Threads, Walk(x) PROVE todo'[t] = s \/ (s # <<>> /\ todo'[t] = Tail(s))
      <4>1. todo[x] # <<>> /\ todo' = [todo EXCEPT ![x] = Tail(todo[x])]
        BY <3>3 DEF Walk
      <4> QED
        BY <2>2, <4>1 DEF TypeOK
    <3>4. ASSUME NEW x \in Threads, NotifyEnd(x) PROVE todo'[t] = s
      BY <2>2, <3>4 DEF NotifyEnd
    <3> QED
      BY <1>2, <3>1, <3>2, <3>3, <3>4 DEF Next, ThreadStep
  <2>5. IsSuffix(todo'[t], l)
    <3>1. s # <<>> => IsSuffix(Tail(s), l)
      BY <2>3, SuffixTail
    <3> QED
      BY <2>3, <2>4, <3>1
  <2> QED
    BY <2>1, <2>2, <2>5
<1>3. CASE Next /\ tpc[t] # "walk"
  <2>1. ASSUME NEW o \in Observers, ObserverStep(o) PROVE FALSE
    BY <1>3, <2>1 DEF ObserverStep, RegisterObserver, UnregisterObserver, SearchQueue, QueueRemoval
  <2>2. ASSUME NEW x \in Threads, ThreadStep(x) PROVE FALSE
    BY <1>3, <2>2 DEF ThreadStep, Walk, NotifyEnd, TypeOK
  <2>3. ASSUME NEW x \in Threads, NEW k \in Kinds, Notify(x, k)
        PROVE  IsSuffix(todo'[t], bbio'[kind'[t]])
    <3>1. x = t
      BY <1>3, <2>3 DEF Notify, TypeOK
    <3>2. todo'[t] = bbio[k] /\ kind'[t] = k /\ bbio' = bbio
      BY <2>3, <3>1 DEF Notify, TypeOK
    <3>3. PICK l \in Seq(Observers) : l = bbio[k]
      BY DEF TypeOK
    <3>4. IsSuffix(l, l)
      BY SuffixSelf
    <3> QED
      BY <3>2, <3>3, <3>4
  <2> QED
    BY <1>3, <2>1, <2>2, <2>3 DEF Next
<1> QED
  BY <1>1, <1>2, <1>3

\* Every action keeps the agreement between the calls and the lists.
LEMMA LastStays ==
  ASSUME TypeOK, TypeOK', EventsCounted, NothingLeftQueued, LastCallWins, [Next]_vars
  PROVE  LastCallWins'
<1>0. bbio \in Lists /\ bbio_queue \in Seq(Entries) /\ bbio_events \in Nat
  BY DEF TypeOK, Lists, Entries
<1>1. ASSUME NEW o \in Observers, opc[o] = "idle", NEW k \in Watched[o]
      PROVE  Standing(bbio, bbio_queue, o, k) <=> o \notin gone
  BY <1>1, LastCallIs
<1>2. ASSUME \A o \in Observers : opc'[o] = "idle" =>
               \A k \in Watched[o] : Standing(bbio', bbio_queue', o, k) <=> o \notin gone'
      PROVE  LastCallWins'
  <2>1. \A o \in Observers, k \in Kinds : k \in Watched[o] =>
          (o \in Range(ProcessQueue(bbio', bbio_queue')[k]) <=> Standing(bbio', bbio_queue', o, k))
    <3>1. PICK b \in Lists, q \in Seq(Entries) : b = bbio' /\ q = bbio_queue'
      BY DEF TypeOK, Lists, Entries
    <3>2. \A o \in Observers, k \in Kinds : k \in Watched[o] =>
            (o \in Range(ProcessQueue(b, q)[k]) <=> Standing(b, q, o, k))
      BY ProcessedLast DEF Standing
    <3> QED
      BY <3>1, <3>2
  <2>2. \A o \in Observers : Watched[o] \subseteq Kinds
    BY ObserversAssumption
  <2> QED
    BY <1>2, <2>1, <2>2 DEF LastCallWins
<1>3. ASSUME NEW x \in Observers, NEW i \in {0, 1},
             bbio_queue' = Append(bbio_queue, <<i, x>>), bbio' = bbio,
             opc' = [opc EXCEPT ![x] = "idle"],
             gone' = IF i = 1 THEN gone \ {x} ELSE gone \cup {x}
      PROVE  LastCallWins'
  <2>1. <<i, x>> \in Entries
    BY DEF Entries
  <2>2. ASSUME NEW o \in Observers, opc'[o] = "idle", NEW k \in Watched[o]
        PROVE  Standing(bbio', bbio_queue', o, k) <=> o \notin gone'
    <3>1. PICK q \in Seq(Entries), b \in Lists : q = bbio_queue /\ b = bbio
      BY <1>0
    <3>2. Standing(b, Append(q, <<i, x>>), o, k) <=> IF x = o THEN i = 1 ELSE Standing(b, q, o, k)
      BY <2>1, StandingAppend
    <3>3. x # o => opc[o] = "idle"
      BY <1>3, <2>2 DEF TypeOK
    <3>4. x # o => (Standing(b, q, o, k) <=> o \notin gone)
      BY <1>1, <3>1, <3>3
    <3>5. Standing(bbio', bbio_queue', o, k) <=> IF x = o THEN i = 1 ELSE Standing(b, q, o, k)
      BY <1>3, <3>1, <3>2
    <3> QED
      BY <1>3, <3>4, <3>5
  <2> QED
    BY <1>2, <2>2
<1>4. ASSUME NEW x \in Observers, NEW i \in {0, 1}, bbio_queue = <<>>, bbio_queue' = <<>>,
             bbio' = Processed(bbio, <<i, x>>), opc' = opc, opc[x] = "idle",
             gone' = IF i = 1 THEN gone \ {x} ELSE gone \cup {x}
      PROVE  LastCallWins'
  <2>1. <<i, x>> \in Entries
    BY DEF Entries
  <2>2. ASSUME NEW o \in Observers, opc'[o] = "idle", NEW k \in Watched[o]
        PROVE  Standing(bbio', bbio_queue', o, k) <=> o \notin gone'
    <3>1. k \in Kinds
      BY ObserversAssumption
    <3>2. o \in Range(bbio'[k]) <=> IF x = o THEN i = 1 ELSE o \in Range(bbio[k])
      BY <1>0, <1>4, <2>1, <3>1, ProcessedTyped
    <3>3. Standing(bbio, <<>>, o, k) <=> o \in Range(bbio[k])
      BY StandingEmpty
    <3>4. Standing(bbio', <<>>, o, k) <=> o \in Range(bbio'[k])
      BY StandingEmpty
    <3>5. Standing(bbio, <<>>, o, k) <=> o \notin gone
      BY <1>1, <1>4, <2>2
    <3>6. Standing(bbio', <<>>, o, k) <=> o \notin gone'
      BY <1>4, <3>2, <3>3, <3>4, <3>5
    <3> QED
      BY <1>4, <3>6
  <2> QED
    BY <1>2, <2>2
<1>5. ASSUME UNCHANGED <<bbio, bbio_queue, gone>>, \A o \in Observers : opc'[o] = "idle" => opc[o] = "idle"
      PROVE  LastCallWins'
  BY <1>5 DEF LastCallWins
<1>6. ASSUME NEW x \in Observers, RegisterObserver(x) PROVE LastCallWins'
  <2>1. CASE bbio_events > 0
    <3>1. opc' = [opc EXCEPT ![x] = "idle"]
      BY <1>6 DEF RegisterObserver, TypeOK
    <3> QED
      BY <1>3, <1>6, <2>1, <3>1 DEF RegisterObserver
  <2>2. CASE ~(bbio_events > 0)
    <3>1. bbio_queue = <<>>
      BY <1>0, <2>2 DEF NothingLeftQueued
    <3>2. bbio' = Processed(bbio, <<1, x>>)
      BY <1>6, <2>2 DEF RegisterObserver, Processed
    <3> QED
      BY <1>4, <1>6, <2>2, <3>1, <3>2 DEF RegisterObserver
  <2> QED
    BY <2>1, <2>2
<1>7. ASSUME NEW x \in Observers, UnregisterObserver(x) PROVE LastCallWins'
  <2>1. CASE bbio_events > 0
    <3>1. \A o \in Observers : opc'[o] = "idle" => opc[o] = "idle"
      BY <1>7 DEF UnregisterObserver, TypeOK
    <3> QED
      BY <1>5, <1>7, <2>1, <3>1 DEF UnregisterObserver
  <2>2. CASE ~(bbio_events > 0)
    <3>1. bbio_queue = <<>>
      BY <1>0, <2>2 DEF NothingLeftQueued
    <3>2. bbio' = Processed(bbio, <<0, x>>)
      BY <1>7, <2>2 DEF UnregisterObserver, Processed
    <3>3. gone' = IF 0 = 1 THEN gone \ {x} ELSE gone \cup {x}
      BY <1>7, <2>2 DEF UnregisterObserver
    <3>4. opc' = opc /\ opc[x] = "idle" /\ bbio_queue' = <<>>
      BY <1>7, <2>2, <3>1 DEF UnregisterObserver
    <3> QED
      BY <1>4, <3>1, <3>2, <3>3, <3>4
  <2> QED
    BY <2>1, <2>2
<1>8. ASSUME NEW x \in Observers, SearchQueue(x) PROVE LastCallWins'
  <2>1. UNCHANGED <<bbio, opc, gone>> /\ opc[x] = "search"
    BY <1>8 DEF SearchQueue
  <2>2. CASE bbio_queue' = bbio_queue
    BY <1>5, <2>1, <2>2
  <2>3. ASSUME NEW r \in 1..Len(bbio_queue), bbio_queue[r][2] = x,
               bbio_queue' = RemoveAt(bbio_queue, r)
        PROVE  LastCallWins'
    <3>1. ASSUME NEW o \in Observers, opc'[o] = "idle", NEW k \in Watched[o]
          PROVE  Standing(bbio', bbio_queue', o, k) <=> o \notin gone'
      <4>1. o # x /\ opc[o] = "idle"
        BY <2>1, <3>1
      <4>2. PICK q \in Seq(Entries), b \in Lists : q = bbio_queue /\ b = bbio
        BY <1>0
      <4>3. Standing(b, RemoveAt(q, r), o, k) <=> Standing(b, q, o, k)
        BY <2>3, <4>1, <4>2, StandingRemove
      <4>4. Standing(b, q, o, k) <=> o \notin gone
        BY <1>1, <4>1, <4>2
      <4>5. Standing(bbio', bbio_queue', o, k) <=> Standing(b, q, o, k)
        BY <2>1, <2>3, <4>2, <4>3
      <4> QED
        BY <2>1, <4>4, <4>5
    <3> QED
      BY <1>2, <3>1
  <2> QED
    BY <1>8, <2>2, <2>3, SearchTakes
<1>9. ASSUME NEW x \in Observers, QueueRemoval(x) PROVE LastCallWins'
  <2>1. gone' = IF 0 = 1 THEN gone \ {x} ELSE gone \cup {x}
    BY <1>9 DEF QueueRemoval
  <2>2. bbio_queue' = Append(bbio_queue, <<0, x>>) /\ bbio' = bbio
        /\ opc' = [opc EXCEPT ![x] = "idle"]
    BY <1>9 DEF QueueRemoval
  <2> QED
    BY <1>3, <2>1, <2>2
<1>10. ASSUME NEW t \in Threads, NotifyEnd(t) PROVE LastCallWins'
  <2>1. CASE bbio_events - 1 # 0
    BY <1>5, <1>10, <2>1 DEF NotifyEnd
  <2>2. CASE bbio_events - 1 = 0
    <3>1. bbio' = ProcessQueue(bbio, bbio_queue) /\ bbio_queue' = <<>> /\ UNCHANGED <<opc, gone>>
      BY <1>10, <2>2 DEF NotifyEnd
    <3>2. ASSUME NEW o \in Observers, opc'[o] = "idle", NEW k \in Watched[o]
          PROVE  Standing(bbio', bbio_queue', o, k) <=> o \notin gone'
      <4>1. Standing(bbio', <<>>, o, k) <=> o \in Range(bbio'[k])
        BY StandingEmpty
      <4>2. k \in Kinds
        BY ObserversAssumption
      <4>3. o \in Range(ProcessQueue(bbio, bbio_queue)[k]) <=> Standing(bbio, bbio_queue, o, k)
        BY <1>0, <4>2, ProcessedLast DEF Standing
      <4>4. Standing(bbio, bbio_queue, o, k) <=> o \notin gone
        BY <1>1, <3>1, <3>2
      <4> QED
        BY <3>1, <4>1, <4>3, <4>4
    <3> QED
      BY <1>2, <3>2
  <2> QED
    BY <2>1, <2>2
<1>11. ASSUME NEW t \in Threads, Walk(t) \/ \E k \in Kinds : Notify(t, k) PROVE LastCallWins'
  <2>1. UNCHANGED <<bbio, bbio_queue, gone, opc>>
    BY <1>11 DEF Walk, Notify
  <2> QED
    BY <1>5, <2>1
<1>12. CASE UNCHANGED vars
  BY <1>5, <1>12 DEF vars
<1> QED
  BY <1>6, <1>7, <1>8, <1>9, <1>10, <1>11, <1>12 DEF Next, ObserverStep, ThreadStep

-----------------------------------------------------------------------------
(* Theorems                                                                *)

\* Counter, queue, mutex, lists and calls agree in every reachable state.
THEOREM ObserversInductive == Spec => []ObserversInv
<1>1. Init => ObserversInv
  <2> SUFFICES ASSUME Init PROVE ObserversInv
    OBVIOUS
  <2> USE DEF Init
  <2>1. Cardinality(Threads) \in Nat /\ Walking = {}
    BY ObserversAssumption, FS_CardinalityType DEF Walking
  <2>2. TypeOK
    <3>1. bbio_events \in 0..Cardinality(Threads)
      BY <2>1
    <3>2. bbio \in [Kinds -> Seq(Observers)] /\ todo \in [Threads -> Seq(Observers)]
      OBVIOUS
    <3>3. bbio_queue \in Seq({0, 1} \X Observers)
      OBVIOUS
    <3> QED
      BY <3>1, <3>2, <3>3 DEF TypeOK, Kinds
  <2>3. EventsCounted
    BY <2>1, FS_EmptySet DEF EventsCounted
  <2>4. NothingLeftQueued /\ SearchLocked /\ WalkValid
    BY DEF NothingLeftQueued, SearchLocked, WalkValid
  <2>5. LastCallWins
    <3>1. ASSUME NEW o \in Observers, NEW k \in Watched[o]
          PROVE  Standing(bbio, bbio_queue, o, k) <=> o \notin gone
      <4>1. k \in Kinds
        BY ObserversAssumption
      <4>2. Standing(bbio, <<>>, o, k) <=> o \in Range(bbio[k])
        BY StandingEmpty
      <4>3. bbio[k] = <<>>
        BY <4>1
      <4>4. o \notin Range(bbio[k])
        BY <4>3 DEF Range
      <4> QED
        BY <4>2, <4>4
    <3> QED
      BY <2>2, <3>1, LastCallIs
  <2> QED
    BY <2>2, <2>3, <2>4, <2>5 DEF ObserversInv
<1>2. ObserversInv /\ [Next]_vars => ObserversInv'
  BY TypesStay, CountStays, QueueStays, WalkStays, LastStays DEF ObserversInv
<1> QED
  BY <1>1, <1>2, PTL DEF Spec

\* The notifier keeps its types, and its counter neither underflows nor leaks.
THEOREM ObserversTyped == Spec => []TypeOK
<1>1. ObserversInv => TypeOK
  BY DEF ObserversInv
<1> QED
  BY <1>1, ObserversInductive, PTL

\* An event that walks a list without the mutex walks a list that nobody changes.
THEOREM ListsWalked == Spec => []WalkValid
<1>1. ObserversInv => WalkValid
  BY DEF ObserversInv
<1> QED
  BY <1>1, ObserversInductive, PTL

\* Registrations take effect in the order of the calls, however many are queued and
\* searched out of the queue.
THEOREM CallsInOrder == Spec => []LastCallWins
<1>1. ObserversInv => LastCallWins
  BY DEF ObserversInv
<1> QED
  BY <1>1, ObserversInductive, PTL
=============================================================================
