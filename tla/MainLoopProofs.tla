--------------------------- MODULE MainLoopProofs ---------------------------
(***************************************************************************)
(* The main loop, the threads of its hooks and their removal get no        *)
(* exception from the SyncPoints, and the waiting sets hold who waits, for *)
(* any tree of points and any number of hooks and threads.                 *)
(***************************************************************************)
EXTENDS MainLoop, FiniteSetTheorems, TLAPS

-----------------------------------------------------------------------------
(* The tree of points                                                      *)

\* A point is on its own path, and paths lead upwards.
LEMMA UpIs ==
  ASSUME NEW s \in SyncPoints
  PROVE  s \in Up[s] /\ Up[s] \subseteq SyncPoints /\ Closed(Up[s])
<1>1. s \in Up[s] /\ Up[s] \subseteq SyncPoints
  BY DEF Up
<1>2. ASSUME NEW x \in Up[s], Pred[x] # None PROVE Pred[x] \in Up[s]
  <2>1. x \in SyncPoints /\ Pred[x] \in SyncPoints
    BY <1>1, <1>2, PredAssumption
  <2>2. ASSUME NEW T \in SUBSET SyncPoints, s \in T, Closed(T) PROVE Pred[x] \in T
    <3>1. x \in T
      BY <2>2 DEF Up
    <3> QED
      BY <1>2, <2>2, <3>1 DEF Closed
  <2> QED
    BY <2>1, <2>2 DEF Up
<1> QED
  BY <1>1, <1>2 DEF Closed

\* The path is the least such set.
LEMMA UpLeast ==
  ASSUME NEW s \in SyncPoints, NEW T \in SUBSET SyncPoints, s \in T, Closed(T)
  PROVE  Up[s] \subseteq T
BY DEF Up

\* The path of a predecessor is part of the path.
LEMMA UpTrans ==
  ASSUME NEW s \in SyncPoints, NEW x \in Up[s]
  PROVE  Up[x] \subseteq Up[s]
<1>1. x \in SyncPoints /\ Up[s] \in SUBSET SyncPoints /\ Closed(Up[s])
  BY UpIs
<1> QED
  BY <1>1, UpLeast

\* The path goes on at the predecessor.
LEMMA UpStep ==
  ASSUME NEW s \in SyncPoints, NEW x \in Up[s], x # s
  PROVE  Pred[s] \in SyncPoints /\ x \in Up[Pred[s]]
<1>1. Pred[s] # None
  <2>1. SUFFICES ASSUME Pred[s] = None PROVE FALSE
    OBVIOUS
  <2>2. {s} \in SUBSET SyncPoints /\ Closed({s})
    BY <2>1 DEF Closed
  <2>3. Up[s] \subseteq {s}
    BY <2>2, UpLeast
  <2> QED
    BY <2>3
<1>2. Pred[s] \in SyncPoints
  BY <1>1, PredAssumption
<1>3. PICK T : T = {s} \cup Up[Pred[s]]
  OBVIOUS
<1>4. T \in SUBSET SyncPoints /\ Closed(T)
  <2>1. Pred[s] \in Up[Pred[s]] /\ Up[Pred[s]] \subseteq SyncPoints /\ Closed(Up[Pred[s]])
    BY <1>2, UpIs
  <2> QED
    BY <1>3, <2>1 DEF Closed
<1>5. Up[s] \subseteq T
  BY <1>3, <1>4, UpLeast
<1> QED
  BY <1>2, <1>3, <1>5

\* Of two points at most one is above the other.
LEMMA UpAnti ==
  ASSUME NEW x \in SyncPoints, NEW y \in SyncPoints, x \in Up[y], y \in Up[x]
  PROVE  x = y
<1> SUFFICES ASSUME x # y PROVE FALSE
  OBVIOUS
<1>1. Pred[y] \in SyncPoints /\ x \in Up[Pred[y]]
  BY UpStep
<1>2. y \in Up[Pred[y]]
  BY <1>1, UpTrans
<1> QED
  BY <1>1, <1>2, PredAssumption

\* A path that meets another one comes in from a point outside.
LEMMA Fork ==
  ASSUME NEW i \in SyncPoints, NEW o \in SyncPoints, o \notin Up[i],
         NEW x \in Up[i], x \in Up[o]
  PROVE  \E z \in Up[o] : z \notin Up[i] /\ Pred[z] \in Up[i] /\ x \in Up[Pred[z]]
<1> SUFFICES ASSUME \A z \in Up[o] : z \notin Up[i] /\ x \in Up[Pred[z]] => Pred[z] \notin Up[i]
             PROVE  FALSE
  OBVIOUS
<1>1. PICK T : T = {z \in Up[o] : z \notin Up[i] /\ x \in Up[z]}
  OBVIOUS
<1>2. T \in SUBSET SyncPoints /\ o \in T
  BY <1>1, UpIs
<1>3. ASSUME NEW z \in T PROVE Pred[z] \in T
  <2>1. z \in SyncPoints /\ z \in Up[o] /\ z \notin Up[i] /\ x \in Up[z] /\ x # z
    BY <1>1, <1>2
  <2>2. Pred[z] \in SyncPoints /\ x \in Up[Pred[z]]
    BY <2>1, UpStep
  <2>3. Pred[z] \in Up[o]
    <3>1. Pred[z] # None
      BY <2>2, PredAssumption
    <3> QED
      BY <2>1, <3>1, UpIs DEF Closed
  <2> QED
    BY <1>1, <2>1, <2>2, <2>3
<1>4. Up[o] \subseteq T
  BY <1>2, <1>3, UpLeast DEF Closed
<1> QED
  BY <1>1, <1>4

-----------------------------------------------------------------------------
(* The operations on points                                                *)

\* A call that waits is not NoCall.
LEMMA CallFields ==
  /\ \A k \in Call : k # NoCall /\ k.st # "none" /\ k.at \in SyncPoints
  /\ NoCall.st = "none" /\ NoCall.mode = "one" /\ NoCall.at = None
BY DEF Call, NoCall

\* wake_all() at the points of a set, and the waiting components there forgotten.
Woken(k, j, ones, alls) ==
  /\ j \in Call \cup {NoCall}
  /\ j.at = k.at /\ j.mode = k.mode /\ (j = NoCall <=> k = NoCall)
  /\ \/ j = k /\ (k.st = "blocked" => k.at \notin (IF k.mode = "one" THEN ones ELSE alls))
     \/ k.st = "blocked" /\ j.st = "woken" /\ k.at \in (IF k.mode = "one" THEN ones ELSE alls)

\* A call that blocks at one of the points is woken, and no other is touched.
LEMMA WakeDoes ==
  ASSUME PointsTyped, NEW ones, NEW alls, NEW d \in Components
  PROVE  Woken(call[d], Wake(ones, alls)[d], ones, alls)
<1>1. PICK k \in Call \cup {NoCall} : k = call[d]
  BY DEF PointsTyped
<1>2. PICK S : S = IF k.mode = "one" THEN ones ELSE alls
  OBVIOUS
<1>3. CASE k.st = "blocked" /\ k.at \in S
  <2>1. k \in Call
    BY <1>3, CallFields
  <2>2. PICK j : j = [k EXCEPT !.st = "woken"]
    OBVIOUS
  <2>3. j \in Call /\ j.at = k.at /\ j.mode = k.mode /\ j.st = "woken"
    BY <2>1, <2>2 DEF Call
  <2>4. Wake(ones, alls)[d] = j
    BY <1>1, <1>2, <1>3, <2>2 DEF Wake
  <2> QED
    BY <1>1, <1>2, <1>3, <2>1, <2>3, <2>4, CallFields DEF Woken
<1>4. CASE ~(k.st = "blocked" /\ k.at \in S)
  <2>1. Wake(ones, alls)[d] = k
    BY <1>1, <1>2, <1>4 DEF Wake
  <2> QED
    BY <1>1, <1>2, <1>4, <2>1 DEF Woken
<1> QED
  BY <1>3, <1>4

\* The effect of an emit() on the waiting components and their calls.
ReleasedAt(ones, alls) ==
  /\ watchers_wait_for_one' = [x \in SyncPoints |-> IF x \in ones THEN {} ELSE watchers_wait_for_one[x]]
  /\ watchers_wait_for_all' = [x \in SyncPoints |-> IF x \in alls THEN {} ELSE watchers_wait_for_all[x]]
  /\ call' = Wake(ones, alls)

\* Some emitter is pending at a point.
SomePending(x) == \E d \in Components : pending_emitters[x][d] > 0

\* A component that emits throws no exception if it watches and emits the whole path;
\* where some emitter was pending, one is afterwards.
LEMMA EmitDoes ==
  ASSUME PointsTyped, NEW c \in Components, NEW s \in SyncPoints, emit(c, s),
         \A y \in Up[s] : c \in watchers[y] /\ emitters[y][c] > 0
  PROVE  /\ PointsTyped' /\ UNCHANGED <<watchers, emitters, threw>>
         /\ \A x \in SyncPoints : SomePending(x) => SomePending(x)'
         /\ \E ones, alls : ReleasedAt(ones, alls)
<1>1. PICK ones, done, less : ones = Notified(c, s) /\ done = Completed(c, s) /\ less = Counted(c, s) \ done
  OBVIOUS
<1>2. Reached(c, s) = Up[s]
  BY DEF Reached
<1>3. ASSUME NEW x \in done \cup less
      PROVE  x \in SyncPoints /\ pending_emitters[x][c] > 0 /\ emitters[x][c] > 0
  <2>1. x \in Counted(c, s)
    BY <1>1, <1>3 DEF Completed
  <2>2. x \in Up[s]
    BY <1>2, <2>1 DEF Counted
  <2>3. x \in SyncPoints /\ x \in Up[x]
    BY <2>2, UpIs
  <2>4. pending_emitters[x][c] > 0
    BY <2>1, <2>2, <2>3 DEF Counted
  <2> QED
    BY <2>2, <2>3, <2>4
<1>4. ReleasedAt(ones, done)
  BY <1>1 DEF emit, ReleasedAt
<1>5. UNCHANGED <<watchers, emitters, threw, timer_running, timer_owner, max_waittime>>
  BY <1>2 DEF emit
<1>6. pending_emitters' = [x \in SyncPoints |->
           IF x \in done THEN emitters[x]
           ELSE IF x \in less THEN Less(pending_emitters[x], c) ELSE pending_emitters[x]]
  BY <1>1 DEF emit
<1>7. ASSUME NEW x \in less
      PROVE  /\ Less(pending_emitters[x], c) \in [Components -> Nat]
             /\ \E d \in Components : Less(pending_emitters[x], c)[d] > 0
  <2>1. x \in SyncPoints /\ pending_emitters[x][c] > 0
    BY <1>3
  <2>2. Less(pending_emitters[x], c) \in [Components -> Nat]
    BY <2>1 DEF Less, PointsTyped
  <2>3. PICK d \in Components : Less(pending_emitters[x], c)[d] # 0
    BY <1>1, <1>7 DEF Completed
  <2>4. Less(pending_emitters[x], c)[d] \in Nat
    BY <2>2
  <2> QED
    BY <2>2, <2>3, <2>4
<1>8. ASSUME NEW x \in SyncPoints, SomePending(x) PROVE SomePending(x)'
  <2>1. CASE x \in done
    <3>1. pending_emitters'[x][c] > 0
      BY <1>3, <1>6, <2>1
    <3> QED
      BY <3>1 DEF SomePending
  <2>2. CASE x \notin done /\ x \in less
    <3>1. pending_emitters'[x] = Less(pending_emitters[x], c)
      BY <1>6, <2>2
    <3> QED
      BY <1>7, <2>2, <3>1 DEF SomePending
  <2>3. CASE x \notin done \cup less
    <3>1. pending_emitters'[x] = pending_emitters[x]
      BY <1>6, <2>3
    <3> QED
      BY <1>8, <3>1 DEF SomePending
  <2> QED
    BY <2>1, <2>2, <2>3
<1>9. PointsTyped'
  <2>1. pending_emitters' \in [SyncPoints -> [Components -> Nat]]
    BY <1>6, <1>7 DEF PointsTyped
  <2>2. newer' \in [SyncPoints -> BOOLEAN]
    BY DEF emit
  <2>3. call' \in [Components -> Call \cup {NoCall}]
    <3>1. DOMAIN call' = Components /\ call' = [d \in Components |-> call'[d]]
      BY <1>4 DEF ReleasedAt, Wake
    <3>2. \A d \in Components : call'[d] \in Call \cup {NoCall}
      BY <1>4, WakeDoes DEF ReleasedAt, Woken
    <3> QED
      BY <3>1, <3>2
  <2>4. /\ watchers_wait_for_one' \in [SyncPoints -> SUBSET Components]
        /\ watchers_wait_for_all' \in [SyncPoints -> SUBSET Components]
    BY <1>4 DEF ReleasedAt, PointsTyped
  <2> QED
    BY <1>5, <2>1, <2>2, <2>3, <2>4 DEF PointsTyped
<1> QED
  BY <1>4, <1>5, <1>8, <1>9

\* wait() of a caller that watches the point and does not wait there: the call blocks, or
\* there is nobody to wait for.
Blocks(c, s, type, k) ==
  /\ k \in Call /\ k.at = s /\ k.st = "blocked" /\ (k.mode = "one" <=> type = "one")
  /\ call' = [call EXCEPT ![c] = k]
  /\ watchers_wait_for_one' = IF type = "one" THEN [watchers_wait_for_one EXCEPT ![s] = @ \cup {c}]
                              ELSE watchers_wait_for_one
  /\ watchers_wait_for_all' = IF type = "all" THEN [watchers_wait_for_all EXCEPT ![s] = @ \cup {c}]
                              ELSE watchers_wait_for_all
  /\ type # "one" => \E d \in Components : emitters[s][d] > 0

\* A call of wait() that is not refused throws nothing.
LEMMA WaitDoes ==
  ASSUME PointsTyped, NEW c \in Components, NEW s \in SyncPoints, NEW type \in {"one", "all"},
         NEW limit \in BOOLEAN, wait(c, s, type, limit), ~WaitRefused(c, s, type)
  PROVE  /\ PointsTyped' /\ UNCHANGED <<watchers, emitters, pending_emitters, threw>>
         /\ call[c] = NoCall
         /\ \/ ~need_to_wait(s, type) /\ UNCHANGED <<watchers_wait_for_one, watchers_wait_for_all, call>>
            \/ \E k : Blocks(c, s, type, k)
<1>1. call[c] = NoCall /\ UNCHANGED <<watchers, emitters, pending_emitters, newer>>
  BY DEF wait
<1>2. CASE ~need_to_wait(s, type)
  <2>1. UNCHANGED <<watchers_wait_for_one, watchers_wait_for_all, timer_running, timer_owner,
                    max_waittime, call, threw>>
    BY <1>2 DEF wait
  <2> QED
    BY <1>1, <1>2, <2>1 DEF PointsTyped
<1>3. CASE need_to_wait(s, type)
  <2>1. /\ watchers_wait_for_one' = IF type = "one" THEN [watchers_wait_for_one EXCEPT ![s] = @ \cup {c}]
                                    ELSE watchers_wait_for_one
        /\ watchers_wait_for_all' = IF type = "all" THEN [watchers_wait_for_all EXCEPT ![s] = @ \cup {c}]
                                    ELSE watchers_wait_for_all
        /\ WaitTimer(c, s, type, limit)
        /\ UNCHANGED threw
    BY <1>3 DEF wait
  <2>2. /\ watchers_wait_for_one' \in [SyncPoints -> SUBSET Components]
        /\ watchers_wait_for_all' \in [SyncPoints -> SUBSET Components]
    BY <2>1 DEF PointsTyped
  <2>3. \A m \in {"one", "owner", "all"}, b \in BOOLEAN :
          [at |-> s, mode |-> m, limit |-> b, st |-> "blocked"] \in Call
    BY DEF Call
  <2>4. CASE type = "all" /\ ~timer_running[s]
    <3>1. /\ timer_running' = [timer_running EXCEPT ![s] = TRUE]
          /\ timer_owner' = [timer_owner EXCEPT ![s] = c]
          /\ max_waittime' = [max_waittime EXCEPT ![s] = @ \/ limit]
          /\ call' = [call EXCEPT ![c] = [at |-> s, mode |-> "owner", limit |-> max_waittime'[s],
                                          st |-> "blocked"]]
      BY <2>1, <2>4 DEF WaitTimer
    <3>2. max_waittime' \in [SyncPoints -> BOOLEAN]
      BY <3>1 DEF PointsTyped
    <3>3. max_waittime'[s] \in BOOLEAN
      BY <3>2
    <3>4. PICK k : k = [at |-> s, mode |-> "owner", limit |-> max_waittime'[s], st |-> "blocked"]
      OBVIOUS
    <3>5. k \in Call /\ k.at = s /\ k.st = "blocked" /\ k.mode = "owner"
      BY <2>3, <3>3, <3>4
    <3>6. Blocks(c, s, type, k)
      BY <1>3, <2>1, <2>4, <3>1, <3>4, <3>5 DEF Blocks, need_to_wait
    <3>7. /\ timer_running' \in [SyncPoints -> BOOLEAN]
          /\ timer_owner' \in [SyncPoints -> Components \cup {None}]
      BY <3>1 DEF PointsTyped
    <3>8. call' \in [Components -> Call \cup {NoCall}]
      BY <3>1, <3>4, <3>5 DEF PointsTyped
    <3>9. PointsTyped'
      BY <1>1, <2>1, <2>2, <3>2, <3>7, <3>8 DEF PointsTyped
    <3> QED
      BY <1>1, <2>1, <3>6, <3>9
  <2>5. CASE ~(type = "all" /\ ~timer_running[s])
    <3>1. PICK b \in BOOLEAN : b = (type = "one" /\ limit)
      OBVIOUS
    <3>2. PICK k : k = [at |-> s, mode |-> type, limit |-> b, st |-> "blocked"]
      OBVIOUS
    <3>3. /\ call' = [call EXCEPT ![c] = k]
          /\ UNCHANGED <<timer_running, timer_owner, max_waittime>>
      BY <2>1, <2>5, <3>1, <3>2 DEF WaitTimer
    <3>4. k \in Call /\ k.at = s /\ k.st = "blocked" /\ k.mode = type
      BY <2>3, <3>2
    <3>5. Blocks(c, s, type, k)
      BY <1>3, <2>1, <3>3, <3>4 DEF Blocks, need_to_wait
    <3>6. call' \in [Components -> Call \cup {NoCall}]
      BY <3>3, <3>4 DEF PointsTyped
    <3>7. PointsTyped'
      BY <1>1, <2>1, <2>2, <3>3, <3>6 DEF PointsTyped
    <3> QED
      BY <1>1, <2>1, <3>5, <3>7
  <2> QED
    BY <2>4, <2>5
<1> QED
  BY <1>2, <1>3

\* The rest of wait(): the timer is stopped, and after a timeout the caller is taken off
\* the waiting components and wakes those who wait with it.
LEMMA ReturnDoes ==
  ASSUME PointsTyped, NEW c \in Components, WaitReturn(c), call[c].mode # "one" => SomePending(call[c].at)
  PROVE  /\ PointsTyped' /\ UNCHANGED <<watchers, emitters, pending_emitters, threw>>
         /\ call[c] # NoCall /\ call'[c] = NoCall
         /\ \/ /\ call[c].st = "woken"
               /\ UNCHANGED <<watchers_wait_for_one, watchers_wait_for_all>>
               /\ \A d \in Components : d # c => call'[d] = call[d]
            \/ /\ call[c].st = "timedout"
               /\ watchers_wait_for_one' = [watchers_wait_for_one EXCEPT ![call[c].at] = @ \ {c}]
               /\ watchers_wait_for_all' = [watchers_wait_for_all EXCEPT ![call[c].at] = @ \ {c}]
               /\ \E alls \in SUBSET {call[c].at} :
                    \A d \in Components : d # c => Woken(call[d], call'[d], {}, alls)
<1>1. PICK k \in Call : k = call[c] /\ k.at \in SyncPoints
  <2>1. call[c] \in Call \cup {NoCall} /\ call[c].st \in {"woken", "timedout"}
    BY DEF PointsTyped, WaitReturn
  <2> QED
    BY <2>1, CallFields
<1>2. /\ UNCHANGED <<watchers, emitters, pending_emitters, timer_owner, max_waittime, newer>>
      /\ timer_running' = TimerAfter(c)
  BY DEF WaitReturn
<1>3. timer_running' \in [SyncPoints -> BOOLEAN]
  BY <1>1, <1>2 DEF TimerAfter, PointsTyped
<1>4. CASE k.st = "woken"
  <2>1. /\ call' = [call EXCEPT ![c] = NoCall]
        /\ UNCHANGED <<watchers_wait_for_one, watchers_wait_for_all, threw>>
    BY <1>1, <1>4 DEF WaitReturn
  <2>2. call' \in [Components -> Call \cup {NoCall}]
    BY <2>1 DEF PointsTyped
  <2>3. PointsTyped'
    BY <1>2, <1>3, <2>1, <2>2 DEF PointsTyped
  <2>4. call'[c] = NoCall /\ \A d \in Components : d # c => call'[d] = call[d]
    BY <2>1 DEF PointsTyped
  <2> QED
    BY <1>1, <1>2, <1>4, <2>1, <2>3, <2>4, CallFields
<1>5. CASE k.st = "timedout"
  <2>1. PICK alls : alls = IF k.mode = "owner" THEN {k.at} ELSE {}
    OBVIOUS
  <2>2. HandleDefault(c) /\ call' = [Wake({}, alls) EXCEPT ![c] = NoCall]
    BY <1>1, <1>5, <2>1 DEF WaitReturn
  <2>3. ~(k.mode = "owner" /\ \A d \in Components : pending_emitters[k.at][d] = 0)
    BY <1>1 DEF SomePending
  <2>4. /\ watchers_wait_for_one' = [watchers_wait_for_one EXCEPT ![k.at] = @ \ {c}]
        /\ watchers_wait_for_all' = [watchers_wait_for_all EXCEPT ![k.at] = @ \ {c}]
        /\ UNCHANGED threw
    BY <1>1, <2>2, <2>3 DEF HandleDefault
  <2>5. /\ watchers_wait_for_one' \in [SyncPoints -> SUBSET Components]
        /\ watchers_wait_for_all' \in [SyncPoints -> SUBSET Components]
    BY <1>1, <2>4 DEF PointsTyped
  <2>6. PICK W : W = Wake({}, alls)
    OBVIOUS
  <2>7. DOMAIN W = Components
    BY <2>6 DEF Wake
  <2>8. \A d \in Components : Woken(call[d], W[d], {}, alls)
    BY <2>6, WakeDoes
  <2>9. call' = [W EXCEPT ![c] = NoCall]
    BY <2>2, <2>6
  <2>10. W \in [Components -> Call \cup {NoCall}]
    <3>1. W = [d \in Components |-> W[d]]
      BY <2>6 DEF Wake
    <3> QED
      BY <2>8, <3>1 DEF Woken
  <2>11. call' \in [Components -> Call \cup {NoCall}]
    BY <2>9, <2>10
  <2>12. call'[c] = NoCall /\ \A d \in Components : d # c => call'[d] = W[d]
    BY <2>9, <2>10
  <2>13. PointsTyped'
    BY <1>2, <1>3, <2>4, <2>5, <2>11 DEF PointsTyped
  <2>14. alls \in SUBSET {k.at}
    BY <2>1
  <2> QED
    BY <1>1, <1>2, <1>5, <2>4, <2>8, <2>12, <2>13, <2>14, CallFields
<1> QED
  BY <1>1, <1>4, <1>5 DEF WaitReturn

-----------------------------------------------------------------------------
(* The waiting components                                                  *)

\* cancelled while it waited, and not yet taken off
Gone(c) == c # Main /\ wpc[c] = "dead" /\ life[c] = "cancelled"

\* The call k of component c fits the sets O and A of a point s.
Fits(k, c, s, O, A, g) ==
  /\ k.st = "blocked" /\ k.at = s => c \in (IF k.mode = "one" THEN O ELSE A)
  /\ c \in O => k.mode = "one"
  /\ c \in A => k.mode # "one" \/ g
  /\ c \in O \cup A => (k.at = s /\ k.st \in {"blocked", "timedout"}) \/ g
  /\ c \in O \cup A /\ c # Main => s = In[c]

SetsFit == \A s \in SyncPoints, c \in Components :
  Fits(call[c], c, s, watchers_wait_for_one[s], watchers_wait_for_all[s], Gone(c))

\* The two invariants of the waiting sets, point by point and component by component.
LEMMA SetsFitIs == SetsFit <=> WaitingSetsAgree /\ WaitersByType
<1>1. ASSUME SetsFit PROVE WaitingSetsAgree /\ WaitersByType
  BY <1>1 DEF SetsFit, Fits, Gone, WaitingSetsAgree, WaitersByType
<1>2. ASSUME WaitingSetsAgree, WaitersByType PROVE SetsFit
  <2> SUFFICES ASSUME NEW s \in SyncPoints, NEW c \in Components
               PROVE  Fits(call[c], c, s, watchers_wait_for_one[s], watchers_wait_for_all[s], Gone(c))
    BY DEF SetsFit
  <2>1. /\ call[c].st = "blocked" /\ call[c].at = s =>
             c \in (IF call[c].mode = "one" THEN watchers_wait_for_one[s] ELSE watchers_wait_for_all[s])
        /\ c \in watchers_wait_for_one[s] \cup watchers_wait_for_all[s] =>
             (call[c].at = s /\ call[c].st \in {"blocked", "timedout"}) \/ Gone(c)
    BY <1>2 DEF WaitingSetsAgree, Gone
  <2>2. /\ c \in watchers_wait_for_one[s] => call[c].mode = "one"
        /\ c \in watchers_wait_for_all[s] => call[c].mode # "one" \/ Gone(c)
        /\ c \in watchers_wait_for_one[s] \cup watchers_wait_for_all[s] /\ c # Main => s = In[c]
    BY <1>2 DEF WaitersByType, Gone
  <2> QED
    BY <2>1, <2>2 DEF Fits
<1> QED
  BY <1>1, <1>2

\* A component that does not wait and was not cancelled is in no set.
LEMMA NotWaiting ==
  ASSUME SetsFit, NEW c \in Components, call[c] = NoCall, ~Gone(c), NEW s \in SyncPoints
  PROVE  c \notin watchers_wait_for_one[s] \cup watchers_wait_for_all[s]
<1>1. call[c].at # s
  BY CallFields, PredAssumption
<1> QED
  BY <1>1 DEF SetsFit, Fits

\* Nothing happens at the points.
LEMMA FitUnchanged ==
  ASSUME SetsFit, UNCHANGED <<watchers_wait_for_one, watchers_wait_for_all, call>>,
         \A c \in Components : Gone(c) => Gone(c)'
  PROVE  SetsFit'
BY DEF SetsFit, Fits

\* emit() takes off the sets exactly those whom it wakes.
LEMMA FitEmit ==
  ASSUME PointsTyped, SetsFit, NEW ones, NEW alls, ReleasedAt(ones, alls),
         \A c \in Components : Gone(c) => Gone(c)'
  PROVE  SetsFit'
<1> SUFFICES ASSUME NEW s \in SyncPoints, NEW c \in Components
             PROVE  Fits(call'[c], c, s, watchers_wait_for_one'[s], watchers_wait_for_all'[s], Gone(c)')
  BY DEF SetsFit
<1>1. PICK k, j, g, O, A : /\ k = call[c] /\ j = call'[c] /\ g = Gone(c)
                           /\ O = watchers_wait_for_one[s] /\ A = watchers_wait_for_all[s]
  OBVIOUS
<1>2. Fits(k, c, s, O, A, g)
  BY <1>1 DEF SetsFit
<1>3. Woken(k, j, ones, alls)
  BY <1>1, WakeDoes DEF ReleasedAt
<1>4. /\ watchers_wait_for_one'[s] = IF s \in ones THEN {} ELSE O
      /\ watchers_wait_for_all'[s] = IF s \in alls THEN {} ELSE A
  BY <1>1 DEF ReleasedAt
<1>5. g => Gone(c)'
  BY <1>1
<1> QED
  BY <1>1, <1>2, <1>3, <1>4, <1>5 DEF Fits, Woken

\* A call that blocks is entered in its set.
LEMMA FitBlocks ==
  ASSUME PointsTyped, SetsFit, NEW c \in Components, NEW s \in SyncPoints, NEW type \in {"one", "all"},
         NEW k, Blocks(c, s, type, k), call[c] = NoCall, ~Gone(c),
         c # Main => s = In[c], \A d \in Components : Gone(d) => Gone(d)'
  PROVE  SetsFit'
<1> SUFFICES ASSUME NEW x \in SyncPoints, NEW d \in Components
             PROVE  Fits(call'[d], d, x, watchers_wait_for_one'[x], watchers_wait_for_all'[x], Gone(d)')
  BY DEF SetsFit
<1>1. PICK O, A : O = watchers_wait_for_one[x] /\ A = watchers_wait_for_all[x]
  OBVIOUS
<1>2. /\ watchers_wait_for_one'[x] = IF type = "one" /\ x = s THEN O \cup {c} ELSE O
      /\ watchers_wait_for_all'[x] = IF type = "all" /\ x = s THEN A \cup {c} ELSE A
  BY <1>1 DEF Blocks, PointsTyped
<1>3. CASE d = c
  <2>1. call'[d] = k /\ k.at = s /\ k.st = "blocked" /\ (k.mode = "one" <=> type = "one")
    BY <1>3 DEF Blocks, PointsTyped
  <2>2. d \notin O \cup A
    BY <1>1, <1>3, NotWaiting
  <2> QED
    BY <1>2, <1>3, <2>1, <2>2 DEF Fits
<1>4. CASE d # c
  <2>1. call'[d] = call[d]
    BY <1>4 DEF Blocks
  <2>2. Fits(call[d], d, x, O, A, Gone(d))
    BY <1>1 DEF SetsFit
  <2>3. Gone(d) => Gone(d)'
    OBVIOUS
  <2> QED
    BY <1>2, <1>4, <2>1, <2>2, <2>3 DEF Fits
<1> QED
  BY <1>3, <1>4

-----------------------------------------------------------------------------
(* Pending emitters                                                        *)

\* Pending emitters stay if the calls that wait for them do.
LEMMA PendingStays ==
  ASSUME PointsTyped, PendingKept, \A x \in SyncPoints : SomePending(x) => SomePending(x)',
         \A x \in SyncPoints : (\E d \in Components : emitters'[x][d] > 0) => SomePending(x)',
         \A c \in Components : call'[c].mode # "one" =>
           \/ call[c].mode # "one" /\ call'[c].at = call[c].at /\ call[c].at \in SyncPoints
           \/ call'[c].at \in SyncPoints /\ SomePending(call'[c].at)
  PROVE  PendingKept'
<1>1. ASSUME NEW c \in Components, call'[c].mode # "one"
      PROVE  \E d \in Components : pending_emitters'[call'[c].at][d] > 0
  <2>1. PICK x \in SyncPoints : x = call'[c].at /\ SomePending(x)
    BY <1>1 DEF PendingKept, SomePending
  <2>2. SomePending(x)'
    BY <2>1
  <2> QED
    BY <2>1, <2>2 DEF SomePending
<1> QED
  BY <1>1 DEF PendingKept, SomePending

\* Calls that wait for all are at points.
LEMMA CallsAt ==
  ASSUME PointsTyped, NEW c \in Components, call[c] # NoCall \/ call[c].mode # "one"
  PROVE  call[c] \in Call /\ call[c].at \in SyncPoints
BY CallFields DEF PointsTyped

-----------------------------------------------------------------------------
(* Joining and leaving                                                     *)

\* The points of a thread's aspects.
LEMMA AspectPoints ==
  ASSUME NEW w \in Workers
  PROVE  /\ w \in Components /\ w # Main /\ In[w] \in SyncPoints
         /\ Up[In[w]] \subseteq SyncPoints /\ OutPath(w) \subseteq SyncPoints
         /\ Out[w] # None => Out[w] \in SyncPoints /\ OutPath(w) = Up[Out[w]] /\ Out[w] \in OutPath(w)
         /\ Out[w] = None => OutPath(w) = {}
<1>1. In[w] \in SyncPoints /\ Out[w] \in SyncPoints \cup {None} /\ w \in Components /\ w # Main
  BY AspectAssumption DEF Workers
<1>2. Up[In[w]] \subseteq SyncPoints
  BY <1>1, UpIs
<1>3. Out[w] # None => Up[Out[w]] \subseteq SyncPoints /\ Out[w] \in Up[Out[w]]
  BY <1>1, UpIs
<1> QED
  BY <1>1, <1>2, <1>3 DEF OutPath

\* get_syncpoint() and register_emitter() for the aspects of a thread.
LEMMA JoinDoes ==
  ASSUME PointsTyped, NEW w \in Workers, Join(w, {In[w], Out[w]} \ {None}, Out[w])
  PROVE  /\ PointsTyped'
         /\ UNCHANGED <<watchers_wait_for_one, watchers_wait_for_all, call, threw>>
         /\ \A x \in SyncPoints :
              /\ watchers'[x] = IF x \in Up[In[w]] \cup OutPath(w) THEN watchers[x] \cup {w} ELSE watchers[x]
              /\ \A d \in Components :
                   /\ emitters'[x][d] = IF d = w /\ x \in OutPath(w) THEN emitters[x][d] + 1 ELSE emitters[x][d]
                   /\ pending_emitters'[x][d] =
                        IF d = w /\ x \in OutPath(w) THEN pending_emitters[x][d] + 1 ELSE pending_emitters[x][d]
<1>1. w \in Components /\ In[w] # None
  BY AspectPoints, PredAssumption
<1>2. \A x \in SyncPoints : (\E s \in {In[w], Out[w]} \ {None} : x \in Up[s]) <=> x \in Up[In[w]] \cup OutPath(w)
  BY <1>1 DEF OutPath
<1>3. \A x \in SyncPoints : (Out[w] # None /\ x \in Up[Out[w]]) <=> x \in OutPath(w)
  BY DEF OutPath
<1>4. /\ watchers' = [x \in SyncPoints |->
           IF \E s \in {In[w], Out[w]} \ {None} : x \in Up[s] THEN watchers[x] \cup {w} ELSE watchers[x]]
      /\ emitters' = [x \in SyncPoints |->
           IF Out[w] # None /\ x \in Up[Out[w]] THEN More(emitters[x], w) ELSE emitters[x]]
      /\ pending_emitters' = [x \in SyncPoints |->
           IF Out[w] # None /\ x \in Up[Out[w]] THEN More(pending_emitters[x], w) ELSE pending_emitters[x]]
      /\ UNCHANGED <<watchers_wait_for_one, watchers_wait_for_all, timer_running, timer_owner,
                     max_waittime, newer, call, threw>>
  BY DEF Join
<1>5. watchers' = [x \in SyncPoints |->
           IF x \in Up[In[w]] \cup OutPath(w) THEN watchers[x] \cup {w} ELSE watchers[x]]
  BY <1>2, <1>4
<1>6. /\ emitters' = [x \in SyncPoints |-> IF x \in OutPath(w) THEN More(emitters[x], w) ELSE emitters[x]]
      /\ pending_emitters' = [x \in SyncPoints |->
           IF x \in OutPath(w) THEN More(pending_emitters[x], w) ELSE pending_emitters[x]]
  BY <1>3, <1>4
<1>7. ASSUME NEW b \in [Components -> Nat]
      PROVE  /\ More(b, w) \in [Components -> Nat]
             /\ \A d \in Components : More(b, w)[d] = IF d = w THEN b[d] + 1 ELSE b[d]
  BY <1>1 DEF More
<1>8. \A x \in SyncPoints : emitters[x] \in [Components -> Nat] /\ pending_emitters[x] \in [Components -> Nat]
  BY DEF PointsTyped
<1>9. watchers' \in [SyncPoints -> SUBSET Components]
  BY <1>1, <1>5 DEF PointsTyped
<1>10. /\ emitters' \in [SyncPoints -> [Components -> Nat]]
       /\ pending_emitters' \in [SyncPoints -> [Components -> Nat]]
  BY <1>6, <1>7, <1>8
<1>11. PointsTyped'
  BY <1>4, <1>9, <1>10 DEF PointsTyped
<1>12. ASSUME NEW x \in SyncPoints, NEW d \in Components
       PROVE  /\ emitters'[x][d] = IF d = w /\ x \in OutPath(w) THEN emitters[x][d] + 1 ELSE emitters[x][d]
              /\ pending_emitters'[x][d] =
                   IF d = w /\ x \in OutPath(w) THEN pending_emitters[x][d] + 1 ELSE pending_emitters[x][d]
  BY <1>6, <1>7, <1>8
<1> QED
  BY <1>4, <1>5, <1>11, <1>12

\* unregister_emitter() takes back a registration on the whole path.
LEMMA EraseDoes ==
  ASSUME PointsTyped, NEW w \in Components, NEW s \in SyncPoints, UnregisterErase(w, s),
         \A y \in Up[s] : emitters[y][w] > 0
  PROVE  /\ PointsTyped'
         /\ UNCHANGED <<watchers, pending_emitters, watchers_wait_for_one, watchers_wait_for_all, call, threw>>
         /\ \A x \in SyncPoints, d \in Components :
              emitters'[x][d] = IF d = w /\ x \in Up[s] THEN emitters[x][d] - 1 ELSE emitters[x][d]
<1>1. {x \in Up[s] : \A y \in Up[s] : x \in Up[y] => emitters[y][w] > 0} = Up[s]
  OBVIOUS
<1>2. /\ emitters' = [x \in SyncPoints |-> IF x \in Up[s] THEN Less(emitters[x], w) ELSE emitters[x]]
      /\ UNCHANGED <<watchers, pending_emitters, watchers_wait_for_one, watchers_wait_for_all,
                     timer_running, timer_owner, max_waittime, newer, call, threw>>
  BY <1>1 DEF UnregisterErase
<1>3. ASSUME NEW b \in [Components -> Nat], b[w] > 0
      PROVE  /\ Less(b, w) \in [Components -> Nat]
             /\ \A d \in Components : Less(b, w)[d] = IF d = w THEN b[d] - 1 ELSE b[d]
  BY <1>3 DEF Less
<1>4. \A x \in SyncPoints : emitters[x] \in [Components -> Nat]
  BY DEF PointsTyped
<1>5. emitters' \in [SyncPoints -> [Components -> Nat]]
  BY <1>2, <1>3, <1>4
<1>6. PointsTyped'
  BY <1>2, <1>5 DEF PointsTyped
<1>7. ASSUME NEW x \in SyncPoints, NEW d \in Components
      PROVE  emitters'[x][d] = IF d = w /\ x \in Up[s] THEN emitters[x][d] - 1 ELSE emitters[x][d]
  BY <1>2, <1>3, <1>4
<1> QED
  BY <1>2, <1>6, <1>7

\* release_syncpoint() of a watcher that emits nowhere on the way: no exception.
LEMMA ReleaseDoes ==
  ASSUME PointsTyped, NEW w \in Components, NEW s \in SyncPoints, Release(w, s),
         NEW D, D = Releasable(w, s), \A x \in D : w \in watchers[x] /\ emitters[x][w] = 0
  PROVE  /\ PointsTyped' /\ UNCHANGED <<emitters, pending_emitters, call, threw>>
         /\ \A x \in SyncPoints :
              /\ watchers'[x] = IF x \in D THEN watchers[x] \ {w} ELSE watchers[x]
              /\ watchers_wait_for_one'[x] =
                   IF x \in D THEN watchers_wait_for_one[x] \ {w} ELSE watchers_wait_for_one[x]
              /\ watchers_wait_for_all'[x] =
                   IF x \in D THEN watchers_wait_for_all[x] \ {w} ELSE watchers_wait_for_all[x]
<1>1. \A x \in D : ~(w \notin watchers[x] \/ emitters[x][w] > 0)
  OBVIOUS
<1>2. {x \in Releasable(w, s) : \A y \in Releasable(w, s) \ {x} :
         x \in Up[y] => ~(w \notin watchers[y] \/ emitters[y][w] > 0)} = D
  BY <1>1
<1>3. /\ watchers' = [x \in SyncPoints |-> IF x \in D THEN watchers[x] \ {w} ELSE watchers[x]]
      /\ watchers_wait_for_one' = [x \in SyncPoints |->
           IF x \in D THEN watchers_wait_for_one[x] \ {w} ELSE watchers_wait_for_one[x]]
      /\ watchers_wait_for_all' = [x \in SyncPoints |->
           IF x \in D THEN watchers_wait_for_all[x] \ {w} ELSE watchers_wait_for_all[x]]
      /\ timer_running' = [x \in SyncPoints |-> timer_running[x] /\ ~(x \in D /\ timer_owner[x] = w)]
      /\ threw' = IF \E x \in D : w \notin watchers[x] \/ emitters[x][w] > 0 THEN threw \cup {w} ELSE threw
      /\ UNCHANGED <<emitters, pending_emitters, timer_owner, max_waittime, newer, call>>
  BY <1>2 DEF Release
<1>4. threw' = threw
  BY <1>1, <1>3
<1>5. timer_running' \in [SyncPoints -> BOOLEAN]
  BY <1>3
<1>6. /\ watchers' \in [SyncPoints -> SUBSET Components]
      /\ watchers_wait_for_one' \in [SyncPoints -> SUBSET Components]
      /\ watchers_wait_for_all' \in [SyncPoints -> SUBSET Components]
  BY <1>3 DEF PointsTyped
<1>7. PointsTyped'
  BY <1>3, <1>4, <1>5, <1>6 DEF PointsTyped
<1> QED
  BY <1>3, <1>4, <1>7

\* The release of the input point gets to it, and not to the path of the output point.
LEMMA InReleasable ==
  ASSUME RegistrationsAgree, NEW w \in Workers, life[w] = "cancelled"
  PROVE  /\ In[w] \in Releasable(w, In[w])
         /\ \A x \in Releasable(w, In[w]) : x \in Up[In[w]] /\ x \notin OutPath(w)
<1>1. /\ w \in Components /\ In[w] \in SyncPoints /\ In[w] \in Up[In[w]] /\ Up[In[w]] \subseteq SyncPoints
  BY AspectPoints, UpIs
<1>2. /\ \A x \in SyncPoints : w \in watchers[x] => x \in Up[In[w]] \cup OutPath(w)
      /\ \A x \in OutPath(w) : w \in watchers[x]
  BY AspectPoints DEF RegistrationsAgree
<1>3. ASSUME NEW y \in Up[In[w]], In[w] \in Up[y], NEW z \in SyncPoints \ Up[In[w]], Pred[z] = y
      PROVE  w \notin watchers[z]
  <2>1. y = In[w]
    BY <1>1, <1>3, UpAnti
  <2>2. SUFFICES ASSUME w \in watchers[z] PROVE FALSE
    OBVIOUS
  <2>3. z \in OutPath(w) /\ Out[w] # None
    BY <1>2, <2>2 DEF OutPath
  <2>4. Out[w] \in SyncPoints /\ OutPath(w) = Up[Out[w]]
    BY <2>3, AspectPoints
  <2>5. In[w] \in Up[Out[w]]
    <3>1. Pred[z] # None
      BY <1>1, <1>3, <2>1, PredAssumption
    <3> QED
      BY <1>3, <2>1, <2>3, <2>4, <3>1, UpIs DEF Closed
  <2> QED
    BY <2>3, <2>5, AspectAssumption
<1>4. In[w] \in Releasable(w, In[w])
  BY <1>1, <1>3 DEF Releasable
<1>5. ASSUME NEW x \in Releasable(w, In[w]), x \in OutPath(w) PROVE FALSE
  <2>1. Out[w] # None
    BY <1>5 DEF OutPath
  <2>2. Out[w] \in SyncPoints /\ OutPath(w) = Up[Out[w]] /\ Out[w] \notin Up[In[w]]
    BY <2>1, AspectPoints, AspectAssumption
  <2>3. x \in Up[In[w]]
    BY DEF Releasable
  <2>4. PICK z \in Up[Out[w]] : z \notin Up[In[w]] /\ Pred[z] \in Up[In[w]] /\ x \in Up[Pred[z]]
    BY <1>1, <1>5, <2>2, <2>3, Fork
  <2>5. z \in SyncPoints /\ w \in watchers[z]
    BY <1>2, <2>2, <2>4, UpIs
  <2> QED
    BY <1>5, <2>4, <2>5 DEF Releasable
<1> QED
  BY <1>4, <1>5 DEF Releasable

-----------------------------------------------------------------------------
(* The parts of the invariant                                              *)

\* The parts together.
LEMMA Assemble ==
  ASSUME TypeOK', LivesAgree', CallsAgree', RegistrationsAgree', PendingKept', SetsFit', NoException'
  PROVE  MInv'
<1>1. SetsFit' <=> WaitingSetsAgree' /\ WaitersByType'
  BY SetsFitIs, PTL
<1> QED
  BY <1>1 DEF MInv

\* What a step may do to the lives of threads without touching their registrations.
LivesMove ==
  \A w \in Workers :
    \/ life'[w] = life[w]
    \/ {life[w], life'[w]} \subseteq {"loaded", "prepared", "cancelled"}
    \/ life[w] = "released" /\ life'[w] = "emitted"

\* Registrations stay when nobody joins or leaves.
LEMMA KeepRegistrations ==
  ASSUME RegistrationsAgree, UNCHANGED <<watchers, emitters>>, LivesMove
  PROVE  RegistrationsAgree'
<1>1. ASSUME NEW w \in Workers, NEW x \in SyncPoints
      PROVE  /\ w \in watchers'[x] => x \in Up[In[w]] \cup OutPath(w)
             /\ x \in Up[In[w]] /\ life'[w] \in {"loaded", "prepared", "cancelled"} => w \in watchers'[x]
             /\ x \in OutPath(w) /\ life'[w] # "none" => w \in watchers'[x]
             /\ emitters'[x][w] = IF x \in OutPath(w) /\ life'[w] \notin {"none", "erased"} THEN 1 ELSE 0
  BY DEF RegistrationsAgree, LivesMove
<1>2. \A h \in 1..Hooks :
        /\ Main \in watchers'[End[h]]
        /\ \A x \in Up[Start[h]] : Main \in watchers'[x] /\ emitters'[x][Main] > 0
  BY DEF RegistrationsAgree
<1> QED
  BY <1>1, <1>2 DEF RegistrationsAgree

\* Calls that go on at their points.
SameCall(k, j) == /\ j.at = k.at /\ j.mode = k.mode /\ (j = NoCall <=> k = NoCall)
                  /\ j.st = "timedout" => k.st = "timedout"

\* The threads stay where they are as far as their calls are concerned.
SamePlaces == /\ mpc' = "waiting" <=> mpc = "waiting"
              /\ hook' = hook \/ call[Main] = NoCall
              /\ \A w \in Workers : wpc'[w] = "prewait" <=> wpc[w] = "prewait"

\* Calls go on where they are.
LEMMA KeepCalls ==
  ASSUME CallsAgree, SamePlaces, \A c \in Components : SameCall(call[c], call'[c])
  PROVE  CallsAgree'
<1>1. Main \in Components /\ Workers \subseteq Components
  BY AspectAssumption DEF Workers
<1>2. SameCall(call[Main], call'[Main]) /\ \A w \in Workers : SameCall(call[w], call'[w])
  BY <1>1
<1>3. /\ call'[Main] # NoCall <=> mpc' = "waiting"
      /\ call'[Main] # NoCall => call'[Main].at = End[hook'] /\ call'[Main].mode # "one"
  BY <1>2 DEF SameCall, SamePlaces, CallsAgree
<1>4. ASSUME NEW w \in Workers
      PROVE  /\ call'[w] # NoCall <=> wpc'[w] = "prewait"
             /\ call'[w] # NoCall => /\ call'[w].at = In[w] /\ call'[w].st # "timedout"
                                     /\ call'[w].mode = "one" <=> Type[w] = "one"
  <2>1. PICK k, j : k = call[w] /\ j = call'[w]
    OBVIOUS
  <2>2. /\ k # NoCall <=> wpc[w] = "prewait"
        /\ k # NoCall => k.at = In[w] /\ k.st # "timedout" /\ (k.mode = "one" <=> Type[w] = "one")
    BY <2>1 DEF CallsAgree
  <2>3. SameCall(k, j) /\ (wpc'[w] = "prewait" <=> wpc[w] = "prewait")
    BY <1>2, <2>1 DEF SamePlaces
  <2> QED
    BY <2>1, <2>2, <2>3 DEF SameCall
<1> QED
  BY <1>3, <1>4 DEF CallsAgree

\* Those who are cancelled stay so.
GoneStay == \A c \in Components : Gone(c) => Gone(c)'

\* A step that does nothing at the points.
LEMMA QuietStep ==
  ASSUME MInv, UNCHANGED points, SamePlaces, LivesMove, GoneStay, LivesAgree', TypeOK'
  PROVE  MInv'
<1>1. UNCHANGED <<watchers, emitters, pending_emitters, watchers_wait_for_one, watchers_wait_for_all, call, threw>>
  BY DEF points
<1>2. RegistrationsAgree'
  BY <1>1, KeepRegistrations DEF MInv
<1>3. CallsAgree'
  BY <1>1, KeepCalls DEF MInv, SameCall
<1>4. SetsFit'
  BY <1>1, SetsFitIs, FitUnchanged DEF MInv, GoneStay
<1>5. PendingKept' /\ NoException'
  BY <1>1 DEF MInv, PendingKept, NoException
<1> QED
  BY <1>2, <1>3, <1>4, <1>5, Assemble

\* A step that emits.
LEMMA EmitStep ==
  ASSUME MInv, NEW c \in Components, NEW s \in SyncPoints, emit(c, s),
         \A y \in Up[s] : c \in watchers[y] /\ emitters[y][c] > 0,
         SamePlaces, LivesMove, GoneStay, LivesAgree', PointsTyped' => TypeOK'
  PROVE  MInv'
<1>1. /\ PointsTyped' /\ UNCHANGED <<watchers, emitters, threw>>
      /\ \A x \in SyncPoints : SomePending(x) => SomePending(x)'
      /\ \E ones, alls : ReleasedAt(ones, alls)
  BY EmitDoes DEF MInv, TypeOK
<1>2. PICK ones, alls : ReleasedAt(ones, alls)
  BY <1>1
<1>3. RegistrationsAgree'
  BY <1>1, KeepRegistrations DEF MInv
<1>4. PointsTyped
  BY DEF MInv, TypeOK
<1>5. \A d \in Components : Woken(call[d], call'[d], ones, alls)
  BY <1>2, <1>4, WakeDoes DEF ReleasedAt
<1>6. CallsAgree'
  <2>1. \A d \in Components : SameCall(call[d], call'[d])
    BY <1>5 DEF Woken, SameCall
  <2> QED
    BY <2>1, KeepCalls DEF MInv
<1>7. SetsFit'
  BY <1>2, <1>4, SetsFitIs, FitEmit DEF MInv, GoneStay
<1>8. PendingKept'
  <2>1. \A x \in SyncPoints : (\E d \in Components : emitters'[x][d] > 0) => SomePending(x)'
    BY <1>1 DEF MInv, PendingKept, SomePending
  <2>2. \A d \in Components : call'[d].mode # "one" =>
          call[d].mode # "one" /\ call'[d].at = call[d].at /\ call[d].at \in SyncPoints
    BY <1>4, <1>5, CallsAt DEF Woken
  <2> QED
    BY <1>1, <1>4, <2>1, <2>2, PendingStays DEF MInv
<1>9. NoException'
  BY <1>1 DEF MInv, NoException
<1> QED
  BY <1>1, <1>3, <1>6, <1>7, <1>8, <1>9, Assemble

\* A step that waits.
LEMMA WaitStep ==
  ASSUME MInv, NEW c \in Components, NEW s \in SyncPoints, NEW type \in {"one", "all"},
         NEW limit \in BOOLEAN, wait(c, s, type, limit), c \in watchers[s], ~Gone(c),
         c # Main => s = In[c], UNCHANGED life, GoneStay
  PROVE  /\ PointsTyped' /\ RegistrationsAgree' /\ PendingKept' /\ SetsFit' /\ NoException'
         /\ call[c] = NoCall
         /\ \A d \in Components : d # c => call'[d] = call[d]
         /\ \/ call'[c] = NoCall /\ ~need_to_wait(s, type)
            \/ /\ call'[c] \in Call /\ call'[c].at = s /\ call'[c].st = "blocked"
               /\ call'[c].mode = "one" <=> type = "one"
<1>1. PointsTyped /\ SetsFit /\ call[c] = NoCall
  BY SetsFitIs DEF MInv, TypeOK, wait
<1>2. ~WaitRefused(c, s, type)
  BY <1>1, NotWaiting DEF WaitRefused
<1>3. /\ PointsTyped' /\ UNCHANGED <<watchers, emitters, pending_emitters, threw>>
      /\ \/ ~need_to_wait(s, type) /\ UNCHANGED <<watchers_wait_for_one, watchers_wait_for_all, call>>
         \/ \E k : Blocks(c, s, type, k)
  BY <1>1, <1>2, WaitDoes
<1>4. RegistrationsAgree'
  BY <1>3, KeepRegistrations DEF MInv, LivesMove
<1>5. NoException'
  BY <1>3 DEF MInv, NoException
<1>6. CASE ~need_to_wait(s, type) /\ UNCHANGED <<watchers_wait_for_one, watchers_wait_for_all, call>>
  <2>1. SetsFit'
    BY <1>1, <1>6, FitUnchanged DEF GoneStay
  <2>2. PendingKept'
    BY <1>3, <1>6 DEF MInv, PendingKept
  <2> QED
    BY <1>1, <1>3, <1>4, <1>5, <1>6, <2>1, <2>2
<1>7. CASE \E k : Blocks(c, s, type, k)
  <2>1. PICK k : Blocks(c, s, type, k)
    BY <1>7
  <2>2. SetsFit'
    BY <1>1, <2>1, FitBlocks DEF GoneStay
  <2>3. /\ call'[c] = k /\ k \in Call /\ k.at = s /\ k.st = "blocked" /\ (k.mode = "one" <=> type = "one")
        /\ \A d \in Components : d # c => call'[d] = call[d]
    BY <1>1, <2>1 DEF Blocks, PointsTyped
  <2>4. PendingKept'
    <3>1. \A x \in SyncPoints : SomePending(x) => SomePending(x)'
      BY <1>3 DEF SomePending
    <3>2. \A x \in SyncPoints : (\E d \in Components : emitters'[x][d] > 0) => SomePending(x)'
      BY <1>3 DEF MInv, PendingKept, SomePending
    <3>3. type # "one" => SomePending(s)
      BY <2>1 DEF Blocks, MInv, PendingKept, SomePending
    <3>4. \A d \in Components : call'[d].mode # "one" =>
            \/ call[d].mode # "one" /\ call'[d].at = call[d].at /\ call[d].at \in SyncPoints
            \/ call'[d].at \in SyncPoints /\ SomePending(call'[d].at)
      <4> SUFFICES ASSUME NEW d \in Components, call'[d].mode # "one"
                   PROVE  \/ call[d].mode # "one" /\ call'[d].at = call[d].at /\ call[d].at \in SyncPoints
                          \/ call'[d].at \in SyncPoints /\ SomePending(call'[d].at)
        OBVIOUS
      <4>1. CASE d = c
        BY <2>3, <3>3, <4>1
      <4>2. CASE d # c
        BY <1>1, <2>3, <4>2, CallsAt
      <4> QED
        BY <4>1, <4>2
    <3> QED
      BY <1>1, <3>1, <3>2, <3>4, PendingStays DEF MInv
  <2> QED
    BY <1>1, <1>3, <1>4, <1>5, <2>2, <2>3, <2>4
<1> QED
  BY <1>3, <1>6, <1>7

\* A step at the end of a wait: the caller is in no set any more.
LEMMA ReturnStep ==
  ASSUME MInv, NEW c \in Components, WaitReturn(c), ~Gone(c), UNCHANGED life, GoneStay
  PROVE  /\ PointsTyped' /\ RegistrationsAgree' /\ PendingKept' /\ SetsFit' /\ NoException'
         /\ call'[c] = NoCall /\ \A d \in Components : d # c => call'[d] = call[d]
<1>1. PointsTyped /\ SetsFit /\ CallsAgree
  BY SetsFitIs DEF MInv, TypeOK
<1>2. call[c].mode # "one" => SomePending(call[c].at)
  BY DEF MInv, PendingKept, SomePending
<1>3. /\ PointsTyped' /\ UNCHANGED <<watchers, emitters, pending_emitters, threw>>
      /\ call[c] # NoCall /\ call'[c] = NoCall
      /\ \/ /\ call[c].st = "woken"
            /\ UNCHANGED <<watchers_wait_for_one, watchers_wait_for_all>>
            /\ \A d \in Components : d # c => call'[d] = call[d]
         \/ /\ call[c].st = "timedout"
            /\ watchers_wait_for_one' = [watchers_wait_for_one EXCEPT ![call[c].at] = @ \ {c}]
            /\ watchers_wait_for_all' = [watchers_wait_for_all EXCEPT ![call[c].at] = @ \ {c}]
            /\ \E alls \in SUBSET {call[c].at} :
                 \A d \in Components : d # c => Woken(call[d], call'[d], {}, alls)
  BY <1>1, <1>2, ReturnDoes
<1>4. ASSUME call[c].st = "timedout", NEW d \in Components, d # c
      PROVE  call'[d] = call[d]
  <2>1. c = Main /\ call[Main] # NoCall /\ d \in Workers
    BY <1>1, <1>3, <1>4 DEF CallsAgree, Workers
  <2>2. call[c].at = End[hook] /\ hook \in 1..Hooks
    BY <1>1, <2>1 DEF CallsAgree, MInv, TypeOK
  <2>3. PICK alls \in SUBSET {call[c].at} : Woken(call[d], call'[d], {}, alls)
    BY <1>3, <1>4
  <2>4. SUFFICES ASSUME call[d].mode # "one", call[d].at = End[hook] PROVE FALSE
    BY <2>2, <2>3 DEF Woken
  <2>5. call[d] # NoCall
    BY <2>4, CallFields
  <2>6. call[d].at = In[d] /\ Type[d] = "all"
    BY <1>1, <2>1, <2>4, <2>5, AspectAssumption DEF CallsAgree
  <2> QED
    BY <2>1, <2>2, <2>4, <2>6, AspectAssumption
<1>5. \A d \in Components : d # c => call'[d] = call[d]
  BY <1>3, <1>4
<1>6. SetsFit'
  <2> SUFFICES ASSUME NEW s \in SyncPoints, NEW d \in Components
               PROVE  Fits(call'[d], d, s, watchers_wait_for_one'[s], watchers_wait_for_all'[s], Gone(d)')
    BY DEF SetsFit
  <2>1. PICK k, O, A, P, B : /\ k = call[d] /\ O = watchers_wait_for_one[s] /\ A = watchers_wait_for_all[s]
                             /\ P = watchers_wait_for_one'[s] /\ B = watchers_wait_for_all'[s]
    OBVIOUS
  <2>2. Fits(k, d, s, O, A, Gone(d)) /\ (Gone(d) => Gone(d)')
    BY <1>1, <2>1 DEF SetsFit, GoneStay
  <2>3. CASE d # c
    <3>1. call'[d] = k
      BY <1>5, <2>1, <2>3
    <3>2. (P = O \/ P = O \ {c}) /\ (B = A \/ B = A \ {c})
      BY <1>1, <1>3, <2>1 DEF PointsTyped
    <3> QED
      BY <2>1, <2>2, <2>3, <3>1, <3>2 DEF Fits
  <2>4. CASE d = c
    <3>1. call'[d].st = "none"
      BY <1>3, <2>4, CallFields
    <3>2. d \notin P \cup B
      <4>1. CASE k.st = "woken"
        <5>1. P = O /\ B = A
          BY <1>3, <2>1, <2>4, <4>1
        <5> QED
          BY <2>2, <2>4, <4>1, <5>1 DEF Fits
      <4>2. CASE k.st = "timedout"
        <5>1. /\ P = IF s = k.at THEN O \ {c} ELSE O
              /\ B = IF s = k.at THEN A \ {c} ELSE A
          BY <1>1, <1>3, <2>1, <2>4, <4>2 DEF PointsTyped
        <5> QED
          BY <2>2, <2>4, <5>1 DEF Fits
      <4> QED
        BY <1>3, <2>1, <2>4, <4>1, <4>2
    <3> QED
      BY <2>1, <3>1, <3>2 DEF Fits
  <2> QED
    BY <2>3, <2>4
<1>7. PendingKept'
  <2>1. \A d \in Components : call'[d].mode # "one" => call'[d] = call[d]
    BY <1>3, <1>5, CallFields
  <2> QED
    BY <1>3, <2>1 DEF MInv, PendingKept
<1>8. RegistrationsAgree'
  BY <1>3, KeepRegistrations DEF MInv, LivesMove
<1>9. NoException'
  BY <1>3 DEF MInv, NoException
<1> QED
  BY <1>3, <1>5, <1>6, <1>7, <1>8, <1>9

-----------------------------------------------------------------------------
(* The steps of the main thread                                            *)

\* After the last hook the loop starts again.
LEMMA NextHookIs ==
  ASSUME TypeOK, NextHook
  PROVE  mpc' \in {"emit", "idle"} /\ hook' \in 1..Hooks
BY AspectAssumption DEF TypeOK, NextHook

\* The threads stay as they are.
LEMMA ThreadsStay ==
  ASSUME MInv, UNCHANGED <<wpc, life>>
  PROVE  LivesMove /\ GoneStay /\ LivesAgree'
BY DEF MInv, LivesMove, GoneStay, Gone, LivesAgree

\* Only the main thread's call changes.
LEMMA MainCalls ==
  ASSUME MInv, UNCHANGED wpc, \A d \in Components : d # Main => call'[d] = call[d],
         call'[Main] # NoCall <=> mpc' = "waiting",
         call'[Main] # NoCall => call'[Main].at = End[hook'] /\ call'[Main].mode # "one"
  PROVE  CallsAgree'
<1>1. \A w \in Workers : call'[w] = call[w]
  BY DEF Workers
<1> QED
  BY <1>1 DEF MInv, CallsAgree

\* A cycle begins: no point is touched.
LEMMA MainStartStep == ASSUME MInv, MainStart PROVE MInv'
<1>1. UNCHANGED <<points, wpc, life, defaulted>> /\ mpc = "idle" /\ mpc' = "emit" /\ hook' = 1
  BY DEF MainStart
<1>2. call[Main] = NoCall
  BY <1>1 DEF MInv, CallsAgree
<1>3. SamePlaces
  BY <1>1, <1>2 DEF SamePlaces
<1>4. TypeOK'
  BY <1>1, AspectAssumption DEF MInv, TypeOK, PointsTyped, points
<1> QED
  BY <1>1, <1>3, <1>4, ThreadsStay, QuietStep

\* The main thread emits the start point of a hook.
LEMMA MainEmitStep == ASSUME MInv, MainEmit PROVE MInv'
<1>1. PICK h \in 1..Hooks : h = hook
  BY DEF MInv, TypeOK
<1>2. emit(Main, Start[h]) /\ mpc = "emit" /\ mpc' = "wait" /\ UNCHANGED <<hook, wpc, life, defaulted>>
  BY <1>1 DEF MainEmit
<1>3. Main \in Components /\ Start[h] \in SyncPoints
  BY AspectAssumption
<1>4. \A y \in Up[Start[h]] : Main \in watchers[y] /\ emitters[y][Main] > 0
  BY DEF MInv, RegistrationsAgree
<1>5. SamePlaces
  BY <1>2 DEF SamePlaces
<1>6. PointsTyped' => TypeOK'
  BY <1>2 DEF MInv, TypeOK
<1> QED
  BY <1>2, <1>3, <1>4, <1>5, <1>6, ThreadsStay, EmitStep

\* It waits for all at the end point, or finds nobody to wait for.
LEMMA MainWaitStep == ASSUME MInv, MainWait PROVE MInv'
<1>1. PICK h \in 1..Hooks : h = hook
  BY DEF MInv, TypeOK
<1>2. /\ wait(Main, End[h], "all", TRUE) /\ mpc = "wait" /\ UNCHANGED <<wpc, life, defaulted>>
      /\ IF call'[Main] = NoCall THEN NextHook ELSE mpc' = "waiting" /\ UNCHANGED hook
  BY <1>1 DEF MainWait
<1>3. Main \in Components /\ End[h] \in SyncPoints /\ Main \in watchers[End[h]] /\ ~Gone(Main)
  BY AspectAssumption DEF MInv, RegistrationsAgree, Gone
<1>4. LivesAgree' /\ GoneStay
  BY <1>2, ThreadsStay
<1>5. /\ PointsTyped' /\ RegistrationsAgree' /\ PendingKept' /\ SetsFit' /\ NoException'
      /\ \A d \in Components : d # Main => call'[d] = call[d]
      /\ call'[Main] = NoCall \/ (call'[Main] \in Call /\ call'[Main].at = End[h] /\ call'[Main].mode # "one")
  BY <1>2, <1>3, <1>4, WaitStep
<1>6. CASE call'[Main] = NoCall
  <2>1. mpc' \in {"emit", "idle"} /\ hook' \in 1..Hooks
    BY <1>2, <1>6, NextHookIs DEF MInv
  <2>2. CallsAgree'
    BY <1>2, <1>5, <1>6, <2>1, MainCalls
  <2>3. TypeOK'
    BY <1>2, <1>5, <2>1 DEF MInv, TypeOK
  <2> QED
    BY <1>4, <1>5, <2>2, <2>3, Assemble
<1>7. CASE call'[Main] # NoCall
  <2>1. mpc' = "waiting" /\ UNCHANGED hook
    BY <1>2, <1>7
  <2>2. CallsAgree'
    BY <1>1, <1>2, <1>5, <1>7, <2>1, MainCalls
  <2>3. TypeOK'
    BY <1>2, <1>5, <2>1 DEF MInv, TypeOK
  <2> QED
    BY <1>4, <1>5, <2>2, <2>3, Assemble
<1> QED
  BY <1>6, <1>7

\* Its wait is over, in time or not.
LEMMA MainReturnStep == ASSUME MInv, MainReturn PROVE MInv'
<1>1. /\ WaitReturn(Main) /\ NextHook /\ defaulted' = (defaulted \/ call[Main].st = "timedout")
      /\ UNCHANGED <<wpc, life>>
  BY DEF MainReturn
<1>2. Main \in Components /\ ~Gone(Main)
  BY AspectAssumption DEF Gone
<1>3. LivesAgree' /\ GoneStay
  BY <1>1, ThreadsStay
<1>4. /\ PointsTyped' /\ RegistrationsAgree' /\ PendingKept' /\ SetsFit' /\ NoException'
      /\ call'[Main] = NoCall /\ \A d \in Components : d # Main => call'[d] = call[d]
  BY <1>1, <1>2, <1>3, ReturnStep
<1>5. mpc' \in {"emit", "idle"} /\ hook' \in 1..Hooks
  BY <1>1, NextHookIs DEF MInv
<1>6. CallsAgree'
  BY <1>1, <1>4, <1>5, MainCalls
<1>7. defaulted' \in BOOLEAN
  BY <1>1
<1>8. TypeOK'
  BY <1>1, <1>4, <1>5, <1>7 DEF MInv, TypeOK
<1> QED
  BY <1>3, <1>4, <1>6, <1>8, Assemble

\* Its time limit passes; it stays in the waiting set until it has the mutex again.
LEMMA MainTimeoutStep == ASSUME MInv, MainTimeout PROVE MInv'
<1>1. /\ call[Main].st = "blocked" /\ call' = [call EXCEPT ![Main].st = "timedout"]
      /\ UNCHANGED <<watchers, emitters, pending_emitters, watchers_wait_for_one, watchers_wait_for_all,
                     timer_running, timer_owner, max_waittime, newer, threw>>
      /\ UNCHANGED <<mpc, hook, wpc, life, defaulted>>
  BY DEF MainTimeout, timeout
<1>2. PointsTyped /\ SetsFit /\ Main \in Components
  BY SetsFitIs, AspectAssumption DEF MInv, TypeOK
<1>3. PICK k \in Call : k = call[Main]
  BY <1>1, <1>2, CallFields DEF PointsTyped
<1>4. PICK j : j = [k EXCEPT !.st = "timedout"]
  OBVIOUS
<1>5. j \in Call /\ j.at = k.at /\ j.mode = k.mode /\ j.st = "timedout" /\ j # NoCall
  BY <1>4, CallFields DEF Call
<1>6. call' = [call EXCEPT ![Main] = j]
  BY <1>1, <1>2, <1>3, <1>4 DEF PointsTyped
<1>7. call'[Main] = j /\ \A d \in Components : d # Main => call'[d] = call[d]
  BY <1>2, <1>6 DEF PointsTyped
<1>8. call' \in [Components -> Call \cup {NoCall}]
  BY <1>2, <1>5, <1>6 DEF PointsTyped
<1>9. TypeOK'
  BY <1>1, <1>8 DEF MInv, TypeOK, PointsTyped
<1>10. LivesMove /\ GoneStay /\ LivesAgree'
  BY <1>1, ThreadsStay
<1>11. CallsAgree'
  <2>1. k # NoCall /\ mpc = "waiting" /\ k.at = End[hook] /\ k.mode # "one"
    BY <1>3, CallFields DEF MInv, CallsAgree
  <2> QED
    BY <1>1, <1>5, <1>7, <2>1, MainCalls
<1>12. SetsFit'
  <2> SUFFICES ASSUME NEW s \in SyncPoints, NEW d \in Components
               PROVE  Fits(call'[d], d, s, watchers_wait_for_one'[s], watchers_wait_for_all'[s], Gone(d)')
    BY DEF SetsFit
  <2>1. /\ Fits(call[d], d, s, watchers_wait_for_one[s], watchers_wait_for_all[s], Gone(d))
        /\ Gone(d) => Gone(d)'
    BY <1>2, <1>10 DEF SetsFit, GoneStay
  <2>2. CASE d = Main
    BY <1>1, <1>3, <1>5, <1>7, <2>1, <2>2 DEF Fits
  <2>3. CASE d # Main
    BY <1>1, <1>7, <2>1, <2>3 DEF Fits
  <2> QED
    BY <2>2, <2>3
<1>13. PendingKept'
  <2>1. \A d \in Components : call'[d].mode = call[d].mode /\ call'[d].at = call[d].at
    BY <1>3, <1>5, <1>7
  <2> QED
    BY <1>1, <2>1 DEF MInv, PendingKept
<1>14. RegistrationsAgree' /\ NoException'
  BY <1>1, <1>10, KeepRegistrations DEF MInv, NoException
<1> QED
  BY <1>9, <1>10, <1>11, <1>12, <1>13, <1>14, Assemble

-----------------------------------------------------------------------------
(* The steps of the other threads                                          *)

LifeFits(w, p, l) ==
  /\ p = "none" <=> l = "none"
  /\ p \in {"top", "prewait", "loop", "asleep"} => l \in {"loaded", "prepared", "cancelled"}
  /\ p = "dead" => l \in {"cancelled", "released", "emitted", "erased"}
  /\ l \in {"released", "emitted", "erased"} => Out[w] # None

\* The thread is at p, and its removal at l.
Moves(w, p, l) ==
  /\ p \in {"none", "top", "prewait", "loop", "asleep", "dead"}
  /\ l \in {"none", "loaded", "prepared", "cancelled", "released", "emitted", "erased"}
  /\ wpc' = [wpc EXCEPT ![w] = p] /\ life' = [life EXCEPT ![w] = l]
  /\ UNCHANGED <<mpc, hook, defaulted>>

\* The other threads stay where they are.
LEMMA ThreadMoves ==
  ASSUME MInv, NEW w \in Workers, NEW p, NEW l, Moves(w, p, l), LifeFits(w, p, l)
  PROVE  /\ wpc'[w] = p /\ life'[w] = l
         /\ \A v \in Workers : v # w => wpc'[v] = wpc[v] /\ life'[v] = life[v]
         /\ LivesAgree' /\ (PointsTyped' => TypeOK')
         /\ \A d \in Components : d # w => (Gone(d) <=> Gone(d)')
<1>1. TypeOK /\ LivesAgree
  BY DEF MInv
<1>2. /\ wpc'[w] = p /\ life'[w] = l
      /\ \A v \in Workers : v # w => wpc'[v] = wpc[v] /\ life'[v] = life[v]
  BY <1>1 DEF Moves, TypeOK
<1>3. LivesAgree'
  <2>1. ASSUME NEW v \in Workers PROVE LifeFits(v, wpc'[v], life'[v])
    BY <1>1, <1>2 DEF LifeFits, LivesAgree
  <2> QED
    BY <2>1 DEF LifeFits, LivesAgree
<1>4. PointsTyped' => TypeOK'
  BY <1>1 DEF Moves, TypeOK
<1>5. ASSUME NEW d \in Components, d # w PROVE Gone(d) <=> Gone(d)'
  <2>1. d # Main => d \in Workers
    BY DEF Workers
  <2> QED
    BY <1>2, <1>5, <2>1 DEF Gone
<1> QED
  BY <1>2, <1>3, <1>4, <1>5

\* The life of a thread goes on.
LEMMA LifeStays ==
  ASSUME MInv, NEW w \in Workers, UNCHANGED life
  PROVE  life' = [life EXCEPT ![w] = life[w]] /\ LifeFits(w, wpc[w], life[w])
BY DEF MInv, TypeOK, LivesAgree, LifeFits

\* A thread stays at its place in run().
LEMMA PlaceStays ==
  ASSUME MInv, NEW w \in Workers, UNCHANGED wpc
  PROVE  wpc' = [wpc EXCEPT ![w] = wpc[w]] /\ LifeFits(w, wpc[w], life[w])
BY DEF MInv, TypeOK, LivesAgree, LifeFits

\* Only the call of one thread changes.
LEMMA ThreadCalls ==
  ASSUME MInv, NEW w \in Workers, UNCHANGED <<mpc, hook>>,
         \A v \in Workers : v # w => wpc'[v] = wpc[v],
         \A d \in Components : d # w => call'[d] = call[d],
         call'[w] # NoCall <=> wpc'[w] = "prewait",
         call'[w] # NoCall => /\ call'[w].at = In[w] /\ call'[w].st # "timedout"
                              /\ call'[w].mode = "one" <=> Type[w] = "one"
  PROVE  CallsAgree'
<1>1. CallsAgree /\ Main \in Components /\ Main # w
  BY AspectAssumption DEF MInv, Workers
<1>2. call'[Main] = call[Main]
  BY <1>1
<1>3. ASSUME NEW v \in Workers
      PROVE  /\ call'[v] # NoCall <=> wpc'[v] = "prewait"
             /\ call'[v] # NoCall => /\ call'[v].at = In[v] /\ call'[v].st # "timedout"
                                     /\ call'[v].mode = "one" <=> Type[v] = "one"
  <2>1. CASE v = w
    BY <2>1
  <2>2. CASE v # w
    <3>1. call'[v] = call[v] /\ wpc'[v] = wpc[v]
      BY <2>2 DEF Workers
    <3> QED
      BY <1>1, <3>1 DEF CallsAgree
  <2> QED
    BY <2>1, <2>2
<1> QED
  BY <1>1, <1>2, <1>3 DEF CallsAgree

\* pre_loop(): the thread watches its input point and is in no waiting set.
LEMMA LoopTopStep == ASSUME MInv, NEW w \in Workers, LoopTop(w) PROVE MInv'
<1>1. PICK p : p = IF call'[w] = NoCall THEN "loop" ELSE "prewait"
  OBVIOUS
<1>2. /\ wpc[w] = "top" /\ wait(w, In[w], Type[w], FALSE) /\ wpc' = [wpc EXCEPT ![w] = p]
      /\ UNCHANGED <<mpc, hook, life, defaulted>>
  BY <1>1 DEF LoopTop, WGoto
<1>3. life[w] \in {"loaded", "prepared", "cancelled"} /\ life' = [life EXCEPT ![w] = life[w]]
      /\ LifeFits(w, p, life[w])
  BY <1>1, <1>2, LifeStays DEF LifeFits
<1>4. Moves(w, p, life[w])
  BY <1>1, <1>2, <1>3 DEF Moves
<1>5. PICK l : l = life[w]
  OBVIOUS
<1>6. /\ wpc'[w] = p /\ \A v \in Workers : v # w => wpc'[v] = wpc[v]
      /\ LivesAgree' /\ (PointsTyped' => TypeOK')
      /\ \A d \in Components : d # w => (Gone(d) <=> Gone(d)')
  BY <1>3, <1>4, <1>5, ThreadMoves
<1>7. ~Gone(w) /\ GoneStay
  BY <1>2, <1>6 DEF GoneStay, Gone
<1>8. /\ w \in Components /\ In[w] \in SyncPoints /\ Type[w] \in {"one", "all"}
      /\ In[w] \in Up[In[w]] /\ w \in watchers[In[w]]
  BY <1>3, AspectPoints, AspectAssumption, UpIs DEF MInv, RegistrationsAgree
<1>9. /\ PointsTyped' /\ RegistrationsAgree' /\ PendingKept' /\ SetsFit' /\ NoException'
      /\ \A d \in Components : d # w => call'[d] = call[d]
      /\ \/ call'[w] = NoCall
         \/ /\ call'[w] \in Call /\ call'[w].at = In[w] /\ call'[w].st = "blocked"
            /\ call'[w].mode = "one" <=> Type[w] = "one"
  BY <1>2, <1>7, <1>8, WaitStep
<1>10. CallsAgree'
  BY <1>1, <1>2, <1>6, <1>9, ThreadCalls
<1> QED
  BY <1>6, <1>9, <1>10, Assemble

\* The thread was woken: emit() has taken it off the set.
LEMMA PreLoopReturnStep == ASSUME MInv, NEW w \in Workers, PreLoopReturn(w) PROVE MInv'
<1>1. /\ wpc[w] = "prewait" /\ WaitReturn(w) /\ wpc' = [wpc EXCEPT ![w] = "loop"]
      /\ UNCHANGED <<mpc, hook, life, defaulted>>
  BY DEF PreLoopReturn, WGoto
<1>2. PICK l : l = life[w]
  OBVIOUS
<1>3. Moves(w, "loop", l) /\ LifeFits(w, "loop", l)
  BY <1>1, <1>2, LifeStays DEF Moves, LifeFits, MInv, TypeOK
<1>4. /\ wpc'[w] = "loop" /\ \A v \in Workers : v # w => wpc'[v] = wpc[v]
      /\ LivesAgree' /\ (PointsTyped' => TypeOK')
      /\ \A d \in Components : d # w => (Gone(d) <=> Gone(d)')
  BY <1>3, ThreadMoves
<1>5. ~Gone(w) /\ GoneStay /\ w \in Components
  BY <1>1, <1>4 DEF GoneStay, Gone, Workers
<1>6. /\ PointsTyped' /\ RegistrationsAgree' /\ PendingKept' /\ SetsFit' /\ NoException'
      /\ call'[w] = NoCall /\ \A d \in Components : d # w => call'[d] = call[d]
  BY <1>1, <1>5, ReturnStep
<1>7. CallsAgree'
  BY <1>1, <1>4, <1>6, ThreadCalls
<1> QED
  BY <1>4, <1>6, <1>7, Assemble

\* post_loop(): the thread is registered on the whole path of its output point.
LEMMA PostLoopStep == ASSUME MInv, NEW w \in Workers, PostLoop(w) PROVE MInv'
<1>1. /\ wpc[w] = "loop" /\ wpc' = [wpc EXCEPT ![w] = "top"] /\ UNCHANGED <<mpc, hook, life, defaulted>>
      /\ IF Out[w] = None THEN UNCHANGED points ELSE emit(w, Out[w])
  BY DEF PostLoop, WGoto
<1>2. PICK l : l = life[w]
  OBVIOUS
<1>3. /\ Moves(w, "top", l) /\ LifeFits(w, "top", l) /\ l \in {"loaded", "prepared", "cancelled"}
  BY <1>1, <1>2, LifeStays DEF Moves, LifeFits, MInv, TypeOK
<1>4. /\ wpc'[w] = "top" /\ \A v \in Workers : v # w => wpc'[v] = wpc[v]
      /\ LivesAgree' /\ (PointsTyped' => TypeOK')
      /\ \A d \in Components : d # w => (Gone(d) <=> Gone(d)')
  BY <1>3, ThreadMoves
<1>5. GoneStay /\ SamePlaces /\ LivesMove
  <2>1. ~Gone(w)
    BY <1>1 DEF Gone
  <2> QED
    BY <1>1, <1>4, <2>1 DEF GoneStay, SamePlaces, LivesMove
<1>6. CASE Out[w] = None
  <2>1. UNCHANGED points
    BY <1>1, <1>6
  <2>2. TypeOK'
    BY <1>4, <2>1 DEF points, PointsTyped, MInv, TypeOK
  <2> QED
    BY <1>4, <1>5, <2>1, <2>2, QuietStep
<1>7. CASE Out[w] # None
  <2>1. emit(w, Out[w])
    BY <1>1, <1>7
  <2>2. w \in Components /\ Out[w] \in SyncPoints /\ OutPath(w) = Up[Out[w]] /\ OutPath(w) \subseteq SyncPoints
    BY <1>7, AspectPoints
  <2>3. \A y \in Up[Out[w]] : w \in watchers[y] /\ emitters[y][w] > 0
    BY <1>2, <1>3, <2>2 DEF MInv, RegistrationsAgree
  <2> QED
    BY <1>4, <1>5, <2>1, <2>2, <2>3, EmitStep
<1> QED
  BY <1>6, <1>7

\* A thread that does not wait leaves out its loop() and sleeps, or ends.
LEMMA TestCancelStep ==
  ASSUME MInv, NEW w \in Workers, SkipLoop(w) \/ TestCancel(w)
  PROVE  MInv'
<1>1. PICK p \in {"asleep", "dead"} :
        /\ wpc' = [wpc EXCEPT ![w] = p]
        /\ life[w] \in {"prepared", "cancelled"} /\ (p = "dead" => life[w] = "cancelled")
  BY DEF SkipLoop, TestCancel, WGoto
<1>2. wpc[w] \in {"top", "asleep"} /\ UNCHANGED <<points, mpc, hook, life, defaulted>>
  BY DEF SkipLoop, TestCancel
<1>3. Moves(w, p, life[w]) /\ LifeFits(w, p, life[w])
  BY <1>1, <1>2, LifeStays DEF Moves, LifeFits
<1>4. /\ wpc'[w] = p /\ \A v \in Workers : v # w => wpc'[v] = wpc[v]
      /\ LivesAgree' /\ (PointsTyped' => TypeOK')
      /\ \A d \in Components : d # w => (Gone(d) <=> Gone(d)')
  BY <1>3, ThreadMoves
<1>5. GoneStay /\ SamePlaces /\ LivesMove
  <2>1. ~Gone(w)
    BY <1>2 DEF Gone
  <2> QED
    BY <1>1, <1>2, <1>4, <2>1 DEF GoneStay, SamePlaces, LivesMove
<1>6. TypeOK'
  BY <1>2, <1>4 DEF points, PointsTyped, MInv, TypeOK
<1> QED
  BY <1>2, <1>4, <1>5, <1>6, QuietStep

\* A thread that is not dead is prepared for its removal, or not any more.
LEMMA PrepareStep ==
  ASSUME MInv, NEW w \in Workers, PrepareFinalize(w) \/ CancelFinalize(w) \/ Stop(w)
  PROVE  MInv'
<1>1. PICK l \in {"loaded", "prepared", "cancelled"} : life' = [life EXCEPT ![w] = l]
  BY DEF PrepareFinalize, CancelFinalize, Stop, Becomes
<1>2. life[w] \in {"loaded", "prepared"} /\ UNCHANGED <<points, mpc, hook, wpc, defaulted>>
  BY DEF PrepareFinalize, CancelFinalize, Stop
<1>3. PICK p : p = wpc[w]
  OBVIOUS
<1>4. p \in {"top", "prewait", "loop", "asleep"} /\ wpc' = [wpc EXCEPT ![w] = p]
  BY <1>2, <1>3, PlaceStays DEF LifeFits, MInv, TypeOK
<1>5. Moves(w, p, l) /\ LifeFits(w, p, l)
  BY <1>1, <1>2, <1>4 DEF Moves, LifeFits
<1>6. /\ life'[w] = l /\ \A v \in Workers : v # w => life'[v] = life[v]
      /\ LivesAgree' /\ (PointsTyped' => TypeOK')
      /\ \A d \in Components : d # w => (Gone(d) <=> Gone(d)')
  BY <1>5, ThreadMoves
<1>7. GoneStay /\ SamePlaces /\ LivesMove
  <2>1. ~Gone(w)
    BY <1>3, <1>4 DEF Gone
  <2> QED
    BY <1>2, <1>6, <2>1 DEF GoneStay, SamePlaces, LivesMove
<1>8. TypeOK'
  BY <1>2, <1>6 DEF points, PointsTyped, MInv, TypeOK
<1> QED
  BY <1>2, <1>6, <1>7, <1>8, QuietStep

\* The cleanup handlers leave the thread in the waiting set.
LEMMA CancelledInWaitStep == ASSUME MInv, NEW w \in Workers, CancelledInWait(w) PROVE MInv'
<1>1. /\ life[w] = "cancelled" /\ wpc[w] = "prewait" /\ wpc' = [wpc EXCEPT ![w] = "dead"]
      /\ call' = [call EXCEPT ![w] = NoCall]
      /\ UNCHANGED <<watchers, emitters, pending_emitters, watchers_wait_for_one, watchers_wait_for_all,
                     timer_running, timer_owner, max_waittime, newer, threw>>
      /\ UNCHANGED <<mpc, hook, life, defaulted>>
  BY DEF CancelledInWait, WaitCancelled, WGoto
<1>2. Moves(w, "dead", "cancelled") /\ LifeFits(w, "dead", "cancelled")
  BY <1>1, LifeStays DEF Moves, LifeFits
<1>3. /\ wpc'[w] = "dead" /\ life'[w] = "cancelled" /\ \A v \in Workers : v # w => wpc'[v] = wpc[v]
      /\ LivesAgree' /\ (PointsTyped' => TypeOK')
      /\ \A d \in Components : d # w => (Gone(d) <=> Gone(d)')
  BY <1>2, ThreadMoves
<1>4. PointsTyped /\ SetsFit /\ w \in Components /\ w # Main
  BY SetsFitIs, AspectPoints DEF MInv, TypeOK
<1>5. call'[w] = NoCall /\ \A d \in Components : d # w => call'[d] = call[d]
  BY <1>1, <1>4 DEF PointsTyped
<1>6. PointsTyped'
  BY <1>1, <1>4 DEF PointsTyped
<1>7. CallsAgree'
  BY <1>1, <1>3, <1>5, ThreadCalls
<1>8. SetsFit'
  <2> SUFFICES ASSUME NEW s \in SyncPoints, NEW d \in Components
               PROVE  Fits(call'[d], d, s, watchers_wait_for_one'[s], watchers_wait_for_all'[s], Gone(d)')
    BY DEF SetsFit
  <2>1. Fits(call[d], d, s, watchers_wait_for_one[s], watchers_wait_for_all[s], Gone(d))
    BY <1>4 DEF SetsFit
  <2>2. CASE d = w
    <3>1. Gone(w)'
      BY <1>3, <1>4 DEF Gone
    <3> QED
      BY <1>1, <1>5, <2>1, <2>2, <3>1, CallFields DEF Fits
  <2>3. CASE d # w
    BY <1>1, <1>3, <1>5, <2>1, <2>3 DEF Fits
  <2> QED
    BY <2>2, <2>3
<1>9. PendingKept'
  <2>1. \A d \in Components : call'[d].mode # "one" => call'[d] = call[d]
    BY <1>5, CallFields
  <2> QED
    BY <1>1, <2>1 DEF MInv, PendingKept
<1>10. RegistrationsAgree' /\ NoException'
  BY <1>1, KeepRegistrations DEF MInv, NoException, LivesMove
<1> QED
  BY <1>3, <1>6, <1>7, <1>8, <1>9, <1>10, Assemble

-----------------------------------------------------------------------------
(* Threads come and go                                                     *)

\* A thread changes its registrations; those of the others stay.
LEMMA OneRegistration ==
  ASSUME RegistrationsAgree, NEW w \in Workers,
         \A v \in Workers : v # w => life'[v] = life[v],
         \A x \in SyncPoints, d \in Components : d # w =>
           emitters'[x][d] = emitters[x][d] /\ (d \in watchers'[x] <=> d \in watchers[x]),
         \A x \in SyncPoints :
           /\ w \in watchers'[x] => x \in Up[In[w]] \cup OutPath(w)
           /\ x \in Up[In[w]] /\ life'[w] \in {"loaded", "prepared", "cancelled"} => w \in watchers'[x]
           /\ x \in OutPath(w) /\ life'[w] # "none" => w \in watchers'[x]
           /\ emitters'[x][w] = IF x \in OutPath(w) /\ life'[w] \notin {"none", "erased"} THEN 1 ELSE 0
  PROVE  RegistrationsAgree'
<1>1. ASSUME NEW v \in Workers, NEW x \in SyncPoints
      PROVE  /\ v \in watchers'[x] => x \in Up[In[v]] \cup OutPath(v)
             /\ x \in Up[In[v]] /\ life'[v] \in {"loaded", "prepared", "cancelled"} => v \in watchers'[x]
             /\ x \in OutPath(v) /\ life'[v] # "none" => v \in watchers'[x]
             /\ emitters'[x][v] = IF x \in OutPath(v) /\ life'[v] \notin {"none", "erased"} THEN 1 ELSE 0
  <2>1. CASE v = w
    BY <2>1
  <2>2. CASE v # w
    <3>1. /\ life'[v] = life[v] /\ emitters'[x][v] = emitters[x][v]
          /\ v \in watchers'[x] <=> v \in watchers[x]
      BY <2>2 DEF Workers
    <3> QED
      BY <3>1 DEF RegistrationsAgree
  <2> QED
    BY <2>1, <2>2
<1>2. ASSUME NEW h \in 1..Hooks
      PROVE  /\ Main \in watchers'[End[h]]
             /\ \A x \in Up[Start[h]] : Main \in watchers'[x] /\ emitters'[x][Main] > 0
  <2>1. Main \in Components /\ Main # w /\ End[h] \in SyncPoints /\ Up[Start[h]] \subseteq SyncPoints
    BY AspectAssumption, UpIs DEF Workers
  <2> QED
    BY <2>1 DEF RegistrationsAgree
<1> QED
  BY <1>1, <1>2 DEF RegistrationsAgree

\* init_SyncPointAspect(): a new emitter is pending where it is registered.
LEMMA AddStep == ASSUME MInv, NEW w \in Workers, Add(w) PROVE MInv'
<1>1. /\ life[w] = "none" /\ Join(w, {In[w], Out[w]} \ {None}, Out[w])
      /\ wpc' = [wpc EXCEPT ![w] = "top"] /\ life' = [life EXCEPT ![w] = "loaded"]
      /\ UNCHANGED <<mpc, hook, defaulted>>
  BY DEF Add, WGoto, Becomes
<1>2. Moves(w, "top", "loaded") /\ LifeFits(w, "top", "loaded")
  BY <1>1 DEF Moves, LifeFits
<1>3. /\ wpc'[w] = "top" /\ life'[w] = "loaded"
      /\ \A v \in Workers : v # w => wpc'[v] = wpc[v] /\ life'[v] = life[v]
      /\ LivesAgree' /\ (PointsTyped' => TypeOK')
      /\ \A d \in Components : d # w => (Gone(d) <=> Gone(d)')
  BY <1>2, ThreadMoves
<1>4. PointsTyped /\ SetsFit /\ RegistrationsAgree /\ PendingKept /\ w \in Components
  BY SetsFitIs DEF MInv, TypeOK, Workers
<1>5. /\ PointsTyped'
      /\ UNCHANGED <<watchers_wait_for_one, watchers_wait_for_all, call, threw>>
      /\ \A x \in SyncPoints :
           /\ watchers'[x] = IF x \in Up[In[w]] \cup OutPath(w) THEN watchers[x] \cup {w} ELSE watchers[x]
           /\ \A d \in Components :
                /\ emitters'[x][d] = IF d = w /\ x \in OutPath(w) THEN emitters[x][d] + 1 ELSE emitters[x][d]
                /\ pending_emitters'[x][d] =
                     IF d = w /\ x \in OutPath(w) THEN pending_emitters[x][d] + 1 ELSE pending_emitters[x][d]
  BY <1>1, <1>4, JoinDoes
<1>6. ASSUME NEW x \in SyncPoints, NEW d
      PROVE  d \in watchers'[x] <=> d \in watchers[x] \/ (d = w /\ x \in Up[In[w]] \cup OutPath(w))
  <2>1. CASE x \in Up[In[w]] \cup OutPath(w)
    <3>1. watchers'[x] = watchers[x] \cup {w}
      BY <1>5, <2>1
    <3> QED
      BY <2>1, <3>1
  <2>2. CASE x \notin Up[In[w]] \cup OutPath(w)
    <3>1. watchers'[x] = watchers[x]
      BY <1>5, <2>2
    <3> QED
      BY <2>2, <3>1
  <2> QED
    BY <2>1, <2>2
<1>7. ASSUME NEW x \in SyncPoints, NEW d \in Components
      PROVE  /\ emitters'[x][d] = IF d = w /\ x \in OutPath(w) THEN emitters[x][d] + 1 ELSE emitters[x][d]
             /\ pending_emitters'[x][d] =
                  IF d = w /\ x \in OutPath(w) THEN pending_emitters[x][d] + 1 ELSE pending_emitters[x][d]
  BY <1>5
<1>8. RegistrationsAgree'
  <2>1. \A x \in SyncPoints, d \in Components : d # w =>
          emitters'[x][d] = emitters[x][d] /\ (d \in watchers'[x] <=> d \in watchers[x])
    BY <1>6, <1>7
  <2>2. ASSUME NEW x \in SyncPoints
        PROVE  /\ w \in watchers'[x] => x \in Up[In[w]] \cup OutPath(w)
               /\ x \in Up[In[w]] \cup OutPath(w) => w \in watchers'[x]
               /\ emitters'[x][w] = IF x \in OutPath(w) THEN 1 ELSE 0
    <3>1. /\ w \in watchers[x] => x \in Up[In[w]] \cup OutPath(w)
          /\ emitters[x][w] = 0
      BY <1>1, <1>4 DEF RegistrationsAgree
    <3> QED
      BY <1>4, <1>6, <1>7, <3>1
  <2> QED
    BY <1>3, <1>4, <2>1, <2>2, OneRegistration
<1>9. GoneStay /\ ~Gone(w)
  BY <1>1, <1>3 DEF Gone, GoneStay
<1>10. SetsFit'
  BY <1>4, <1>5, <1>9, FitUnchanged DEF GoneStay
<1>11. CallsAgree'
  <2>1. wpc[w] = "none"
    BY <1>1 DEF MInv, LivesAgree
  <2>2. SamePlaces
    BY <1>1, <1>3, <2>1 DEF SamePlaces
  <2> QED
    BY <1>5, <2>2, KeepCalls DEF MInv, SameCall
<1>12. PendingKept'
  <2>1. \A x \in SyncPoints, d \in Components : pending_emitters[x][d] \in Nat /\ pending_emitters'[x][d] \in Nat
    BY <1>4, <1>5 DEF PointsTyped
  <2>2. \A x \in SyncPoints, d \in Components : pending_emitters'[x][d] >= pending_emitters[x][d]
    BY <1>7, <2>1
  <2>3. \A x \in SyncPoints : SomePending(x) => SomePending(x)'
    BY <2>1, <2>2 DEF SomePending
  <2>4. ASSUME NEW x \in SyncPoints, NEW d \in Components, emitters'[x][d] > 0 PROVE SomePending(x)'
    <3>1. CASE d = w /\ x \in OutPath(w)
      <4>1. pending_emitters'[x][w] > 0
        BY <1>4, <1>7, <2>1, <3>1
      <4> QED
        BY <1>4, <4>1 DEF SomePending
    <3>2. CASE ~(d = w /\ x \in OutPath(w))
      <4>1. emitters[x][d] > 0
        BY <1>7, <2>4, <3>2
      <4>2. SomePending(x)
        BY <1>4, <4>1 DEF PendingKept, SomePending
      <4> QED
        BY <2>3, <4>2
    <3> QED
      BY <3>1, <3>2
  <2>5. \A d \in Components : call'[d].mode # "one" =>
          call[d].mode # "one" /\ call'[d].at = call[d].at /\ call[d].at \in SyncPoints
    BY <1>4, <1>5, CallsAt
  <2> QED
    BY <1>4, <2>3, <2>4, <2>5, PendingStays
<1>13. NoException'
  BY <1>5 DEF MInv, NoException
<1> QED
  BY <1>3, <1>5, <1>8, <1>10, <1>11, <1>12, <1>13, Assemble

\* A thread that waits nowhere leaves the sets.
LEMMA FitLeave ==
  ASSUME SetsFit, NEW w \in Components, call[w] = NoCall, UNCHANGED call,
         \A d \in Components : d # w => (Gone(d) <=> Gone(d)'),
         \A s \in SyncPoints, d \in Components :
           /\ d \in watchers_wait_for_one'[s] <=> d \in watchers_wait_for_one[s] /\ d # w
           /\ d \in watchers_wait_for_all'[s] <=> d \in watchers_wait_for_all[s] /\ d # w
  PROVE  SetsFit'
<1> SUFFICES ASSUME NEW s \in SyncPoints, NEW d \in Components
             PROVE  Fits(call'[d], d, s, watchers_wait_for_one'[s], watchers_wait_for_all'[s], Gone(d)')
  BY DEF SetsFit
<1>1. Fits(call[d], d, s, watchers_wait_for_one[s], watchers_wait_for_all[s], Gone(d))
  BY DEF SetsFit
<1>2. PICK k, O, A, P, B :
        /\ k = call[d] /\ O = watchers_wait_for_one[s] /\ A = watchers_wait_for_all[s]
        /\ P = watchers_wait_for_one'[s] /\ B = watchers_wait_for_all'[s]
  OBVIOUS
<1>3. (d \in P <=> d \in O /\ d # w) /\ (d \in B <=> d \in A /\ d # w) /\ call'[d] = k
  BY <1>2
<1>4. CASE d = w
  <2>1. k.st = "none" /\ d \notin P \cup B
    BY <1>2, <1>3, <1>4, CallFields
  <2> QED
    BY <1>2, <1>3, <2>1 DEF Fits
<1>5. CASE d # w
  BY <1>1, <1>2, <1>3, <1>5 DEF Fits
<1> QED
  BY <1>4, <1>5

\* release_syncpoint() for a point where the thread does not emit.
LEMMA ReleaseStep ==
  ASSUME MInv, NEW w \in Workers, NEW s \in SyncPoints, NEW p \in {"none", "dead"},
         NEW l \in {"none", "released"}, Moves(w, p, l), LifeFits(w, p, l), wpc[w] = "dead",
         Release(w, s), NEW D, D = Releasable(w, s),
         \A x \in D : w \in watchers[x] /\ emitters[x][w] = 0,
         \A x \in SyncPoints : w \in watchers_wait_for_one[x] \cup watchers_wait_for_all[x] => x \in D,
         l = "none" => \A x \in SyncPoints : emitters[x][w] = 0,
         l = "released" => life[w] = "cancelled" /\ \A x \in D : x \notin OutPath(w)
  PROVE  MInv'
<1>1. PointsTyped /\ SetsFit /\ RegistrationsAgree /\ w \in Components
  BY SetsFitIs DEF MInv, TypeOK, Workers
<1>2. /\ PointsTyped' /\ UNCHANGED <<emitters, pending_emitters, call, threw>>
      /\ \A x \in SyncPoints :
           /\ watchers'[x] = IF x \in D THEN watchers[x] \ {w} ELSE watchers[x]
           /\ watchers_wait_for_one'[x] =
                IF x \in D THEN watchers_wait_for_one[x] \ {w} ELSE watchers_wait_for_one[x]
           /\ watchers_wait_for_all'[x] =
                IF x \in D THEN watchers_wait_for_all[x] \ {w} ELSE watchers_wait_for_all[x]
  <2>1. s \in SyncPoints /\ Release(w, s) /\ D = Releasable(w, s) /\ \A x \in D : w \in watchers[x] /\ emitters[x][w] = 0
    OBVIOUS
  <2> QED
    BY ONLY <1>1, <2>1, ReleaseDoes
<1>3. ASSUME NEW x \in SyncPoints, NEW d
      PROVE  /\ d \in watchers'[x] <=> d \in watchers[x] /\ ~(d = w /\ x \in D)
             /\ d \in watchers_wait_for_one'[x] <=> d \in watchers_wait_for_one[x] /\ d # w
             /\ d \in watchers_wait_for_all'[x] <=> d \in watchers_wait_for_all[x] /\ d # w
  <2>1. CASE x \in D
    <3>1. /\ watchers'[x] = watchers[x] \ {w}
          /\ watchers_wait_for_one'[x] = watchers_wait_for_one[x] \ {w}
          /\ watchers_wait_for_all'[x] = watchers_wait_for_all[x] \ {w}
      BY <1>2, <2>1
    <3> QED
      BY <2>1, <3>1
  <2>2. CASE x \notin D
    <3>1. /\ watchers'[x] = watchers[x]
          /\ watchers_wait_for_one'[x] = watchers_wait_for_one[x]
          /\ watchers_wait_for_all'[x] = watchers_wait_for_all[x]
      BY <1>2, <2>2
    <3> QED
      BY <2>2, <3>1
  <2> QED
    BY <2>1, <2>2
<1>4. /\ wpc'[w] = p /\ life'[w] = l
      /\ \A v \in Workers : v # w => wpc'[v] = wpc[v] /\ life'[v] = life[v]
      /\ LivesAgree' /\ (PointsTyped' => TypeOK')
      /\ \A d \in Components : d # w => (Gone(d) <=> Gone(d)')
  BY ThreadMoves
<1>5. call[w] = NoCall
  BY DEF MInv, CallsAgree
<1>6. SetsFit'
  BY <1>1, <1>2, <1>3, <1>4, <1>5, FitLeave
<1>7. CallsAgree'
  <2>1. SamePlaces
    BY <1>4 DEF SamePlaces, Moves
  <2> QED
    BY <1>2, <2>1, KeepCalls DEF MInv, SameCall
<1>8. RegistrationsAgree'
  <2>1. \A x \in SyncPoints, d \in Components : d # w =>
          emitters'[x][d] = emitters[x][d] /\ (d \in watchers'[x] <=> d \in watchers[x])
    BY <1>2, <1>3
  <2>2. ASSUME NEW x \in SyncPoints
        PROVE  /\ w \in watchers'[x] => x \in Up[In[w]] \cup OutPath(w)
               /\ x \in OutPath(w) /\ l # "none" => w \in watchers'[x]
               /\ emitters'[x][w] = IF x \in OutPath(w) /\ l \notin {"none", "erased"} THEN 1 ELSE 0
    <3>1. /\ w \in watchers[x] => x \in Up[In[w]] \cup OutPath(w)
          /\ x \in OutPath(w) /\ life[w] # "none" => w \in watchers[x]
          /\ emitters[x][w] = IF x \in OutPath(w) /\ life[w] \notin {"none", "erased"} THEN 1 ELSE 0
      BY <1>1 DEF RegistrationsAgree
    <3>2. w \in watchers'[x] <=> w \in watchers[x] /\ x \notin D
      BY <1>3
    <3> QED
      BY <1>2, <3>1, <3>2
  <2> QED
    BY <1>1, <1>4, <2>1, <2>2, OneRegistration
<1>9. PendingKept' /\ NoException'
  BY <1>2 DEF MInv, PendingKept, NoException
<1> QED
  BY <1>2, <1>4, <1>6, <1>7, <1>8, <1>9, Assemble

\* finalize_SyncPointAspect()
LEMMA FinalizeStep == ASSUME MInv, NEW w \in Workers, Finalize(w) PROVE MInv'
<1>1. TypeOK /\ LivesAgree /\ RegistrationsAgree /\ PointsTyped /\ SetsFit
  BY SetsFitIs DEF MInv, TypeOK
<1>2. /\ w \in Components /\ In[w] \in SyncPoints /\ Up[In[w]] \subseteq SyncPoints
      /\ OutPath(w) \subseteq SyncPoints
  BY AspectPoints
<1>3. wpc[w] = "dead" /\ UNCHANGED <<mpc, hook, defaulted>>
  BY DEF Finalize
<1>4. call[w] = NoCall
  BY <1>3 DEF MInv, CallsAgree
<1>5. ASSUME NEW l \in {"none", "released", "emitted", "erased"}, Becomes(w, l)
      PROVE  Moves(w, IF l = "none" THEN "none" ELSE "dead", l)
  <2>1. life' = [life EXCEPT ![w] = l] /\ life'[w] = l
    BY <1>1, <1>5 DEF Becomes, TypeOK
  <2> QED
    BY <1>3, <2>1 DEF Finalize, WGoto, Moves
<1>6. CASE life[w] = "cancelled" /\ Release(w, In[w]) /\ Becomes(w, IF Out[w] = None THEN "none" ELSE "released")
  <2>1. PICK l, p : l = (IF Out[w] = None THEN "none" ELSE "released") /\ p = IF l = "none" THEN "none" ELSE "dead"
    OBVIOUS
  <2>2. l \in {"none", "released"} /\ p \in {"none", "dead"} /\ Moves(w, p, l) /\ LifeFits(w, p, l)
    BY <1>5, <1>6, <2>1 DEF LifeFits
  <2>3. PICK D : D = Releasable(w, In[w])
    OBVIOUS
  <2>4. In[w] \in D /\ \A x \in D : x \in Up[In[w]] /\ x \notin OutPath(w)
    BY <1>1, <1>6, <2>3, InReleasable
  <2>5. \A x \in D : w \in watchers[x] /\ emitters[x][w] = 0
    BY <1>1, <1>2, <1>6, <2>4 DEF RegistrationsAgree
  <2>6. \A x \in SyncPoints : w \in watchers_wait_for_one[x] \cup watchers_wait_for_all[x] => x \in D
    <3>1. w # Main
      BY AspectPoints
    <3> QED
      BY <1>1, <1>2, <2>4, <3>1 DEF SetsFit, Fits
  <2>7. l = "none" => \A x \in SyncPoints : emitters[x][w] = 0
    BY <1>1, <2>1 DEF RegistrationsAgree, OutPath
  <2> QED
    BY <1>2, <1>3, <1>6, <2>2, <2>3, <2>4, <2>5, <2>6, <2>7, ReleaseStep
<1>7. CASE life[w] = "released" /\ UnregisterEmit(w, Out[w]) /\ Becomes(w, "emitted")
  <2>1. Out[w] # None
    BY <1>1, <1>7 DEF LivesAgree
  <2>2. Moves(w, "dead", "emitted") /\ LifeFits(w, "dead", "emitted")
    BY <1>5, <1>7, <2>1 DEF LifeFits
  <2>3. /\ wpc'[w] = "dead" /\ life'[w] = "emitted"
        /\ \A v \in Workers : v # w => wpc'[v] = wpc[v] /\ life'[v] = life[v]
        /\ LivesAgree' /\ (PointsTyped' => TypeOK')
        /\ \A d \in Components : d # w => (Gone(d) <=> Gone(d)')
    BY <2>2, ThreadMoves
  <2>4. LivesMove /\ SamePlaces /\ GoneStay
    <3>1. ~Gone(w)
      BY <1>7 DEF Gone
    <3> QED
      BY <1>3, <1>7, <2>3, <3>1 DEF LivesMove, SamePlaces, GoneStay
  <2>5. CASE UNCHANGED points
    <3>1. TypeOK'
      BY <1>1, <2>3, <2>5 DEF points, PointsTyped
    <3> QED
      BY <2>3, <2>4, <2>5, <3>1, QuietStep
  <2>6. CASE emit(w, Out[w])
    <3>1. Out[w] \in SyncPoints /\ OutPath(w) = Up[Out[w]]
      BY <2>1, AspectPoints
    <3>2. \A y \in Up[Out[w]] : w \in watchers[y] /\ emitters[y][w] > 0
      BY <1>1, <1>2, <1>7, <3>1 DEF RegistrationsAgree
    <3> QED
      BY <1>2, <2>3, <2>4, <2>6, <3>1, <3>2, EmitStep
  <2> QED
    BY <1>7, <2>5, <2>6 DEF UnregisterEmit
<1>8. CASE life[w] = "emitted" /\ UnregisterErase(w, Out[w]) /\ Becomes(w, "erased")
  <2>1. Out[w] # None
    BY <1>1, <1>8 DEF LivesAgree
  <2>2. Out[w] \in SyncPoints /\ OutPath(w) = Up[Out[w]]
    BY <2>1, AspectPoints
  <2>3. Moves(w, "dead", "erased") /\ LifeFits(w, "dead", "erased")
    BY <1>5, <1>8, <2>1 DEF LifeFits
  <2>4. /\ wpc'[w] = "dead" /\ life'[w] = "erased"
        /\ \A v \in Workers : v # w => wpc'[v] = wpc[v] /\ life'[v] = life[v]
        /\ LivesAgree' /\ (PointsTyped' => TypeOK')
        /\ \A d \in Components : d # w => (Gone(d) <=> Gone(d)')
    BY <2>3, ThreadMoves
  <2>5. \A x \in SyncPoints :
          /\ emitters[x][w] = IF x \in OutPath(w) THEN 1 ELSE 0
          /\ w \in watchers[x] => x \in Up[In[w]] \cup OutPath(w)
          /\ x \in OutPath(w) => w \in watchers[x]
    BY <1>1, <1>8 DEF RegistrationsAgree
  <2>6. /\ PointsTyped'
        /\ UNCHANGED <<watchers, pending_emitters, watchers_wait_for_one, watchers_wait_for_all, call, threw>>
        /\ \A x \in SyncPoints, d \in Components :
             emitters'[x][d] = IF d = w /\ x \in Up[Out[w]] THEN emitters[x][d] - 1 ELSE emitters[x][d]
    <3>1. \A y \in Up[Out[w]] : emitters[y][w] > 0
      BY <1>2, <2>2, <2>5
    <3> QED
      BY <1>1, <1>2, <1>8, <2>2, <3>1, EraseDoes
  <2>7. RegistrationsAgree'
    <3>1. \A x \in SyncPoints : emitters'[x][w] = 0
      BY <1>2, <2>2, <2>5, <2>6
    <3>2. \A x \in SyncPoints, d \in Components : d # w => emitters'[x][d] = emitters[x][d]
      BY <2>6
    <3> QED
      BY <1>1, <2>4, <2>5, <2>6, <3>1, <3>2, OneRegistration
  <2>8. GoneStay /\ SamePlaces
    <3>1. ~Gone(w)
      BY <1>8 DEF Gone
    <3> QED
      BY <1>3, <2>4, <3>1 DEF GoneStay, SamePlaces
  <2>9. SetsFit'
    BY <1>1, <2>6, <2>8, FitUnchanged DEF GoneStay
  <2>10. CallsAgree'
    BY <2>6, <2>8, KeepCalls DEF MInv, SameCall
  <2>11. PendingKept'
    <3>1. \A x \in SyncPoints, d \in Components : emitters'[x][d] > 0 => emitters[x][d] > 0
      <4>1. \A x \in SyncPoints, d \in Components : emitters[x][d] \in Nat
        BY <1>1 DEF PointsTyped
      <4> QED
        BY <2>6, <4>1
    <3> QED
      BY <2>6, <3>1 DEF MInv, PendingKept
  <2>12. NoException'
    BY <2>6 DEF MInv, NoException
  <2> QED
    BY <2>4, <2>6, <2>7, <2>9, <2>10, <2>11, <2>12, Assemble
<1>9. CASE life[w] = "erased" /\ Release(w, Out[w]) /\ Becomes(w, "none")
  <2>1. Out[w] # None
    BY <1>1, <1>9 DEF LivesAgree
  <2>2. Out[w] \in SyncPoints /\ OutPath(w) = Up[Out[w]]
    BY <2>1, AspectPoints
  <2>3. Moves(w, "none", "none") /\ LifeFits(w, "none", "none")
    BY <1>5, <1>9 DEF LifeFits
  <2>4. PICK D : D = Releasable(w, Out[w])
    OBVIOUS
  <2>5. \A x \in SyncPoints : emitters[x][w] = 0 /\ (x \in OutPath(w) => w \in watchers[x])
    BY <1>1, <1>9 DEF RegistrationsAgree
  <2>6. \A x \in D : w \in watchers[x] /\ emitters[x][w] = 0
    BY <1>2, <2>2, <2>4, <2>5 DEF Releasable
  <2>7. \A x \in SyncPoints : w \notin watchers_wait_for_one[x] \cup watchers_wait_for_all[x]
    <3>1. ~Gone(w)
      BY <1>9 DEF Gone
    <3> QED
      BY <1>1, <1>2, <1>4, <3>1, NotWaiting
  <2> QED
    BY <1>3, <1>9, <2>2, <2>3, <2>4, <2>5, <2>6, <2>7, ReleaseStep
<1> QED
  BY <1>6, <1>7, <1>8, <1>9 DEF Finalize

-----------------------------------------------------------------------------
(* The theorems                                                            *)

\* How many hooks' start points the main thread emits at a point.
LEMMA HooksCounted ==
  ASSUME NEW s \in SyncPoints, NEW H, H = {h \in 1..Hooks : s \in Up[Start[h]]}
  PROVE  Cardinality(H) \in Nat /\ (H # {} => Cardinality(H) > 0)
<1>1. IsFiniteSet(1..Hooks) /\ H \subseteq 1..Hooks
  BY FS_Interval, AspectAssumption
<1>2. IsFiniteSet(H)
  BY <1>1, FS_Subset
<1>3. Cardinality(H) \in Nat
  BY <1>2, FS_CardinalityType
<1>4. Cardinality(H) = 0 <=> H = {}
  BY <1>2, FS_EmptySet
<1> QED
  BY <1>3, <1>4

\* The invariant holds when the main loop starts.
LEMMA MInvInit == Init => MInv
<1> SUFFICES ASSUME Init PROVE MInv
  OBVIOUS
<1>1. /\ \A s \in SyncPoints : watchers[s] = {c \in Components :
           \/ c = Main /\ \E h \in 1..Hooks : s \in Up[Start[h]] \cup Up[End[h]]
           \/ c \in Workers \ Dynamic /\ \E x \in {In[c], Out[c]} \ {None} : s \in Up[x]}
      /\ DOMAIN watchers = SyncPoints /\ watchers = [s \in SyncPoints |-> watchers[s]]
  BY DEF Init, PointsInit
<1>2. emitters = [s \in SyncPoints |-> [c \in Components |->
        IF c = Main THEN Cardinality({h \in 1..Hooks : s \in Up[Start[h]]})
        ELSE IF c \notin Dynamic /\ Out[c] # None /\ s \in Up[Out[c]] THEN 1 ELSE 0]]
  BY DEF Init, PointsInit
<1>3. /\ pending_emitters = emitters
      /\ watchers_wait_for_one = NoOne /\ watchers_wait_for_all = NoOne
      /\ timer_running = [s \in SyncPoints |-> FALSE] /\ timer_owner = [s \in SyncPoints |-> None]
      /\ max_waittime = [s \in SyncPoints |-> FALSE] /\ newer = [s \in SyncPoints |-> FALSE]
      /\ call = [c \in Components |-> NoCall] /\ threw = {}
  BY DEF Init, PointsInit
<1>4. /\ mpc = "idle" /\ hook = 1 /\ defaulted = FALSE
      /\ wpc = [w \in Workers |-> IF w \in Dynamic THEN "none" ELSE "top"]
      /\ life = [w \in Workers |-> IF w \in Dynamic THEN "none" ELSE "loaded"]
  BY DEF Init
<1>5. Main \in Components /\ Workers \subseteq Components /\ \A w \in Workers : w # Main
  BY AspectAssumption DEF Workers
<1>6. ASSUME NEW s \in SyncPoints
      PROVE  /\ emitters[s][Main] \in Nat
             /\ (\E h \in 1..Hooks : s \in Up[Start[h]]) => emitters[s][Main] > 0
  <2>1. PICK H : H = {h \in 1..Hooks : s \in Up[Start[h]]}
    OBVIOUS
  <2>2. emitters[s][Main] = Cardinality(H)
    BY <1>2, <1>5, <2>1
  <2>3. Cardinality(H) \in Nat /\ (H # {} => Cardinality(H) > 0)
    BY <2>1, HooksCounted
  <2> QED
    BY <2>1, <2>2, <2>3
<1>7. ASSUME NEW s \in SyncPoints, NEW c \in Components, c # Main
      PROVE  emitters[s][c] = IF c \notin Dynamic /\ Out[c] # None /\ s \in Up[Out[c]] THEN 1 ELSE 0
  BY <1>2, <1>7
<1>8. TypeOK
  <2>1. \A s \in SyncPoints, c \in Components : emitters[s][c] \in Nat
    BY <1>6, <1>7
  <2>2. emitters \in [SyncPoints -> [Components -> Nat]]
    <3>1. emitters = [s \in SyncPoints |-> [c \in Components |-> emitters[s][c]]]
      BY <1>2
    <3> QED
      BY <2>1, <3>1
  <2>3. watchers \in [SyncPoints -> SUBSET Components]
    BY <1>1
  <2>4. PointsTyped
    BY <1>3, <2>2, <2>3 DEF PointsTyped, NoOne
  <2>5. hook \in 1..Hooks /\ mpc \in {"idle", "emit", "wait", "waiting"} /\ defaulted \in BOOLEAN
    <3>1. Hooks \in Nat \ {0}
      BY AspectAssumption
    <3>2. 1 \in 1..Hooks
      BY <3>1
    <3> QED
      BY <1>4, <3>2
  <2>6. /\ wpc \in [Workers -> {"none", "top", "prewait", "loop", "asleep", "dead"}]
        /\ life \in [Workers -> {"none", "loaded", "prepared", "cancelled", "released", "emitted", "erased"}]
    BY <1>4
  <2> QED
    BY <2>4, <2>5, <2>6 DEF TypeOK
<1>9. LivesAgree
  BY <1>4 DEF LivesAgree
<1>10. CallsAgree
  BY <1>3, <1>4, <1>5 DEF CallsAgree
<1>11. RegistrationsAgree
  <2>1. ASSUME NEW h \in 1..Hooks
        PROVE  /\ Main \in watchers[End[h]]
               /\ \A x \in Up[Start[h]] : Main \in watchers[x] /\ emitters[x][Main] > 0
    <3>1. /\ End[h] \in SyncPoints /\ End[h] \in Up[End[h]] /\ Up[Start[h]] \subseteq SyncPoints
      BY AspectAssumption, UpIs
    <3>2. Main \in watchers[End[h]]
      BY <1>1, <1>5, <3>1
    <3>3. ASSUME NEW x \in Up[Start[h]] PROVE Main \in watchers[x] /\ emitters[x][Main] > 0
      BY <1>1, <1>5, <1>6, <3>1
    <3> QED
      BY <3>2, <3>3
  <2>2. ASSUME NEW w \in Workers, NEW x \in SyncPoints
        PROVE  /\ w \in watchers[x] => x \in Up[In[w]] \cup OutPath(w)
               /\ x \in Up[In[w]] /\ life[w] \in {"loaded", "prepared", "cancelled"} => w \in watchers[x]
               /\ x \in OutPath(w) /\ life[w] # "none" => w \in watchers[x]
               /\ emitters[x][w] = IF x \in OutPath(w) /\ life[w] \notin {"none", "erased"} THEN 1 ELSE 0
    <3>1. w \in Components /\ w # Main /\ In[w] # None
      BY AspectPoints, PredAssumption
    <3>2. (\E s \in {In[w], Out[w]} \ {None} : x \in Up[s]) <=> x \in Up[In[w]] \cup OutPath(w)
      BY <3>1 DEF OutPath
    <3>3. w \in watchers[x] <=> w \notin Dynamic /\ x \in Up[In[w]] \cup OutPath(w)
      BY <1>1, <3>1, <3>2
    <3>4. emitters[x][w] = IF w \notin Dynamic /\ x \in OutPath(w) THEN 1 ELSE 0
      BY <1>7, <3>1 DEF OutPath
    <3>5. life[w] = IF w \in Dynamic THEN "none" ELSE "loaded"
      BY <1>4
    <3> QED
      BY <3>3, <3>4, <3>5
  <2> QED
    BY <2>1, <2>2 DEF RegistrationsAgree
<1>12. PendingKept
  BY <1>3, CallFields DEF PendingKept
<1>13. WaitingSetsAgree /\ WaitersByType
  BY <1>3, CallFields DEF WaitingSetsAgree, WaitersByType, NoOne
<1>14. NoException
  BY <1>3 DEF NoException
<1> QED
  BY <1>8, <1>9, <1>10, <1>11, <1>12, <1>13, <1>14 DEF MInv

\* Every step keeps it.
LEMMA MInvNext == MInv /\ [Next]_vars => MInv'
<1> SUFFICES ASSUME MInv, [Next]_vars PROVE MInv'
  OBVIOUS
<1>1. CASE UNCHANGED vars
  <2>1. UNCHANGED <<points, mpc, hook, wpc, life, defaulted>>
    BY <1>1 DEF vars
  <2>2. SamePlaces
    BY <2>1 DEF SamePlaces
  <2>3. TypeOK'
    BY <2>1 DEF MInv, TypeOK, PointsTyped, points
  <2> QED
    BY <2>1, <2>2, <2>3, ThreadsStay, QuietStep
<1>2. CASE MainStep
  BY <1>2, MainStartStep, MainEmitStep, MainWaitStep, MainTimeoutStep, MainReturnStep DEF MainStep
<1>3. ASSUME NEW w \in Workers, Add(w) \/ ThreadStep(w) \/ RemovalStep(w) PROVE MInv'
  <2>1. CASE Add(w)
    BY <2>1, AddStep
  <2>2. CASE ThreadStep(w)
    BY <2>2, LoopTopStep, PreLoopReturnStep, PostLoopStep, TestCancelStep, CancelledInWaitStep DEF ThreadStep
  <2>3. CASE RemovalStep(w)
    BY <2>3, PrepareStep, FinalizeStep DEF RemovalStep
  <2> QED
    BY <1>3, <2>1, <2>2, <2>3
<1> QED
  BY <1>1, <1>2, <1>3 DEF Next

\* Registrations, waiting sets, pending emitters and the places of all threads agree in
\* every state of the main loop, whatever threads are added and removed.
THEOREM MainLoopInductive == Spec => []MInv
<1> QED
  BY MInvInit, MInvNext, PTL DEF Spec

\* The points, the calls that wait and the places of the threads have their types; the
\* counts of emitters and pending emitters never fall below zero.
THEOREM MainLoopTyped == Spec => []TypeOK
<1>1. MInv => TypeOK
  BY DEF MInv
<1> QED
  BY <1>1, MainLoopInductive, PTL

\* No call of emit(), wait(), unregister_emitter() or release_syncpoint() by the main
\* loop, a thread or its removal throws, for every tree of points.
THEOREM NoPointThrows == Spec => []NoException
<1>1. MInv => NoException
  BY DEF MInv
<1> QED
  BY <1>1, MainLoopInductive, PTL

\* Who blocks in wait() is in the waiting set of the point, and who is in the set blocks
\* there or was cancelled in the wait and not yet released.
THEOREM WaitersAreWaiting == Spec => []WaitingSetsAgree
<1>1. MInv => WaitingSetsAgree
  BY DEF MInv
<1> QED
  BY <1>1, MainLoopInductive, PTL

-----------------------------------------------------------------------------
(* The order of the hooks                                                  *)

\* What emit() of one point does at a point: it is the last pending emitter there and the
\* round starts again, or nobody else is counted and nobody who waits for all is woken.
LEMMA EmitAt ==
  ASSUME PointsTyped, NEW c \in Components, NEW s \in SyncPoints, emit(c, s),
         NEW x \in SyncPoints, x \in Up[s] => x = s
  PROVE  \/ /\ x = s /\ pending_emitters'[x] = emitters[x]
            /\ \A d \in Components : d # c => pending_emitters[x][d] = 0
         \/ /\ \A d \in Components : x # s \/ d # c => pending_emitters'[x][d] = pending_emitters[x][d]
            /\ \A d \in Components : call[d].mode # "one" /\ call[d].at = x => call'[d] = call[d]
<1>1. PICK done, less : done = Completed(c, s) /\ less = Counted(c, s) \ done
  OBVIOUS
<1>2. /\ pending_emitters'[x] = IF x \in done THEN emitters[x]
                                ELSE IF x \in less THEN Less(pending_emitters[x], c) ELSE pending_emitters[x]
      /\ call' = Wake(Notified(c, s), done)
  BY <1>1 DEF emit
<1>3. x \in done \cup less => x = s
  BY <1>1 DEF Completed, Counted, Reached
<1>4. \A d \in Components : d # c => Less(pending_emitters[x], c)[d] = pending_emitters[x][d]
  BY DEF Less, PointsTyped
<1>5. CASE x \in done
  <2>1. \A d \in Components : Less(pending_emitters[x], c)[d] = 0
    BY <1>1, <1>5 DEF Completed
  <2> QED
    BY <1>2, <1>3, <1>4, <1>5, <2>1
<1>6. CASE x \notin done
  <2>1. ASSUME NEW d \in Components, call[d].mode # "one", call[d].at = x PROVE call'[d] = call[d]
    BY <1>2, <1>6, <2>1 DEF Wake
  <2>2. ASSUME NEW d \in Components, x # s \/ d # c
        PROVE  pending_emitters'[x][d] = pending_emitters[x][d]
    BY <1>2, <1>3, <1>4, <1>6, <2>2
  <2> QED
    BY <2>1, <2>2
<1> QED
  BY <1>5, <1>6

\* Threads of a hook wait for all at its start point; busy ones are not being removed.
LEMMA HookThread ==
  ASSUME BlockedTiming, MInv, NEW w \in Workers, NEW h \in 1..Hooks, Out[w] = End[h]
  PROVE  /\ w \in Components /\ w # Main /\ Main \in Components
         /\ Start[h] \in SyncPoints /\ End[h] \in SyncPoints
         /\ In[w] = Start[h] /\ Type[w] = "all"
         /\ call[w] # NoCall => call[w].at = Start[h] /\ call[w].mode # "one"
         /\ Busy(w) => Alive(w)
         /\ Alive(w) => emitters[End[h]][w] = 1
<1>1. /\ w \in Components /\ w # Main /\ Main \in Components
      /\ Start[h] \in SyncPoints /\ End[h] \in SyncPoints /\ Out[w] # None
  BY AspectAssumption, PredAssumption DEF Workers
<1>2. PICK g \in 1..Hooks : In[w] = Start[g] /\ Out[w] = End[g] /\ Type[w] = "all"
  BY <1>1 DEF BlockedTiming
<1>3. g = h
  <2>1. End[h] \in Up[End[g]]
    BY <1>1, <1>2, UpIs
  <2> QED
    BY <2>1 DEF BlockedTiming
<1>4. call[w] # NoCall => call[w].at = Start[h] /\ call[w].mode # "one"
  BY <1>2, <1>3 DEF MInv, CallsAgree
<1>5. Busy(w) => Alive(w)
  <2>1. call[w].st = "woken" => call[w] # NoCall
    BY CallFields
  <2>2. call[w] # NoCall => wpc[w] = "prewait"
    BY DEF MInv, CallsAgree
  <2>3. wpc[w] \in {"prewait", "loop"} => life[w] \in {"loaded", "prepared", "cancelled"}
    BY DEF MInv, LivesAgree
  <2> QED
    BY <2>1, <2>2, <2>3 DEF Busy, Alive
<1>6. Alive(w) => emitters[End[h]][w] = 1
  <2>1. End[h] \in OutPath(w)
    BY <1>1, AspectPoints
  <2> QED
    BY <1>1, <2>1 DEF MInv, RegistrationsAgree, Alive
<1> QED
  BY <1>1, <1>2, <1>3, <1>4, <1>5, <1>6

\* The part of the invariant for one thread and its hook.
Ordered(w, h) ==
  /\ Busy(w) => InHook(h)
  /\ Busy(w) \/ (Alive(w) /\ ~InHook(h)) => pending_emitters[End[h]][w] > 0

\* Nothing happens that concerns the hooks.
LEMMA HooksKept ==
  ASSUME HooksAgree, UNCHANGED <<mpc, hook, defaulted, pending_emitters>>, call'[Main].st = call[Main].st,
         \A w \in Workers : Out[w] # None => (Busy(w)' => Busy(w)) /\ (Alive(w)' => Alive(w))
  PROVE  HooksAgree'
<1>1. \A h \in 1..Hooks : InHook(h)' <=> InHook(h)
  BY DEF InHook
<1>2. \A h \in 1..Hooks : End[h] # None
  BY AspectAssumption, PredAssumption
<1> QED
  BY <1>1, <1>2 DEF HooksAgree

\* A thread of a hook emits its end point.
LEMMA HooksEmit ==
  ASSUME BlockedTiming, MInv, HooksAgree, NEW v \in Workers, NEW g \in 1..Hooks, Out[v] = End[g],
         emit(v, End[g]), UNCHANGED <<mpc, hook, defaulted>>, ~Busy(v)', Alive(v)' => Busy(v),
         \A w \in Workers : w # v => wpc'[w] = wpc[w] /\ life'[w] = life[w]
  PROVE  HooksAgree'
<1> SUFFICES ASSUME ~defaulted, NEW w \in Workers, NEW h \in 1..Hooks, Out[w] = End[h]
             PROVE  /\ Busy(w)' => InHook(h)'
                    /\ Busy(w)' \/ (Alive(w)' /\ ~InHook(h)') => pending_emitters'[End[h]][w] > 0
  BY DEF HooksAgree
<1>1. Ordered(w, h)
  BY DEF HooksAgree, Ordered
<1>2. /\ w \in Components /\ Main \in Components /\ w # Main
      /\ Start[h] \in SyncPoints /\ End[h] \in SyncPoints
      /\ call[w] # NoCall => call[w].at = Start[h] /\ call[w].mode # "one"
      /\ Busy(w) => Alive(w)
      /\ Alive(w) => emitters[End[h]][w] = 1
  BY HookThread
<1>3. v \in Components /\ End[g] \in SyncPoints
  BY HookThread
<1>4. End[h] \in Up[End[g]] => End[h] = End[g]
  BY DEF BlockedTiming
<1>5. Start[h] \notin Up[End[g]] /\ Start[h] # End[g]
  BY <1>3, UpIs DEF BlockedTiming
<1>6. PointsTyped
  BY DEF MInv, TypeOK
\* the call of the thread is left alone
<1>7. w # v => (Busy(w)' <=> Busy(w)) /\ (Alive(w)' <=> Alive(w))
  <2>1. call'[w] = call[w]
    <3>1. CASE call[w] = NoCall
      <4>1. call' = Wake(Notified(v, End[g]), Completed(v, End[g]))
        BY DEF emit
      <4> QED
        BY <1>2, <3>1, <4>1, CallFields DEF Wake
    <3>2. CASE call[w] # NoCall
      BY <1>2, <1>3, <1>5, <1>6, <3>2, EmitAt
    <3> QED
      BY <3>1, <3>2
  <2> QED
    BY <2>1 DEF Busy, Alive
<1>8. CASE /\ End[h] = End[g] /\ pending_emitters'[End[h]] = emitters[End[h]]
           /\ \A d \in Components : d # v => pending_emitters[End[h]][d] = 0
  <2>1. Alive(w)' => pending_emitters'[End[h]][w] > 0
    BY <1>2, <1>7, <1>8
  <2>2. ~Busy(w)'
    BY <1>1, <1>2, <1>7, <1>8 DEF Ordered
  <2> QED
    BY <2>1, <2>2
<1>9. CASE /\ \A d \in Components : End[h] # End[g] \/ d # v =>
                pending_emitters'[End[h]][d] = pending_emitters[End[h]][d]
           /\ \A d \in Components : call[d].mode # "one" /\ call[d].at = End[h] => call'[d] = call[d]
  <2>1. InHook(h) => InHook(h)'
    <3>1. mpc = "waiting" => call[Main].at = End[hook] /\ call[Main].mode # "one"
      BY DEF MInv, CallsAgree
    <3> QED
      BY <1>2, <1>9, <3>1 DEF InHook
  <2>2. CASE w = v
    BY <1>1, <2>1, <2>2 DEF Ordered
  <2>3. CASE w # v
    <3>1. pending_emitters'[End[h]][w] = pending_emitters[End[h]][w]
      BY <1>2, <1>9, <2>3
    <3> QED
      BY <1>1, <1>7, <2>1, <2>3, <3>1 DEF Ordered
  <2> QED
    BY <2>2, <2>3
<1> QED
  BY <1>2, <1>3, <1>4, <1>6, <1>8, <1>9, EmitAt

\* Steps of the main thread keep the hooks apart.
LEMMA HooksMain ==
  ASSUME BlockedTiming, MInv, HooksAgree, MainStep
  PROVE  HooksAgree'
<1> SUFFICES ASSUME ~defaulted', NEW w \in Workers, NEW h \in 1..Hooks, Out[w] = End[h]
             PROVE  /\ Busy(w)' => InHook(h)'
                    /\ Busy(w)' \/ (Alive(w)' /\ ~InHook(h)') => pending_emitters'[End[h]][w] > 0
  BY DEF HooksAgree
<1>1. ~defaulted /\ UNCHANGED <<wpc, life>>
  <2>1. UNCHANGED <<wpc, life>>
    BY DEF MainStep, MainStart, MainEmit, MainWait, MainTimeout, MainReturn
  <2>2. CASE MainReturn
    <3>1. defaulted' = (defaulted \/ call[Main].st = "timedout")
      BY <2>2 DEF MainReturn
    <3> QED
      BY <2>1, <3>1
  <2>3. CASE ~MainReturn
    <3>1. defaulted' = defaulted
      BY <2>3 DEF MainStep, MainStart, MainEmit, MainWait, MainTimeout
    <3> QED
      BY <2>1, <3>1
  <2> QED
    BY <2>2, <2>3
<1>2. Ordered(w, h)
  BY <1>1 DEF HooksAgree, Ordered
<1>3. /\ w \in Components /\ Main \in Components /\ w # Main
      /\ Start[h] \in SyncPoints /\ End[h] \in SyncPoints
      /\ call[w] # NoCall => call[w].at = Start[h] /\ call[w].mode # "one"
      /\ Busy(w) => Alive(w)
      /\ Alive(w) => emitters[End[h]][w] = 1
  BY HookThread
<1>4. PointsTyped /\ hook \in 1..Hooks
  BY DEF MInv, TypeOK
<1>5. CASE MainStart
  <2>1. UNCHANGED <<pending_emitters, call>> /\ mpc = "idle" /\ mpc' = "emit"
    BY <1>5 DEF MainStart, points
  <2> QED
    BY <1>1, <1>2, <2>1 DEF Ordered, Busy, Alive, InHook
<1>6. CASE MainEmit
  <2>1. PICK g \in 1..Hooks : g = hook
    BY <1>4
  <2>2. emit(Main, Start[g]) /\ mpc = "emit" /\ mpc' = "wait" /\ UNCHANGED <<hook, wpc, life>>
    BY <1>6, <2>1 DEF MainEmit
  <2>3. ~Busy(w) /\ (Alive(w) => pending_emitters[End[h]][w] > 0)
    BY <1>2, <2>2 DEF Ordered, InHook
  <2>4. Start[g] \in SyncPoints /\ End[h] \notin Up[Start[g]] /\ End[h] # Start[g]
    BY AspectAssumption, UpIs DEF BlockedTiming
  <2>5. pending_emitters'[End[h]][w] = pending_emitters[End[h]][w]
    BY <1>3, <1>4, <2>2, <2>4, EmitAt
  <2>6. Alive(w)' <=> Alive(w)
    BY <2>2 DEF Alive
  <2>7. Busy(w)' => h = g /\ Alive(w)
    <3>1. SUFFICES ASSUME Busy(w)' PROVE h = g /\ Alive(w)
      OBVIOUS
    <3>2. call'[w].st = "woken" /\ call[w].st # "woken"
      BY <2>2, <2>3, <3>1 DEF Busy
    <3>3. call' = Wake(Notified(Main, Start[g]), Completed(Main, Start[g]))
      BY <2>2 DEF emit
    <3>4. call[w] # NoCall
      BY <1>3, <3>2, <3>3, CallFields DEF Wake
    <3>5. Alive(w)
      <4>1. wpc[w] = "prewait"
        BY <3>4 DEF MInv, CallsAgree
      <4> QED
        BY <4>1 DEF MInv, LivesAgree, Alive
    <3>6. h = g
      <4>1. SUFFICES ASSUME h # g PROVE FALSE
        OBVIOUS
      <4>2. Start[h] \notin Up[Start[g]] /\ Start[h] # Start[g]
        BY <2>4, <4>1, UpIs DEF BlockedTiming
      <4>3. call'[w] = call[w]
        BY <1>3, <1>4, <2>2, <2>4, <3>4, <4>2, EmitAt
      <4> QED
        BY <3>2, <4>3
    <3> QED
      BY <3>5, <3>6
  <2> QED
    BY <2>1, <2>2, <2>3, <2>5, <2>6, <2>7 DEF InHook
<1>7. CASE MainWait
  <2>1. PICK g \in 1..Hooks : g = hook
    BY <1>4
  <2>2. /\ wait(Main, End[g], "all", TRUE) /\ mpc = "wait"
        /\ IF call'[Main] = NoCall THEN NextHook ELSE mpc' = "waiting" /\ UNCHANGED hook
    BY <1>7, <2>1 DEF MainWait
  <2>3. End[g] \in SyncPoints /\ Main \in watchers[End[g]] /\ ~Gone(Main) /\ GoneStay
    BY <1>1, ThreadsStay, AspectAssumption DEF MInv, RegistrationsAgree, Gone
  <2>4. /\ \A d \in Components : d # Main => call'[d] = call[d]
        /\ \/ call'[Main] = NoCall /\ ~need_to_wait(End[g], "all")
           \/ call'[Main] \in Call /\ call'[Main].st = "blocked"
    BY <1>1, <1>3, <2>2, <2>3, WaitStep
  <2>5. UNCHANGED pending_emitters
    BY <2>2 DEF wait
  <2>6. (Busy(w)' <=> Busy(w)) /\ (Alive(w)' <=> Alive(w))
    BY <1>1, <1>3, <2>4 DEF Busy, Alive
  <2>7. CASE call'[Main] = NoCall
    <3>1. ~need_to_wait(End[g], "all")
      BY <2>4, <2>7, CallFields
    <3>2. Alive(w) => h # g
      BY <1>3, <3>1 DEF need_to_wait
    <3>3. Alive(w) => ~InHook(h)
      BY <2>1, <3>2 DEF InHook
    <3>4. ~InHook(h)'
      BY <2>2, <2>7, NextHookIs DEF InHook, MInv
    <3> QED
      BY <1>2, <1>3, <2>5, <2>6, <3>3, <3>4 DEF Ordered
  <2>8. CASE call'[Main] # NoCall
    <3>1. InHook(h)' <=> InHook(h)
      BY <2>2, <2>4, <2>8 DEF InHook
    <3> QED
      BY <1>2, <2>5, <2>6, <3>1 DEF Ordered
  <2> QED
    BY <2>7, <2>8
<1>8. CASE MainTimeout
  <2>1. /\ call[Main].st = "blocked" /\ call' = [call EXCEPT ![Main].st = "timedout"]
        /\ UNCHANGED <<pending_emitters, mpc, hook>>
    BY <1>8 DEF MainTimeout, timeout
  <2>2. call'[w] = call[w]
    BY <1>3, <1>4, <2>1 DEF PointsTyped
  <2>3. call'[Main].st = "timedout"
    <3>1. PICK k \in Call : k = call[Main]
      BY <1>3, <1>4, <2>1, CallFields DEF PointsTyped
    <3>2. [k EXCEPT !.st = "timedout"].st = "timedout"
      BY DEF Call
    <3> QED
      BY <1>3, <1>4, <2>1, <3>1, <3>2 DEF PointsTyped
  <2>4. InHook(h)' <=> InHook(h)
    BY <2>1, <2>3 DEF InHook
  <2> QED
    BY <1>1, <1>2, <2>1, <2>2, <2>4 DEF Ordered, Busy, Alive
<1>9. CASE MainReturn
  <2>1. /\ WaitReturn(Main) /\ NextHook /\ mpc = "waiting"
        /\ defaulted' = (defaulted \/ call[Main].st = "timedout")
    BY <1>9 DEF MainReturn
  <2>2. call[Main].st = "woken"
    BY <2>1 DEF WaitReturn
  <2>3. ~InHook(h) /\ ~InHook(h)'
    BY <2>1, <2>2, NextHookIs DEF InHook, MInv
  <2>4. ~Gone(Main) /\ GoneStay
    BY <1>1, ThreadsStay DEF Gone
  <2>5. call'[w] = call[w]
    BY <1>1, <1>3, <2>1, <2>4, ReturnStep
  <2>6. UNCHANGED pending_emitters
    BY <2>1 DEF WaitReturn
  <2> QED
    BY <1>1, <1>2, <2>3, <2>5, <2>6 DEF Ordered, Busy, Alive
<1> QED
  BY <1>5, <1>6, <1>7, <1>8, <1>9 DEF MainStep

\* Steps of the other threads and of their removal do, too.
LEMMA HooksThread ==
  ASSUME BlockedTiming, MInv, HooksAgree, NEW v \in Workers, ThreadStep(v)
  PROVE  HooksAgree'
<1>1. v \in Components /\ v # Main /\ Main \in Components /\ UNCHANGED <<mpc, hook, life, defaulted>>
  BY AspectAssumption DEF Workers, ThreadStep, LoopTop, PreLoopReturn, PostLoop, SkipLoop,
              TestCancel, CancelledInWait
<1>2. PointsTyped /\ TypeOK
  BY DEF MInv, TypeOK
<1>3. \A w \in Workers : w \in Components /\ (w # v => wpc'[w] = wpc[w])
  BY <1>2 DEF Workers, ThreadStep, LoopTop, PreLoopReturn, PostLoop, SkipLoop,
              TestCancel, CancelledInWait, WGoto, TypeOK
<1>4. ASSUME \A d \in Components : d # v => call'[d] = call[d], UNCHANGED pending_emitters,
             Out[v] # None => (Busy(v)' => Busy(v))
      PROVE  HooksAgree'
  <2>1. \A w \in Workers : Out[w] # None => (Busy(w)' => Busy(w)) /\ (Alive(w)' => Alive(w))
    BY <1>1, <1>3, <1>4 DEF Busy, Alive
  <2> QED
    BY <1>1, <1>4, <2>1, HooksKept
<1>5. GoneStay \/ ~(LoopTop(v) \/ PreLoopReturn(v))
  <2>1. SUFFICES ASSUME LoopTop(v) \/ PreLoopReturn(v) PROVE GoneStay
    OBVIOUS
  <2>2. ~Gone(v)
    BY <2>1 DEF LoopTop, PreLoopReturn, Gone
  <2> QED
    BY <1>1, <1>3, <2>2 DEF GoneStay, Gone, Workers
<1>6. CASE LoopTop(v)
  <2>1. /\ wait(v, In[v], Type[v], FALSE) /\ wpc[v] = "top"
        /\ wpc' = [wpc EXCEPT ![v] = IF call'[v] = NoCall THEN "loop" ELSE "prewait"]
    BY <1>6 DEF LoopTop, WGoto
  <2>2. /\ In[v] \in SyncPoints /\ Type[v] \in {"one", "all"} /\ v \in watchers[In[v]] /\ ~Gone(v)
    <3>1. life[v] \in {"loaded", "prepared", "cancelled"}
      BY <2>1 DEF MInv, LivesAgree
    <3> QED
      BY <2>1, <3>1, AspectPoints, AspectAssumption, UpIs DEF MInv, RegistrationsAgree, Gone
  <2>3. /\ \A d \in Components : d # v => call'[d] = call[d]
        /\ \/ call'[v] = NoCall /\ ~need_to_wait(In[v], Type[v])
           \/ call'[v] \in Call /\ call'[v].st = "blocked"
    BY <1>1, <1>5, <1>6, <2>1, <2>2, WaitStep
  <2>4. UNCHANGED pending_emitters
    BY <2>1 DEF wait
  <2>5. ASSUME Out[v] # None PROVE ~Busy(v)'
    <3>1. PICK h \in 1..Hooks : In[v] = Start[h]
      BY <2>5 DEF BlockedTiming
    <3>2. Start[h] \in Up[Start[h]]
      BY AspectAssumption, UpIs
    <3>3. emitters[In[v]][Main] > 0
      BY <3>1, <3>2 DEF MInv, RegistrationsAgree
    <3>4. need_to_wait(In[v], Type[v])
      BY <1>1, <3>3 DEF need_to_wait
    <3>5. call'[v] # NoCall /\ call'[v].st = "blocked"
      BY <2>3, <3>4, CallFields
    <3>6. wpc'[v] = "prewait"
      BY <1>2, <2>1, <3>5 DEF TypeOK
    <3> QED
      BY <3>5, <3>6 DEF Busy
  <2> QED
    BY <1>4, <2>3, <2>4, <2>5
<1>7. CASE PreLoopReturn(v)
  <2>1. WaitReturn(v) /\ wpc[v] = "prewait"
    BY <1>7 DEF PreLoopReturn
  <2>2. ~Gone(v)
    BY <2>1 DEF Gone
  <2>3. \A d \in Components : d # v => call'[d] = call[d]
    BY <1>1, <1>5, <1>7, <2>1, <2>2, ReturnStep
  <2>4. UNCHANGED pending_emitters
    BY <2>1 DEF WaitReturn
  <2>5. Busy(v)
    <3>1. call[v] # NoCall /\ call[v].st # "timedout"
      BY <2>1 DEF MInv, CallsAgree
    <3> QED
      BY <2>1, <3>1 DEF WaitReturn, Busy
  <2> QED
    BY <1>4, <2>3, <2>4, <2>5
<1>8. CASE PostLoop(v)
  <2>1. /\ wpc[v] = "loop" /\ wpc' = [wpc EXCEPT ![v] = "top"]
        /\ IF Out[v] = None THEN UNCHANGED points ELSE emit(v, Out[v])
    BY <1>8 DEF PostLoop, WGoto
  <2>2. CASE Out[v] = None
    <3>1. UNCHANGED <<call, pending_emitters>>
      BY <2>1, <2>2 DEF points
    <3> QED
      BY <1>4, <2>2, <3>1
  <2>3. CASE Out[v] # None
    <3>1. PICK g \in 1..Hooks : Out[v] = End[g]
      BY <2>3 DEF BlockedTiming
    <3>2. emit(v, End[g])
      BY <2>1, <2>3, <3>1
    <3>3. call[v] = NoCall
      BY <2>1 DEF MInv, CallsAgree
    <3>4. call' = Wake(Notified(v, End[g]), Completed(v, End[g]))
      BY <3>2 DEF emit
    <3>5. call'[v].st # "woken"
      BY <1>1, <3>3, <3>4, CallFields DEF Wake
    <3>6. ~Busy(v)' /\ Busy(v)
      BY <1>2, <2>1, <3>5 DEF Busy, TypeOK
    <3> QED
      BY <1>1, <1>3, <3>1, <3>2, <3>6, HooksEmit
  <2> QED
    BY <2>2, <2>3
<1>9. CASE SkipLoop(v) \/ TestCancel(v)
  <2>1. /\ UNCHANGED <<call, pending_emitters>>
        /\ \E p \in {"asleep", "dead"} : wpc' = [wpc EXCEPT ![v] = p]
    BY <1>9 DEF SkipLoop, TestCancel, WGoto, points
  <2>2. Busy(v)' => Busy(v)
    BY <1>2, <2>1 DEF Busy, TypeOK
  <2> QED
    BY <1>4, <2>1, <2>2
<1>10. CASE CancelledInWait(v)
  <2>1. /\ UNCHANGED pending_emitters /\ call' = [call EXCEPT ![v] = NoCall]
        /\ wpc' = [wpc EXCEPT ![v] = "dead"]
    BY <1>10 DEF CancelledInWait, WaitCancelled, WGoto
  <2>2. call'[v] = NoCall /\ \A d \in Components : d # v => call'[d] = call[d]
    BY <1>1, <1>2, <2>1 DEF PointsTyped
  <2>3. ~Busy(v)'
    BY <1>2, <2>1, <2>2, CallFields DEF Busy, TypeOK
  <2> QED
    BY <1>4, <2>1, <2>2, <2>3
<1> QED
  BY <1>6, <1>7, <1>8, <1>9, <1>10 DEF ThreadStep

\* Of the steps of a removal only the first part of unregister_emitter() emits.
LEMMA HooksRemoval ==
  ASSUME BlockedTiming, MInv, HooksAgree, NEW v \in Workers, RemovalStep(v)
  PROVE  HooksAgree'
<1>1. v \in Components /\ v # Main /\ Main \in Components /\ UNCHANGED <<mpc, hook, defaulted>>
  BY AspectAssumption DEF Workers, RemovalStep, PrepareFinalize, CancelFinalize, Stop, Finalize
<1>2. PointsTyped /\ TypeOK
  BY DEF MInv, TypeOK
<1>3. \A w \in Workers : w # v => wpc'[w] = wpc[w] /\ life'[w] = life[w]
  <2>1. PICK l : life' = [life EXCEPT ![v] = l]
    BY DEF RemovalStep, PrepareFinalize, CancelFinalize, Stop, Finalize, Becomes
  <2>2. UNCHANGED wpc \/ \E p : wpc' = [wpc EXCEPT ![v] = p]
    BY DEF RemovalStep, PrepareFinalize, CancelFinalize, Stop, Finalize, WGoto
  <2> QED
    BY <1>2, <2>1, <2>2 DEF TypeOK
<1>4. ASSUME UNCHANGED <<call, pending_emitters>>, wpc'[v] = "loop" => wpc[v] = "loop", Alive(v)' => Alive(v)
      PROVE  HooksAgree'
  <2>1. \A w \in Workers : Out[w] # None => (Busy(w)' => Busy(w)) /\ (Alive(w)' => Alive(w))
    BY <1>3, <1>4 DEF Busy, Alive
  <2> QED
    BY <1>1, <1>4, <2>1, HooksKept
<1>5. CASE PrepareFinalize(v) \/ CancelFinalize(v) \/ Stop(v)
  <2>1. UNCHANGED <<call, pending_emitters, wpc>> /\ life[v] \in {"loaded", "prepared"}
    BY <1>5 DEF PrepareFinalize, CancelFinalize, Stop, points
  <2> QED
    BY <1>4, <2>1 DEF Alive
<1>6. CASE Finalize(v)
  <2>1. wpc[v] = "dead" /\ wpc' = [wpc EXCEPT ![v] = IF life'[v] = "none" THEN "none" ELSE "dead"]
    BY <1>6 DEF Finalize, WGoto
  <2>2. wpc'[v] # "loop"
    BY <1>2, <2>1 DEF TypeOK
  <2>3. \E l \in {"none", "released", "emitted", "erased"} : life' = [life EXCEPT ![v] = l]
    BY <1>6 DEF Finalize, Becomes
  <2>4. ~Alive(v)'
    BY <1>2, <2>3 DEF Alive, TypeOK
  <2>5. CASE Release(v, In[v]) \/ UnregisterErase(v, Out[v]) \/ Release(v, Out[v])
    <3>1. UNCHANGED <<call, pending_emitters>>
      BY <2>5 DEF Release, UnregisterErase
    <3> QED
      BY <1>4, <2>2, <2>4, <3>1
  <2>6. CASE life[v] = "released" /\ UnregisterEmit(v, Out[v])
    <3>1. CASE UNCHANGED points
      <4>1. UNCHANGED <<call, pending_emitters>>
        BY <3>1 DEF points
      <4> QED
        BY <1>4, <2>2, <2>4, <4>1
    <3>2. CASE emit(v, Out[v])
      <4>1. Out[v] # None
        BY <2>6 DEF MInv, LivesAgree
      <4>2. PICK g \in 1..Hooks : Out[v] = End[g]
        BY <4>1 DEF BlockedTiming
      <4>3. emit(v, End[g])
        BY <3>2, <4>2
      <4>4. call[v] = NoCall
        BY <2>1 DEF MInv, CallsAgree
      <4>5. call' = Wake(Notified(v, End[g]), Completed(v, End[g]))
        BY <4>3 DEF emit
      <4>6. call'[v].st # "woken"
        BY <1>1, <4>4, <4>5, CallFields DEF Wake
      <4>7. ~Busy(v)'
        BY <2>2, <4>6 DEF Busy
      <4> QED
        BY <1>1, <1>3, <2>4, <4>2, <4>3, <4>7, HooksEmit
    <3> QED
      BY <2>6, <3>1, <3>2 DEF UnregisterEmit
  <2> QED
    BY <1>6, <2>5, <2>6 DEF Finalize
<1> QED
  BY <1>5, <1>6 DEF RemovalStep

\* Joining makes a thread pending at its output path, and leaves the calls alone.
LEMMA JoinPending ==
  ASSUME PointsTyped, NEW v \in Workers, Join(v, {In[v], Out[v]} \ {None}, Out[v])
  PROVE  /\ UNCHANGED call
         /\ \A x \in SyncPoints : \A d \in Components : pending_emitters'[x][d] =
              IF d = v /\ x \in OutPath(v) THEN pending_emitters[x][d] + 1 ELSE pending_emitters[x][d]
<1>1. UNCHANGED <<watchers_wait_for_one, watchers_wait_for_all, call, threw>>
  BY JoinDoes
<1>2. ASSUME NEW x \in SyncPoints, NEW d \in Components
      PROVE  pending_emitters'[x][d] =
               IF d = v /\ x \in OutPath(v) THEN pending_emitters[x][d] + 1 ELSE pending_emitters[x][d]
  BY JoinDoes
<1> QED
  BY <1>1, <1>2

\* A thread that is added is pending at the end point of its hook.
LEMMA HooksAdd ==
  ASSUME BlockedTiming, MInv, HooksAgree, NEW v \in Workers, Add(v)
  PROVE  HooksAgree'
<1> SUFFICES ASSUME ~defaulted', NEW w \in Workers, NEW h \in 1..Hooks, Out[w] = End[h]
             PROVE  /\ Busy(w)' => InHook(h)'
                    /\ Busy(w)' \/ (Alive(w)' /\ ~InHook(h)') => pending_emitters'[End[h]][w] > 0
  BY DEF HooksAgree
<1>1. /\ life[v] = "none" /\ Join(v, {In[v], Out[v]} \ {None}, Out[v])
      /\ wpc' = [wpc EXCEPT ![v] = "top"] /\ life' = [life EXCEPT ![v] = "loaded"]
      /\ UNCHANGED <<mpc, hook, defaulted>>
  BY DEF Add, WGoto, Becomes
<1>2. Ordered(w, h)
  BY <1>1 DEF HooksAgree, Ordered
<1>3. PointsTyped /\ TypeOK /\ w \in Components /\ End[h] \in SyncPoints
  BY HookThread DEF MInv, TypeOK
<1>4. /\ UNCHANGED call
      /\ pending_emitters'[End[h]][w] =
           IF w = v /\ End[h] \in OutPath(v) THEN pending_emitters[End[h]][w] + 1 ELSE pending_emitters[End[h]][w]
  <2>1. /\ UNCHANGED call
        /\ \A x \in SyncPoints : \A d \in Components : pending_emitters'[x][d] =
             IF d = v /\ x \in OutPath(v) THEN pending_emitters[x][d] + 1 ELSE pending_emitters[x][d]
    BY <1>1, <1>3, JoinPending
  <2> QED
    BY <1>3, <2>1
<1>5. InHook(h)' <=> InHook(h)
  BY <1>1, <1>4 DEF InHook
<1>6. CASE w = v
  <2>1. End[h] \in OutPath(v) /\ pending_emitters[End[h]][w] \in Nat
    BY <1>3, <1>6, AspectPoints, PredAssumption DEF PointsTyped
  <2>2. pending_emitters'[End[h]][w] > 0
    BY <1>4, <1>6, <2>1
  <2>3. ~Busy(w)'
    <3>1. wpc[v] = "none" /\ call[v] = NoCall
      BY <1>1 DEF MInv, LivesAgree, CallsAgree
    <3> QED
      BY <1>1, <1>3, <1>4, <1>6, <3>1, CallFields DEF Busy, TypeOK
  <2> QED
    BY <2>2, <2>3
<1>7. CASE w # v
  <2>1. (Busy(w)' <=> Busy(w)) /\ (Alive(w)' <=> Alive(w))
    BY <1>1, <1>3, <1>4, <1>7 DEF Busy, Alive, TypeOK
  <2> QED
    BY <1>2, <1>4, <1>5, <1>7, <2>1 DEF Ordered
<1> QED
  BY <1>6, <1>7

\* With threads of the BlockedTimingAspect and until some wait of the main thread has timed
\* out, threads are in loop() only while the main loop is at their hook.
THEOREM HooksInOrder == BlockedTiming /\ Spec => []HookOrder
<1>1. BlockedTiming /\ Init => HooksAgree
  <2> SUFFICES ASSUME BlockedTiming, Init PROVE HooksAgree
    OBVIOUS
  <2>1. MInv
    BY MInvInit
  <2> SUFFICES ASSUME NEW w \in Workers, NEW h \in 1..Hooks, Out[w] = End[h]
               PROVE  ~Busy(w) /\ (Alive(w) => pending_emitters[End[h]][w] > 0)
    BY DEF HooksAgree
  <2>2. w \in Components /\ (Alive(w) => emitters[End[h]][w] = 1)
    BY <2>1, HookThread
  <2>3. pending_emitters = emitters /\ call[w] = NoCall /\ wpc[w] # "loop"
    BY <2>2 DEF Init, PointsInit
  <2> QED
    BY <2>2, <2>3, CallFields DEF Busy
<1>2. BlockedTiming /\ MInv /\ HooksAgree /\ [Next]_vars => HooksAgree'
  <2> SUFFICES ASSUME BlockedTiming, MInv, HooksAgree, [Next]_vars PROVE HooksAgree'
    OBVIOUS
  <2>1. CASE UNCHANGED vars
    BY <2>1, HooksKept DEF vars, points, Busy, Alive
  <2>2. CASE MainStep
    BY <2>2, HooksMain
  <2>3. ASSUME NEW w \in Workers, Add(w) \/ ThreadStep(w) \/ RemovalStep(w) PROVE HooksAgree'
    BY <2>3, HooksAdd, HooksThread, HooksRemoval
  <2> QED
    BY <2>1, <2>2, <2>3 DEF Next
<1>3. HooksAgree /\ MInv /\ BlockedTiming => HookOrder
  <2> SUFFICES ASSUME HooksAgree, MInv, BlockedTiming, ~defaulted, NEW w \in Workers, wpc[w] = "loop", Out[w] # None
               PROVE  mpc \in {"wait", "waiting"} /\ Out[w] = End[hook]
    BY DEF HookOrder
  <2>1. PICK h \in 1..Hooks : Out[w] = End[h]
    BY DEF BlockedTiming
  <2>2. InHook(h)
    BY <2>1 DEF HooksAgree, Busy
  <2> QED
    BY <2>1, <2>2 DEF InHook
<1> SUFFICES ASSUME BlockedTiming PROVE Spec => []HookOrder
  OBVIOUS
<1>4. Init => HooksAgree
  BY <1>1
<1>5. MInv /\ HooksAgree /\ [Next]_vars => HooksAgree'
  BY <1>2
<1>6. HooksAgree /\ MInv => HookOrder
  BY <1>3
<1> QED
  BY <1>4, <1>5, <1>6, MainLoopInductive, PTL DEF Spec
=============================================================================
