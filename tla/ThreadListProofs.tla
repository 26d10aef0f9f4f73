-------------------------- MODULE ThreadListProofs --------------------------
(***************************************************************************)
(* Waking and waiting, timeouts, recovery and the coming and going of      *)
(* threads, for any number of threads: no barrier goes while somebody is   *)
(* in it or on the way to it, and a cycle that ends in time has run all.   *)
(***************************************************************************)
EXTENDS ThreadList, FiniteSetTheorems, TLAPS

USE ThreadsAssumption

-----------------------------------------------------------------------------
\* The sets that are read off the barriers and the calls of wait().
LEMMA BarriersStay ==
  ASSUME BarriersAgree, UNCHANGED <<barriers, at, bar, wnw_barrier, wnw_bad_barriers>>
  PROVE  BarriersAgree'
BY DEF BarriersAgree, BadBarriers, Exists, InSync, InWait

\* The wakeup of a thread is taken, or the thread leaves.
LEMMA AwakeStep ==
  ASSUME TInv, NEW t \in Threads, Awake(t)
  PROVE  TInv'
<1> USE DEF TInv, calls, lists, coord, Goto, TakeWakeup
<1>1. TypeOK'
  BY DEF Awake, TypeOK
<1>2. ThreadsAgree'
  BY DEF Awake, TypeOK, ThreadsAgree, Calm
<1>3. RemovalsAgree'
  BY DEF Awake, TypeOK, RemovalsAgree, InCycle
<1>4. BarriersAgree'
  BY BarriersStay DEF Awake
<1>5. BarriersBounded'
  BY DEF Awake, BarriersBounded, BadBarriers, Deletable, InCycle
<1>6. PendingKnown'
  BY DEF Awake, TypeOK, PendingKnown, Pending, Parties, Entered, Unflagged, BadBarriers, InCycle
<1>7. Resting'
  BY DEF Awake, TypeOK, Resting, Calm, Unflagged, InCycle, Held
<1>8. Round'
  BY DEF Awake, TypeOK, Round, Calm, Parties, Entered, Unflagged, InCycle, Held
<1>9. InTime' /\ Counted'
  BY DEF Awake, InTime, Counted, Parties, Entered, Unflagged, Held
<1>10. FlaggedIsListed' /\ NoException'
  BY DEF Awake, FlaggedIsListed, NoException
<1> QED
  BY <1>1, <1>2, <1>3, <1>4, <1>5, <1>6, <1>7, <1>8, <1>9, <1>10

\* A call of wait() that begins is in no set of those who wait.
LEMMA GoToBarrier ==
  ASSUME NEW p \in Procs, at[p] = "none", TypeOK, NEW b \in Barriers,
         at' = [at EXCEPT ![p] = "enter"], bar' = [bar EXCEPT ![p] = b]
  PROVE  /\ \A c : InSync(c)' = InSync(c) /\ InWait(c)' = InWait(c) /\ Held(c)' = Held(c)
         /\ \A q \in Procs \ {p} : at'[q] = at[q] /\ bar'[q] = bar[q]
         /\ at'[p] = "enter" /\ bar'[p] = b
BY DEF TypeOK, InSync, InWait, Held

LEMMA BarriersKept ==
  ASSUME BarriersAgree, UNCHANGED <<barriers, wnw_barrier, wnw_bad_barriers>>,
         \A c : InSync(c)' = InSync(c) /\ InWait(c)' = InWait(c),
         \A q \in Procs : at'[q] \in {"wait", "sync", "out"} => at'[q] = at[q] /\ bar'[q] = bar[q]
  PROVE  BarriersAgree'
BY DEF BarriersAgree, BadBarriers, Exists

\* loop() returns.
LEMMA LoopReturnsStep ==
  ASSUME TInv, NEW t \in Threads, LoopReturns(t)
  PROVE  TInv'
<1> USE DEF TInv, calls, lists, coord, threads, Goto, TakeWakeup
<1>1. TypeOK'
  BY DEF LoopReturns, TypeOK, Procs
<1>2. ThreadsAgree'
  BY DEF LoopReturns, TypeOK, ThreadsAgree, Calm, Procs
<1>3. RemovalsAgree'
  BY DEF LoopReturns, TypeOK, RemovalsAgree, ThreadsAgree, InCycle
<1>4. BarriersAgree'
  BY BarriersStay DEF LoopReturns
<1>5. BarriersBounded'
  BY DEF LoopReturns, BarriersBounded, BadBarriers, Deletable, InCycle
<1>6. PendingKnown'
  BY DEF LoopReturns, TypeOK, PendingKnown, Pending, Parties, Entered, Unflagged, BadBarriers, InCycle
<1>7. Resting'
  BY DEF LoopReturns, TypeOK, Resting, Calm, Unflagged, InCycle, Held
<1>8. Round'
  BY DEF LoopReturns, TypeOK, Round, Calm, Parties, Entered, Unflagged, InCycle, Held
<1>9. InTime' /\ Counted'
  BY DEF LoopReturns, InTime, Counted, Parties, Entered, Unflagged, Held
<1>10. FlaggedIsListed' /\ NoException'
  BY DEF LoopReturns, FlaggedIsListed, NoException
<1> QED
  BY <1>1, <1>2, <1>3, <1>4, <1>5, <1>6, <1>7, <1>8, <1>9, <1>10

\* A thread takes its barrier and goes to it.
LEMMA DoneStep ==
  ASSUME TInv, NEW t \in Threads, Done(t)
  PROVE  TInv'
<1> USE DEF TInv, calls, lists, coord, threads, Goto, TakeWakeup
<1>0. CASE UNCHANGED <<at, bar, barrier_>>
  <2>1. TypeOK' /\ ThreadsAgree' /\ RemovalsAgree'
    BY <1>0 DEF Done, TypeOK, ThreadsAgree, Calm, RemovalsAgree, InCycle
  <2>2. BarriersAgree' /\ BarriersBounded'
    BY <1>0, BarriersStay DEF Done, BarriersBounded, BadBarriers, Deletable, InCycle
  <2>3. PendingKnown'
    BY <1>0 DEF Done, TypeOK, PendingKnown, Pending, Parties, Entered, Unflagged, BadBarriers, InCycle
  <2>4. Resting' /\ Round'
    BY <1>0 DEF Done, TypeOK, Resting, Round, Calm, Parties, Entered, Unflagged, InCycle, Held
  <2>5. InTime' /\ Counted' /\ FlaggedIsListed' /\ NoException'
    BY <1>0 DEF Done, InTime, Counted, Parties, Entered, Unflagged, Held, FlaggedIsListed, NoException
  <2> QED
    BY <2>1, <2>2, <2>3, <2>4, <2>5
<1> SUFFICES ASSUME t \notin cancelled, barrier_[t] # Null PROVE TInv'
  BY <1>0 DEF Done
<1>a. PICK b \in Barriers : b = barrier_[t]
  BY DEF TypeOK
<1>b. /\ pc[t] = "done" /\ at[t] = "none" /\ pending_wakeups[t] = 0 /\ t \in Procs /\ t # Coord
      /\ pc' = [pc EXCEPT ![t] = "atbarrier"] /\ barrier_' = [barrier_ EXCEPT ![t] = Null]
      /\ at' = [at EXCEPT ![t] = "enter"] /\ bar' = [bar EXCEPT ![t] = b]
      /\ UNCHANGED <<barriers, lists, coord, waiting_for_wakeup, pending_wakeups, cancelled, removing, threw>>
  BY <1>a DEF Done, ThreadsAgree, Procs
<1>c. /\ \A c : InSync(c)' = InSync(c) /\ InWait(c)' = InWait(c) /\ Held(c)' = Held(c)
      /\ \A q \in Procs \ {t} : at'[q] = at[q] /\ bar'[q] = bar[q]
      /\ at'[t] = "enter" /\ bar'[t] = b
  BY <1>b, GoToBarrier
<1>d. Parties' = Parties /\ Entered' = Entered /\ BadBarriers' = BadBarriers
      /\ InCycle' = InCycle /\ Unflagged(list, bad)' = Unflagged(list, bad)
  BY <1>b DEF Parties, Entered, BadBarriers, InCycle, Unflagged, TypeOK, Procs
<1>e. Pending(t, b)
  BY <1>a, <1>b DEF Pending
<1>1. TypeOK'
  BY <1>b DEF TypeOK
<1>2. ThreadsAgree'
  BY <1>b, <1>c DEF TypeOK, ThreadsAgree, Calm, Procs
<1>3. RemovalsAgree'
  BY <1>b, <1>d DEF TypeOK, RemovalsAgree
<1>4. BarriersAgree'
  BY <1>b, <1>c, BarriersKept
<1>5. BarriersBounded'
  BY <1>b, <1>d DEF BarriersBounded, Deletable
<1>6. PendingKnown'
  <2>1. ASSUME NEW p \in Procs, NEW c \in Barriers, Pending(p, c)' PROVE Pending(p, c)
    BY <1>a, <1>b, <1>c, <2>1 DEF Pending, TypeOK
  <2> QED
    BY <1>b, <1>d, <2>1 DEF PendingKnown
<1>7. Resting'
  <2>1. \A v \in Threads \ {t} : Calm(v) => Calm(v)'
    BY <1>b, <1>c DEF Calm, TypeOK, Procs
  <2>2. ~Calm(t)
    BY <1>b DEF Calm
  <2> QED
    BY <1>b, <1>c, <1>d, <2>1, <2>2 DEF Resting, TypeOK, Unflagged
<1>8. Round'
  <2>1. \A v \in Threads \ {t} : Calm(v) => Calm(v)'
    BY <1>b, <1>c DEF Calm, TypeOK, Procs
  <2>2. ~Calm(t)
    BY <1>b DEF Calm
  <2>3. InCycle => Entered \ {Coord} \subseteq Threads
    BY DEF Round, Parties, Unflagged, TypeOK
  <2>4. bar'[Coord] = bar[Coord]
    BY <1>b, <1>c DEF Procs
  <2> QED
    BY <1>b, <1>c, <1>d, <2>1, <2>2, <2>3, <2>4 DEF Round
<1>9. InTime' /\ Counted'
  <2>1. at'[Coord] = at[Coord]
    BY <1>b, <1>c DEF Procs
  <2> QED
    BY <1>b, <1>c, <1>d, <2>1 DEF InTime, Counted
<1>10. FlaggedIsListed' /\ NoException'
  BY <1>b DEF FlaggedIsListed, NoException
<1> QED
  BY <1>1, <1>2, <1>3, <1>4, <1>5, <1>6, <1>7, <1>8, <1>9, <1>10

\* A thread takes a wakeup that came meanwhile, or goes to sleep.
LEMMA PresleepStep ==
  ASSUME TInv, NEW t \in Threads, Presleep(t)
  PROVE  TInv'
<1> USE DEF TInv, calls, lists, coord, threads, Goto, TakeWakeup
<1>1. TypeOK'
  <2>1. waiting_for_wakeup' \in [Threads -> BOOLEAN]
    <3>1. CASE waiting_for_wakeup' = waiting_for_wakeup
      BY <3>1 DEF TypeOK
    <3>2. CASE waiting_for_wakeup' = [waiting_for_wakeup EXCEPT ![t] = TRUE]
      BY <3>2 DEF TypeOK
    <3> QED
      BY <3>1, <3>2 DEF Presleep
  <2>2. /\ pc' \in [Threads -> {"none", "asleep", "loop", "done", "atbarrier", "presleep", "exited"}]
        /\ pending_wakeups' \in [Threads -> 0..1]
    BY DEF Presleep, TypeOK
  <2> QED
    BY <2>1, <2>2 DEF Presleep, TypeOK
<1>2. ThreadsAgree'
  BY DEF Presleep, TypeOK, ThreadsAgree, Calm, Procs
<1>3. RemovalsAgree'
  BY DEF Presleep, TypeOK, RemovalsAgree, ThreadsAgree, InCycle
<1>4. BarriersAgree'
  BY BarriersStay DEF Presleep
<1>5. BarriersBounded'
  BY DEF Presleep, BarriersBounded, BadBarriers, Deletable, InCycle
<1>6. PendingKnown'
  BY DEF Presleep, TypeOK, PendingKnown, Pending, Parties, Entered, Unflagged, BadBarriers, InCycle
<1>7. Resting'
  BY DEF Presleep, TypeOK, Resting, Calm, Unflagged, InCycle, Held
<1>8. Round'
  BY DEF Presleep, TypeOK, Round, Calm, Parties, Entered, Unflagged, InCycle, Held
<1>9. InTime' /\ Counted'
  BY DEF Presleep, InTime, Counted, Parties, Entered, Unflagged, Held
<1>10. FlaggedIsListed' /\ NoException'
  BY DEF Presleep, FlaggedIsListed, NoException
<1> QED
  BY <1>1, <1>2, <1>3, <1>4, <1>5, <1>6, <1>7, <1>8, <1>9, <1>10

\* A cycle begins.
LEMMA StartCycleStep ==
  ASSUME TInv, StartCycle
  PROVE  TInv'
<1> USE DEF TInv, calls, lists, coord, threads, Goto, TakeWakeup
<1>1. TypeOK'
  BY DEF StartCycle, TypeOK, Unflagged
<1>2. ThreadsAgree'
  BY DEF StartCycle, TypeOK, ThreadsAgree, Calm, Procs
<1>3. RemovalsAgree'
  BY DEF StartCycle, TypeOK, RemovalsAgree, ThreadsAgree, InCycle
<1>4. BarriersAgree'
  BY BarriersStay DEF StartCycle
<1>5. BarriersBounded'
  BY DEF StartCycle, BarriersBounded, BadBarriers, Deletable, InCycle
<1>6. PendingKnown'
  BY DEF StartCycle, TypeOK, PendingKnown, Pending, Parties, Entered, Unflagged, BadBarriers, InCycle
<1>7. Resting'
  BY DEF StartCycle, TypeOK, Resting, Calm, Unflagged, InCycle, Held
<1>8. Round'
  <2>1. ~InCycle /\ UNCHANGED <<barriers, at, bar, list, bad, wnw_barrier>> /\ cpc' = "waking"
        /\ todo' = Unflagged(list, bad)
    BY DEF StartCycle, InCycle
  <2>2. Entered' = {} /\ barriers[wnw_barrier].threads_left = 0 /\ Held(wnw_barrier)' = {}
    BY <2>1 DEF Resting, Entered, Held
  <2> QED
    BY <2>1, <2>2 DEF Round, Unflagged
<1>9. InTime' /\ Counted'
  <2>1. at[Coord] = "none" /\ UNCHANGED <<barriers, at, list, bad, wnw_barrier>>
    BY DEF StartCycle, ThreadsAgree
  <2> QED
    BY <2>1 DEF InTime, Counted, Unflagged
<1>10. FlaggedIsListed' /\ NoException'
  BY DEF StartCycle, FlaggedIsListed, NoException
<1> QED
  BY <1>1, <1>2, <1>3, <1>4, <1>5, <1>6, <1>7, <1>8, <1>9, <1>10

\* A cycle is left out.
LEMMA SkipCycleStep ==
  ASSUME TInv, SkipCycle
  PROVE  TInv'
<1> USE DEF TInv, calls, lists, coord, threads, Goto, TakeWakeup
<1>1. TypeOK'
  BY DEF SkipCycle, TypeOK, Procs
<1>2. ThreadsAgree'
  BY DEF SkipCycle, TypeOK, ThreadsAgree, Calm, Procs
<1>3. RemovalsAgree'
  BY DEF SkipCycle, TypeOK, RemovalsAgree, ThreadsAgree, InCycle
<1>4. BarriersAgree'
  BY BarriersStay DEF SkipCycle
<1>5. BarriersBounded'
  BY DEF SkipCycle, BarriersBounded, BadBarriers, Deletable, InCycle
<1>6. PendingKnown'
  BY DEF SkipCycle, TypeOK, PendingKnown, Pending, Parties, Entered, Unflagged, BadBarriers, InCycle
<1>7. Resting'
  BY DEF SkipCycle, TypeOK, Resting, Calm, Unflagged, InCycle, Held
<1>8. Round'
  BY DEF SkipCycle, TypeOK, Round, Calm, Parties, Entered, Unflagged, InCycle, Held
<1>9. InTime' /\ Counted'
  BY DEF SkipCycle, InTime, Counted, Parties, Entered, Unflagged, Held
<1>10. FlaggedIsListed' /\ NoException'
  BY DEF SkipCycle, FlaggedIsListed, NoException
<1> QED
  BY <1>1, <1>2, <1>3, <1>4, <1>5, <1>6, <1>7, <1>8, <1>9, <1>10

\* A thread is woken.
LEMMA wakeupStep ==
  ASSUME TInv, NEW t \in Threads, wakeup(t)
  PROVE  TInv'
<1> USE DEF TInv, calls, lists, coord, threads, Goto, TakeWakeup
<1>0. t \in Unflagged(list, bad) /\ Calm(t) /\ t \in todo /\ cpc = "waking" /\ InCycle
  BY DEF wakeup, Resting, Round, InCycle
<1>a. /\ todo' = todo \ {t} /\ pending_wakeups' = [pending_wakeups EXCEPT ![t] = 1]
      /\ barrier_' = [barrier_ EXCEPT ![t] = wnw_barrier]
      /\ waiting_for_wakeup' = [waiting_for_wakeup EXCEPT ![t] = FALSE]
      /\ UNCHANGED <<barriers, calls, lists, cpc, pc, cancelled, removing, threw>>
  BY <1>0 DEF wakeup, RunningWithBarrier, Calm, TypeOK
<1>b. pc[t] \notin {"none", "loop", "done"} /\ at[t] # "enter" /\ t # Coord
  BY <1>0 DEF Calm, ThreadsAgree, Unflagged
<1>c. Parties' = Parties /\ Entered' = Entered /\ BadBarriers' = BadBarriers
      /\ InCycle' = InCycle /\ Unflagged(list, bad)' = Unflagged(list, bad)
  BY <1>a DEF Parties, Entered, BadBarriers, InCycle, Unflagged
<1>1. TypeOK'
  <2>1. waiting_for_wakeup' \in [Threads -> BOOLEAN]
    BY <1>a DEF TypeOK
  <2>2. pending_wakeups' \in [Threads -> 0..1] /\ barrier_' \in [Threads -> Barriers \cup {Null}]
        /\ todo' \subseteq Threads
    BY <1>a DEF TypeOK
  <2> QED
    BY <1>a, <2>1, <2>2 DEF TypeOK
<1>2. ThreadsAgree'
  BY <1>a, <1>b DEF TypeOK, ThreadsAgree, Calm, Procs
<1>3. RemovalsAgree'
  BY DEF wakeup, TypeOK, RemovalsAgree, ThreadsAgree, InCycle
<1>4. BarriersAgree'
  BY BarriersStay DEF wakeup
<1>5. BarriersBounded'
  BY DEF wakeup, BarriersBounded, BadBarriers, Deletable, InCycle
<1>6. PendingKnown'
  <2> SUFFICES ASSUME NEW p \in Procs, NEW b \in Barriers, Pending(p, b)'
               PROVE  IF b = wnw_barrier THEN InCycle /\ p \in Parties \ (Entered \cup todo')
                                         ELSE b \in BadBarriers /\ p \in wnw_bad_barriers[b]
    BY <1>a, <1>c DEF PendingKnown
  <2>1. CASE Pending(p, b)
    BY <1>a, <2>1 DEF PendingKnown
  <2>2. CASE ~Pending(p, b)
    <3>1. p = t /\ b = wnw_barrier
      BY <1>a, <2>2 DEF Pending, TypeOK
    <3>2. t \notin Entered /\ t \in Parties
      BY <1>0 DEF Round, Parties
    <3> QED
      BY <1>0, <1>a, <3>1, <3>2
  <2> QED
    BY <2>1, <2>2
<1>7. Resting'
  <2>1. \A v \in Threads \ {t} : Calm(v) => Calm(v)'
    BY <1>a DEF Calm, TypeOK
  <2> QED
    BY <1>0, <1>a, <1>c, <2>1 DEF Resting, TypeOK
<1>8. Round'
  <2>1. \A v \in Threads \ {t} : Calm(v) => Calm(v)'
    BY <1>a DEF Calm, TypeOK
  <2>2. Entered \ {Coord} \subseteq Threads /\ t \notin Entered
    BY <1>0 DEF Round, Parties, Unflagged, TypeOK
  <2>3. Held(wnw_barrier)' = Held(wnw_barrier)
    BY <1>a DEF Held
  <2> QED
    BY <1>0, <1>a, <1>c, <2>1, <2>2, <2>3 DEF Round
<1>9. InTime' /\ Counted'
  BY DEF wakeup, InTime, Counted, Parties, Entered, Unflagged, Held
<1>10. FlaggedIsListed' /\ NoException'
  BY <1>a DEF FlaggedIsListed, NoException
<1> QED
  BY <1>1, <1>2, <1>3, <1>4, <1>5, <1>6, <1>7, <1>8, <1>9, <1>10

\* All are woken, and the coordinator goes to the barrier.
LEMMA AllWokenStep ==
  ASSUME TInv, AllWoken
  PROVE  TInv'
<1> USE DEF TInv, calls, lists, coord, threads, Goto, TakeWakeup
<1>a. /\ cpc = "waking" /\ todo = {} /\ at[Coord] = "none" /\ Coord \in Procs /\ wnw_barrier \in Barriers
      /\ InCycle /\ threw' = threw /\ cpc' = "waiting"
      /\ at' = [at EXCEPT ![Coord] = "enter"] /\ bar' = [bar EXCEPT ![Coord] = wnw_barrier]
      /\ UNCHANGED <<barriers, lists, todo, threads, removing>>
  BY DEF AllWoken, ThreadsAgree, Procs, TypeOK, Counted, InCycle
<1>b. /\ \A c : InSync(c)' = InSync(c) /\ InWait(c)' = InWait(c) /\ Held(c)' = Held(c)
      /\ \A q \in Procs \ {Coord} : at'[q] = at[q] /\ bar'[q] = bar[q]
      /\ at'[Coord] = "enter" /\ bar'[Coord] = wnw_barrier
  BY <1>a, GoToBarrier
<1>c. Parties' = Parties /\ Entered' = Entered /\ BadBarriers' = BadBarriers
      /\ InCycle' /\ Unflagged(list, bad)' = Unflagged(list, bad) /\ Coord \notin Entered
  BY <1>a, <1>b DEF Parties, Entered, BadBarriers, InCycle, Unflagged, Round
<1>d. \A t \in Threads : Calm(t)' = Calm(t)
  BY <1>a, <1>b DEF Calm, Procs
<1>1. TypeOK'
  BY <1>a DEF TypeOK
<1>2. ThreadsAgree'
  BY <1>a, <1>b, <1>d DEF TypeOK, ThreadsAgree, Procs
<1>3. RemovalsAgree'
  BY DEF AllWoken, TypeOK, RemovalsAgree, ThreadsAgree, InCycle
<1>4. BarriersAgree'
  BY <1>a, <1>b, BarriersKept
<1>5. BarriersBounded'
  BY DEF AllWoken, BarriersBounded, BadBarriers, Deletable, InCycle
<1>6. PendingKnown'
  <2>1. ASSUME NEW p \in Procs, NEW c \in Barriers, Pending(p, c)'
        PROVE  Pending(p, c) \/ (p = Coord /\ c = wnw_barrier)
    BY <1>a, <1>b, <2>1 DEF Pending
  <2>2. Coord \in Parties \ (Entered \cup todo)
    BY <1>a, <1>c DEF Parties
  <2> QED
    BY <1>a, <1>c, <2>1, <2>2 DEF PendingKnown
<1>7. Resting'
  BY <1>a, <1>c DEF Resting
<1>8. Round'
  <2>1. Entered \ {Coord} \subseteq Threads
    BY <1>a DEF Round, Parties, Unflagged, TypeOK
  <2> QED
    BY <1>a, <1>b, <1>c, <1>d, <2>1 DEF Round
<1>9. InTime' /\ Counted'
  BY <1>a, <1>b, <1>c DEF InTime, Counted
<1>10. FlaggedIsListed' /\ NoException'
  BY <1>a DEF FlaggedIsListed, NoException
<1> QED
  BY <1>1, <1>2, <1>3, <1>4, <1>5, <1>6, <1>7, <1>8, <1>9, <1>10

\* The removal of a thread begins.
LEMMA StartRemoveStep ==
  ASSUME TInv, NEW t \in Threads, StartRemove(t)
  PROVE  TInv'
<1> USE DEF TInv, calls, lists, coord, threads, Goto, TakeWakeup
<1>1. TypeOK'
  BY DEF StartRemove, Between, TypeOK, Procs
<1>2. ThreadsAgree'
  BY DEF StartRemove, Between, TypeOK, ThreadsAgree, Calm, Procs
<1>3. RemovalsAgree'
  BY DEF StartRemove, Between, TypeOK, RemovalsAgree, ThreadsAgree, InCycle
<1>4. BarriersAgree'
  BY BarriersStay DEF StartRemove, Between
<1>5. BarriersBounded'
  BY DEF StartRemove, Between, BarriersBounded, BadBarriers, Deletable, InCycle
<1>6. PendingKnown'
  BY DEF StartRemove, Between, TypeOK, PendingKnown, Pending, Parties, Entered, Unflagged, BadBarriers, InCycle
<1>7. Resting'
  BY DEF StartRemove, Between, TypeOK, Resting, Calm, Unflagged, InCycle, Held
<1>8. Round'
  BY DEF StartRemove, Between, TypeOK, Round, Calm, Parties, Entered, Unflagged, InCycle, Held
<1>9. InTime' /\ Counted'
  BY DEF StartRemove, Between, InTime, Counted, Parties, Entered, Unflagged, Held
<1>10. FlaggedIsListed' /\ NoException'
  BY DEF StartRemove, Between, FlaggedIsListed, NoException
<1> QED
  BY <1>1, <1>2, <1>3, <1>4, <1>5, <1>6, <1>7, <1>8, <1>9, <1>10

\* The thread to be removed is cancelled.
LEMMA CancelStep ==
  ASSUME TInv, NEW t \in Threads, Cancel(t)
  PROVE  TInv'
<1> USE DEF TInv, calls, lists, coord, threads, Goto, TakeWakeup
<1>1. TypeOK'
  BY DEF Cancel, TypeOK, Procs
<1>2. ThreadsAgree'
  BY DEF Cancel, TypeOK, ThreadsAgree, Calm, Procs
<1>3. RemovalsAgree'
  BY DEF Cancel, TypeOK, RemovalsAgree, ThreadsAgree, InCycle
<1>4. BarriersAgree'
  BY BarriersStay DEF Cancel
<1>5. BarriersBounded'
  BY DEF Cancel, BarriersBounded, BadBarriers, Deletable, InCycle
<1>6. PendingKnown'
  BY DEF Cancel, TypeOK, PendingKnown, Pending, Parties, Entered, Unflagged, BadBarriers, InCycle
<1>7. Resting'
  BY DEF Cancel, TypeOK, Resting, Calm, Unflagged, InCycle, Held
<1>8. Round'
  BY DEF Cancel, TypeOK, Round, Calm, Parties, Entered, Unflagged, InCycle, Held
<1>9. InTime' /\ Counted'
  BY DEF Cancel, InTime, Counted, Parties, Entered, Unflagged, Held
<1>10. FlaggedIsListed' /\ NoException'
  BY DEF Cancel, FlaggedIsListed, NoException
<1> QED
  BY <1>1, <1>2, <1>3, <1>4, <1>5, <1>6, <1>7, <1>8, <1>9, <1>10

-----------------------------------------------------------------------------
(* wait()                                                                  *)

LEMMA NotDeleted == Deleted \notin Barrier
<1> SUFFICES ASSUME Deleted \in Barrier PROVE FALSE
  OBVIOUS
<1>1. DOMAIN Deleted = {"count"}
  BY DEF Deleted
<1>2. "passed" \in DOMAIN Deleted
  BY DEF Barrier
<1> QED
  BY <1>1, <1>2

\* What is left of a thread's way through wait() once it need not wait any longer: it
\* leaves, waits in Barrier::wait(), or takes all who are in there with it.
Leaves(p, b, e) ==
  /\ \E S : S = InSync(b)' /\ barriers' = [barriers EXCEPT ![b] = [e EXCEPT !.inside = S]]
  /\ at' \in [Procs -> {"none", "enter", "wait", "sync", "out"}]
  /\ at'[p] \in {"sync", "out"}
  /\ \A q \in Procs \ {p} : at'[q] = at[q] \/ (at[q] = "sync" /\ at'[q] = "out" /\ bar[q] = b)
  /\ \A q \in Procs : at'[q] = "out" /\ at[q] # "out" =>
       \/ q = p /\ ~e.wait_at_barrier
       \/ /\ Cardinality(InSync(b) \cup {p}) = e.count
          /\ \A r \in InSync(b) \cup {p} : at'[r] = "out"

LEMMA LeaveEffect ==
  ASSUME TypeOK, NEW p \in Procs, NEW b \in Barriers, bar[p] = b, at[p] \in {"enter", "wait"},
         NEW e \in Barrier, e.inside = InSync(b), Leave(p, e), UNCHANGED bar
  PROVE  Leaves(p, b, e)
<1> DEFINE here == e.inside \cup {p}
           full == Cardinality(here) = e.count
<1>0. here = InSync(b) \cup {p} /\ here \subseteq Procs /\ p \in here
  BY DEF InSync
<1>1. CASE ~e.wait_at_barrier
  <2>1. barriers' = [barriers EXCEPT ![b] = e] /\ at' = [at EXCEPT ![p] = "out"]
    BY <1>1 DEF Leave
  <2>2. InSync(b)' = e.inside
    BY <2>1 DEF InSync, TypeOK
  <2>3. \E S : S = InSync(b)' /\ e = [e EXCEPT !.inside = S]
    BY <2>2 DEF Barrier
  <2>4. \E S : S = InSync(b)' /\ barriers' = [barriers EXCEPT ![b] = [e EXCEPT !.inside = S]]
    BY <2>1, <2>3
  <2> QED
    <3>1. at' \in [Procs -> {"none", "enter", "wait", "sync", "out"}]
      BY <2>1 DEF TypeOK
    <3>2. at'[p] = "out" /\ \A q \in Procs \ {p} : at'[q] = at[q]
      BY <2>1 DEF TypeOK
    <3> QED
      BY <1>1, <2>4, <3>1, <3>2 DEF Leaves
<1>2. CASE e.wait_at_barrier /\ full
  <2>1. /\ barriers' = [barriers EXCEPT ![b] = [e EXCEPT !.inside = {}]]
        /\ at' = [q \in Procs |-> IF q \in here THEN "out" ELSE IF q = p THEN "sync" ELSE at[q]]
    BY <1>2 DEF Leave
  <2>2. \A q \in Procs : at'[q] = IF q \in here THEN "out" ELSE at[q]
    BY <1>0, <2>1
  <2>3. InSync(b)' = {}
    BY <1>0, <2>2 DEF InSync
  <2> HIDE DEF here
  <2>4. at' \in [Procs -> {"none", "enter", "wait", "sync", "out"}]
    BY <2>1 DEF TypeOK
  <2>5. \A q \in here \ {p} : at[q] = "sync" /\ bar[q] = b
    BY <1>0 DEF InSync
  <2>6. Cardinality(InSync(b) \cup {p}) = e.count /\ \A r \in InSync(b) \cup {p} : at'[r] = "out"
    BY <1>0, <1>2, <2>2
  <2> QED
    BY <1>0, <2>1, <2>2, <2>3, <2>4, <2>5, <2>6 DEF Leaves
<1>3. CASE e.wait_at_barrier /\ ~full
  <2>1. /\ barriers' = [barriers EXCEPT ![b] = [e EXCEPT !.inside = here]]
        /\ at' = [q \in Procs |-> IF q = p THEN "sync" ELSE at[q]]
    BY <1>3 DEF Leave
  <2>2. InSync(b)' = here
    BY <1>0, <2>1 DEF InSync
  <2> HIDE DEF here
  <2> QED
    BY <2>1, <2>2 DEF TypeOK, Leaves
<1> QED
  BY <1>1, <1>2, <1>3

\* ... and for the sets that are read off the calls.
LEMMA LeaveSets ==
  ASSUME TypeOK, NEW p \in Procs, NEW b \in Barriers, bar[p] = b, at[p] \in {"enter", "wait"},
         UNCHANGED bar, at'[p] \in {"wait", "sync", "out"},
         \A q \in Procs \ {p} : at'[q] = at[q] \/ (at[q] = "sync" /\ at'[q] = "out" /\ bar[q] = b)
  PROVE  /\ InWait(b)' = InWait(b) \cup {p}
         /\ Held(b)' \subseteq Held(b) \cup {p}
         /\ \A c \in Barriers \ {b} : InSync(c)' = InSync(c) /\ InWait(c)' = InWait(c) /\ Held(c)' = Held(c)
BY DEF InSync, InWait, Held

\* One barrier and those who are in it change.
LEMMA OneBarrier ==
  ASSUME TypeOK, ThreadsAgree, BarriersAgree, NEW b \in Barriers, Exists(b), NEW e \in Barrier,
         barriers' = [barriers EXCEPT ![b] = e], e.inside = InSync(b)', e.in_wait = Cardinality(InWait(b)'),
         \A c \in Barriers \ {b} : InSync(c)' = InSync(c) /\ InWait(c)' = InWait(c),
         \A p \in Procs : at'[p] \in {"wait", "sync", "out"} => bar'[p] = bar[p] /\
                            (at[p] \in {"wait", "sync", "out"} \/ bar[p] = b),
         UNCHANGED <<wnw_barrier, wnw_bad_barriers>>
  PROVE  BarriersAgree' /\ \A c \in Barriers : Exists(c)' = Exists(c)
<1>1. \A c \in Barriers \ {b} : barriers'[c] = barriers[c]
  BY DEF TypeOK
<1>2. barriers'[b] = e /\ e # Deleted
  BY NotDeleted DEF TypeOK
<1>3. \A c \in Barriers : Exists(c)' = Exists(c)
  BY <1>1, <1>2 DEF Exists
<1>4. BadBarriers' = BadBarriers
  BY DEF BadBarriers
<1>5. ASSUME NEW p \in Procs, at'[p] \in {"wait", "sync", "out"} PROVE Exists(bar[p])'
  <2>1. CASE at[p] \in {"wait", "sync", "out"}
    <3>1. Exists(bar[p]) /\ bar[p] \in Barriers
      BY <2>1 DEF BarriersAgree, ThreadsAgree, TypeOK
    <3> QED
      BY <1>3, <1>5, <3>1
  <2>2. CASE bar[p] = b
    BY <1>3, <1>5, <2>2
  <2> QED
    BY <1>5, <2>1, <2>2
<1>6. \A c \in Barriers : Exists(c)' => barriers'[c].inside = InSync(c)'
                                      /\ barriers'[c].in_wait = Cardinality(InWait(c)')
  BY <1>1, <1>2, <1>3 DEF BarriersAgree
<1> QED
  BY <1>3, <1>4, <1>5, <1>6 DEF BarriersAgree

LEMMA InWaitFinite ==
  ASSUME NEW b
  PROVE  /\ IsFiniteSet(Procs) /\ IsFiniteSet(InWait(b)) /\ IsFiniteSet(InWait(b)')
<1>1. IsFiniteSet(Procs)
  BY FS_AddElement DEF Procs
<1>2. InWait(b) \subseteq Procs /\ InWait(b)' \subseteq Procs
  BY DEF InWait
<1> QED
  BY <1>1, <1>2, FS_Subset

\* All who take part have come when as many have come as the barrier counts.
LEMMA AllHere ==
  ASSUME TInv, NEW S, S \subseteq Parties
  PROVE  /\ IsFiniteSet(S) /\ Cardinality(S) \in Nat
         /\ barriers[wnw_barrier].count = Cardinality(Parties)
         /\ Cardinality(S) <= Cardinality(Parties)
         /\ Cardinality(S) = Cardinality(Parties) => S = Parties
<1>1. IsFiniteSet(Unflagged(list, bad))
  <2>1. Unflagged(list, bad) \subseteq Threads
    BY DEF TInv, TypeOK, Unflagged
  <2> QED
    BY <2>1, FS_Subset
<1>2. Coord \notin Unflagged(list, bad)
  BY DEF TInv, TypeOK, Unflagged
<1>3. IsFiniteSet(Parties) /\ Cardinality(Parties) = Cardinality(Unflagged(list, bad)) + 1
  BY <1>1, <1>2, FS_AddElement DEF Parties
<1>4. IsFiniteSet(S) /\ Cardinality(S) <= Cardinality(Parties)
      /\ (Cardinality(S) = Cardinality(Parties) => S = Parties)
  BY <1>3, FS_Subset
<1>5. Cardinality(S) \in Nat
  BY <1>4, FS_CardinalityType
<1> QED
  BY <1>3, <1>4, <1>5 DEF TInv, Counted

\* p is inside wait() of b after the step, and b is as e says; it may take others out.
Moves(p, b, e) ==
  /\ p \in Procs /\ b \in Barriers /\ bar[p] = b /\ Exists(b) /\ e \in Barrier
  /\ at[p] \in {"enter", "wait"} /\ at'[p] \in {"wait", "sync", "out"}
  /\ at' \in [Procs -> {"none", "enter", "wait", "sync", "out"}]
  /\ \A q \in Procs \ {p} : at'[q] = at[q] \/ (at[q] = "sync" /\ at'[q] = "out" /\ bar[q] = b)
  /\ barriers' = [barriers EXCEPT ![b] = e]
  /\ e.inside = InSync(b)' /\ e.in_wait = Cardinality(InWait(b)') /\ e.count = barriers[b].count
  /\ UNCHANGED <<bar, lists, coord, threads, removing, threw>>

\* What such a step leaves alone.
LEMMA MovesKeep ==
  ASSUME TInv, NEW p, NEW b, NEW e, Moves(p, b, e), b = wnw_barrier => InCycle
  PROVE  /\ TypeOK' /\ ThreadsAgree' /\ RemovalsAgree' /\ BarriersAgree' /\ BarriersBounded'
         /\ Counted' /\ FlaggedIsListed' /\ NoException'
         /\ BadBarriers' = BadBarriers /\ Parties' = Parties /\ InCycle' = InCycle
         /\ \A t \in Threads : Calm(t) => Calm(t)'
         /\ \A q \in Procs, c \in Barriers : Pending(q, c)' => Pending(q, c)
         /\ b = wnw_barrier => ~Pending(p, b)'
         /\ \A c \in Barriers \ {b} : Held(c)' = Held(c) /\ barriers'[c] = barriers[c]
         /\ barriers'[b] = e /\ Held(b)' \subseteq Held(b) \cup {p}
<1> USE DEF TInv
<1>1. /\ p \in Procs /\ b \in Barriers /\ bar[p] = b /\ Exists(b) /\ e \in Barrier
      /\ at[p] \in {"enter", "wait"} /\ at'[p] \in {"wait", "sync", "out"}
      /\ at' \in [Procs -> {"none", "enter", "wait", "sync", "out"}]
      /\ \A q \in Procs \ {p} : at'[q] = at[q] \/ (at[q] = "sync" /\ at'[q] = "out" /\ bar[q] = b)
      /\ barriers' = [barriers EXCEPT ![b] = e]
      /\ e.inside = InSync(b)' /\ e.in_wait = Cardinality(InWait(b)') /\ e.count = barriers[b].count
  BY DEF Moves
<1>2. UNCHANGED <<bar, list, bad, wnw_barrier, wnw_bad_barriers, cpc, todo, pc, waiting_for_wakeup,
                  pending_wakeups, barrier_, cancelled, removing, threw>>
  BY DEF Moves, lists, coord, threads
<1>3. /\ InWait(b)' = InWait(b) \cup {p}
      /\ Held(b)' \subseteq Held(b) \cup {p}
      /\ \A c \in Barriers \ {b} : InSync(c)' = InSync(c) /\ InWait(c)' = InWait(c) /\ Held(c)' = Held(c)
  BY <1>1, <1>2, LeaveSets
<1>4. barriers'[b] = e /\ \A c \in Barriers \ {b} : barriers'[c] = barriers[c]
  BY <1>1 DEF TypeOK
<1>5. BadBarriers' = BadBarriers /\ Parties' = Parties /\ InCycle' = InCycle
  BY <1>2 DEF BadBarriers, Parties, InCycle, Unflagged
<1>6. \A t \in Threads : Calm(t) => Calm(t)'
  BY <1>1, <1>2 DEF Calm, Procs
<1>7. \A q \in Procs, c \in Barriers : Pending(q, c)' => Pending(q, c)
  BY <1>1, <1>2 DEF Pending
<1>7a. ASSUME b = wnw_barrier, Pending(p, b)' PROVE FALSE
  <2>1. p \in Threads /\ barrier_[p] # Null /\ p # Coord
    BY <1>1, <1>2, <1>7a DEF Pending
  <2>2. at[p] = "wait"
    BY <1>1, <2>1 DEF ThreadsAgree
  <2>3. p \in Entered
    BY <1>1, <1>7a, <2>2 DEF Round, Held
  <2> QED
    BY <1>7a, <2>1, <2>3 DEF Round, Calm
<1>8. TypeOK'
  BY <1>1, <1>2 DEF TypeOK
<1>9. ThreadsAgree'
  <2>1. \A q \in Procs : (at'[q] = "none" <=> at[q] = "none") /\ (at'[q] = "enter" => at[q] = "enter")
    BY <1>1
  <2> QED
    BY <1>2, <1>6, <2>1 DEF ThreadsAgree, Procs
<1>10. RemovalsAgree' /\ FlaggedIsListed' /\ NoException'
  BY <1>2, <1>5 DEF RemovalsAgree, FlaggedIsListed, NoException
<1>11. BarriersAgree'
  BY <1>1, <1>2, <1>3, OneBarrier
<1>12. BarriersBounded'
  <2>1. wnw_barrier # b => Deletable(wnw_barrier)' = Deletable(wnw_barrier)
    BY <1>2, <1>4 DEF Deletable, TypeOK
  <2> QED
    BY <1>2, <1>5, <2>1, FS_CardinalityType DEF BarriersBounded
<1>13. Counted'
  BY <1>1, <1>2, <1>4 DEF Counted, TypeOK, Unflagged
<1> QED
  BY <1>3, <1>4, <1>5, <1>6, <1>7, <1>7a, <1>8, <1>9, <1>10, <1>11, <1>12, <1>13

\* A step at a bad barrier is none of the cycle's.
LEMMA MovesElsewhere ==
  ASSUME TInv, NEW p, NEW b, NEW e, Moves(p, b, e), b # wnw_barrier
  PROVE  TInv'
<1>1. /\ TypeOK' /\ ThreadsAgree' /\ RemovalsAgree' /\ BarriersAgree' /\ BarriersBounded'
      /\ Counted' /\ FlaggedIsListed' /\ NoException'
      /\ BadBarriers' = BadBarriers /\ Parties' = Parties /\ InCycle' = InCycle
      /\ \A t \in Threads : Calm(t) => Calm(t)'
      /\ \A q \in Procs, c \in Barriers : Pending(q, c)' => Pending(q, c)
      /\ \A c \in Barriers \ {b} : Held(c)' = Held(c) /\ barriers'[c] = barriers[c]
  BY MovesKeep
<1> USE DEF TInv
<1>2. UNCHANGED <<bar, list, bad, wnw_barrier, wnw_bad_barriers, cpc, todo>>
  BY DEF Moves, lists, coord
<1>3. Coord \in Procs /\ at'[Coord] = at[Coord]
  <2>1. Coord \in Procs /\ p \in Procs /\ at[p] \in {"enter", "wait"} /\ bar[p] = b
        /\ \A q \in Procs \ {p} : at'[q] = at[q] \/ (at[q] = "sync" /\ bar[q] = b)
    BY DEF Moves, Procs
  <2>2. at[Coord] # "none" => bar[Coord] = wnw_barrier
    BY DEF ThreadsAgree, Round, InCycle
  <2> QED
    BY <2>1, <2>2
<1>4. barriers'[wnw_barrier] = barriers[wnw_barrier] /\ Held(wnw_barrier)' = Held(wnw_barrier)
  BY <1>1, <1>2 DEF TypeOK
<1>5. Entered' = Entered
  BY <1>2, <1>3, <1>4 DEF Entered
<1>6. Unflagged(list, bad)' = Unflagged(list, bad) /\ Unflagged(list, bad) \subseteq Threads
  BY <1>2 DEF Unflagged, TypeOK
<1>7. PendingKnown'
  BY <1>1, <1>2, <1>5 DEF PendingKnown
<1>8. Resting'
  BY <1>1, <1>2, <1>4, <1>6 DEF Resting, TypeOK
<1>9. Round'
  <2>1. InCycle => Entered \ {Coord} \subseteq Threads
    BY <1>6 DEF Round, Parties
  <2> QED
    BY <1>1, <1>2, <1>3, <1>4, <1>5, <1>6, <2>1 DEF Round
<1>10. InTime'
  BY <1>1, <1>2, <1>3, <1>4, <1>5 DEF InTime
<1> QED
  BY <1>1, <1>7, <1>8, <1>9, <1>10

\* A step of one who has come to the barrier of the cycle.
LEMMA MovesHere ==
  ASSUME TInv, NEW p, NEW b, NEW e, Moves(p, b, e), b = wnw_barrier, InCycle, p \in Parties \ todo,
         at[p] = "enter" \/ p \in Entered,
         Entered' = Entered \cup {p}, e.threads_left = e.count - Cardinality(Entered \cup {p}),
         InTime'
  PROVE  TInv'
<1>1. /\ TypeOK' /\ ThreadsAgree' /\ RemovalsAgree' /\ BarriersAgree' /\ BarriersBounded'
      /\ Counted' /\ FlaggedIsListed' /\ NoException'
      /\ BadBarriers' = BadBarriers /\ Parties' = Parties /\ InCycle' = InCycle
      /\ \A t \in Threads : Calm(t) => Calm(t)'
      /\ \A q \in Procs, c \in Barriers : Pending(q, c)' => Pending(q, c)
      /\ ~Pending(p, b)' /\ barriers'[b] = e /\ Held(b)' \subseteq Held(b) \cup {p}
  BY MovesKeep
<1> USE DEF TInv
<1>2. /\ UNCHANGED <<bar, list, bad, wnw_barrier, wnw_bad_barriers, cpc, todo>>
      /\ p \in Procs /\ at[p] \in {"enter", "wait"} /\ at'[p] \in {"wait", "sync", "out"}
      /\ \A q \in Procs \ {p} : at'[q] = at[q] \/ (at[q] = "sync" /\ at'[q] = "out")
      /\ UNCHANGED <<pending_wakeups, pc, barrier_>> /\ e.count = barriers[wnw_barrier].count
  BY DEF Moves, lists, coord, threads
<1>3. Unflagged(list, bad)' = Unflagged(list, bad) /\ Unflagged(list, bad) \subseteq Threads
  BY <1>2 DEF Unflagged, TypeOK
<1>4. p \in Threads => Calm(p)'
  <2>1. CASE at[p] = "enter"
    BY <1>2, <2>1 DEF ThreadsAgree, Calm
  <2>2. CASE p \in Entered
    BY <1>1, <2>2 DEF Round
  <2> QED
    BY <2>1, <2>2
<1>5. PendingKnown'
  <2> SUFFICES ASSUME NEW q \in Procs, NEW c \in Barriers, Pending(q, c)'
               PROVE  IF c = wnw_barrier THEN InCycle /\ q \in Parties \ (Entered \cup {p} \cup todo)
                                         ELSE c \in BadBarriers /\ q \in wnw_bad_barriers[c]
    BY <1>1, <1>2 DEF PendingKnown
  <2>1. Pending(q, c) /\ (c = wnw_barrier => q # p)
    BY <1>1, <1>2
  <2> QED
    BY <2>1 DEF PendingKnown
<1>6. Resting'
  BY <1>1, <1>2 DEF Resting, TypeOK
<1>7. Round'
  <2>1. Entered \ {Coord} \subseteq Threads
    BY <1>3 DEF Round, Parties
  <2>2. \A t \in Entered' \ {Coord} : Calm(t)'
    BY <1>1, <1>3, <1>4, <2>1 DEF Round, Parties
  <2>3. cpc = "waking" => p # Coord
    BY <1>2 DEF ThreadsAgree, Procs
  <2>4. cpc = "waiting" /\ at'[Coord] # "enter" => Coord \in Entered'
    BY <1>2 DEF Round, Procs
  <2> QED
    BY <1>1, <1>2, <1>3, <2>2, <2>3, <2>4 DEF Round
<1> QED
  BY <1>1, <1>5, <1>6, <1>7

LEMMA LeaveMoves ==
  ASSUME TInv, NEW p \in Procs, NEW b \in Barriers, bar[p] = b, at[p] \in {"enter", "wait"}, Exists(b),
         NEW e \in Barrier, e.inside = InSync(b), e.count = barriers[b].count,
         e.in_wait = Cardinality(InWait(b) \cup {p}), Leave(p, e),
         UNCHANGED <<bar, lists, coord, threads, removing, threw>>
  PROVE  \E f \in Barrier : /\ Moves(p, b, f) /\ f.threads_left = e.threads_left /\ f.timeout = e.timeout
                            /\ f.wait_at_barrier = e.wait_at_barrier /\ f.passed = e.passed
<1>1. /\ \E S : S = InSync(b)' /\ barriers' = [barriers EXCEPT ![b] = [e EXCEPT !.inside = S]]
      /\ at' \in [Procs -> {"none", "enter", "wait", "sync", "out"}]
      /\ at'[p] \in {"sync", "out"}
      /\ \A q \in Procs \ {p} : at'[q] = at[q] \/ (at[q] = "sync" /\ at'[q] = "out" /\ bar[q] = b)
  <2>1. TypeOK /\ UNCHANGED bar
    BY DEF TInv
  <2>2. Leaves(p, b, e)
    BY <2>1, LeaveEffect
  <2> QED
    BY <2>2 DEF Leaves
<1>2. InWait(b)' = InWait(b) \cup {p}
  BY <1>1, LeaveSets DEF TInv
<1>3. PICK S : S = InSync(b)' /\ barriers' = [barriers EXCEPT ![b] = [e EXCEPT !.inside = S]]
  BY <1>1
<1>4. S \subseteq Procs
  BY <1>3 DEF InSync
<1>5. PICK f : f = [e EXCEPT !.inside = S]
  OBVIOUS
<1>6. /\ f \in Barrier /\ f.inside = S /\ f.count = e.count /\ f.in_wait = e.in_wait
      /\ f.threads_left = e.threads_left /\ f.timeout = e.timeout
      /\ f.wait_at_barrier = e.wait_at_barrier /\ f.passed = e.passed
  BY <1>4, <1>5 DEF Barrier
<1>7. Moves(p, b, f)
  BY <1>1, <1>2, <1>3, <1>5, <1>6 DEF Moves
<1> QED
  BY <1>6, <1>7

\* Who leaves the barrier of the cycle in time leaves with all.
LEMMA AllLeave ==
  ASSUME TInv, NEW b \in Barriers, b = wnw_barrier, NEW p \in Procs, NEW S,
         Cardinality(InSync(b) \cup {p}) = barriers[b].count,
         \A r \in InSync(b) \cup {p} : at'[r] = "out",
         InCycle, p \in Parties, S = Entered \cup {p}, UNCHANGED bar,
         Held(b)' \subseteq Held(b) \cup {p}
  PROVE  S = Parties /\ Held(b)' = {}
<1>1. InSync(b) \cup {p} \subseteq S /\ Held(b)' \subseteq S /\ S \subseteq Parties
  BY DEF TInv, Round, InSync, Held
<1>2. InSync(b) \cup {p} = Parties
  BY <1>1, AllHere
<1>3. \A r \in Held(b)' : at'[r] # "out"
  BY DEF Held
<1> QED
  BY <1>1, <1>2, <1>3

\* p need not wait any longer.
LEMMA PassStep ==
  ASSUME TInv, NEW p \in Procs, Pass(p)
  PROVE  TInv'
<1>1. PICK b \in Barriers : b = bar[p]
  BY DEF TInv, Pass, ThreadsAgree, TypeOK
<1>2. PICK e : e = barriers[b]
  OBVIOUS
<1>3. /\ at[p] = "wait" /\ Exists(b) /\ e \in Barrier /\ e.inside = InSync(b)
      /\ (e.threads_left = 0 \/ e.timeout) /\ Leave(p, e) /\ p \in InWait(b) /\ p \in Held(b)
      /\ e.in_wait = Cardinality(InWait(b))
      /\ UNCHANGED <<bar, lists, coord, threads, removing, threw>>
  <2>1. at[p] = "wait" /\ (e.threads_left = 0 \/ e.timeout) /\ Leave(p, e)
        /\ UNCHANGED <<bar, lists, coord, threads, removing, threw>>
    BY <1>1, <1>2 DEF Pass
  <2>2. Exists(b) /\ p \in InWait(b) /\ p \in Held(b)
    BY <1>1, <2>1 DEF TInv, BarriersAgree, InWait, Held
  <2>3. e \in Barrier /\ e.inside = InSync(b) /\ e.in_wait = Cardinality(InWait(b))
    BY <1>2, <2>2 DEF TInv, BarriersAgree, TypeOK, Exists
  <2> QED
    BY <2>1, <2>2, <2>3
<1>4. InWait(b) \cup {p} = InWait(b)
  BY <1>3
<1>5. PICK f \in Barrier : /\ Moves(p, b, f) /\ f.threads_left = e.threads_left /\ f.timeout = e.timeout
                           /\ f.wait_at_barrier = e.wait_at_barrier /\ f.passed = e.passed
  BY <1>1, <1>2, <1>3, <1>4, LeaveMoves
<1>6. CASE b # wnw_barrier
  BY <1>5, <1>6, MovesElsewhere
<1>7. CASE b = wnw_barrier
  <2>1. InCycle /\ p \in Entered /\ p \in Parties \ todo
    BY <1>3, <1>7 DEF TInv, Resting, Round
  <2>2. /\ barriers'[b] = f /\ Held(b)' \subseteq Held(b) \cup {p} /\ Parties' = Parties
        /\ f.count = e.count /\ wnw_barrier' = b /\ cpc' = cpc
        /\ at'[Coord] = "enter" <=> at[Coord] = "enter"
    <3>1. barriers'[b] = f /\ Held(b)' \subseteq Held(b) \cup {p} /\ Parties' = Parties
      <4>1. TInv /\ Moves(p, b, f) /\ (b = wnw_barrier => InCycle)
        BY <1>5, <2>1
      <4> QED
        BY <4>1, MovesKeep
    <3>2. f.count = e.count /\ wnw_barrier' = b /\ cpc' = cpc
      BY <1>2, <1>5, <1>7 DEF Moves, lists, coord
    <3>3. at'[Coord] = "enter" <=> at[Coord] = "enter"
      BY <1>3, <1>5 DEF Moves, Procs
    <3> QED
      BY <3>1, <3>2, <3>3
  <2>3. Entered' = Entered /\ Entered = Entered \cup {p}
    BY <1>2, <1>5, <1>7, <2>1, <2>2 DEF Entered
  <2>4. f.threads_left = f.count - Cardinality(Entered)
    BY <1>2, <1>5, <1>7, <2>1, <2>2 DEF TInv, Round
  <2>5. InTime'
    <3>1. at'[Coord] = "wait" => at[Coord] = "wait"
      BY <1>3, <1>5 DEF Moves, Procs
    <3>2. ASSUME at'[Coord] = "out", ~f.timeout PROVE Entered = Parties /\ Held(b)' = {}
      <4>1. at[Coord] # "out"
        BY <1>2, <1>3, <1>5, <1>7, <3>2 DEF TInv, InTime
      <4>2. p = Coord => e.wait_at_barrier
        BY <1>2, <1>3, <1>5, <1>7, <3>2 DEF TInv, InTime
      <4>3. /\ Cardinality(InSync(b) \cup {p}) = e.count
            /\ \A r \in InSync(b) \cup {p} : at'[r] = "out"
        <5>1. Leaves(p, b, e)
          BY <1>1, <1>3, LeaveEffect DEF TInv
        <5> QED
          BY <3>2, <4>1, <4>2, <5>1 DEF Procs, Leaves
      <4> QED
        BY <1>2, <1>3, <1>7, <2>1, <2>2, <2>3, <4>3, AllLeave
    <3> QED
      BY <1>2, <1>5, <1>7, <2>2, <2>3, <3>1, <3>2 DEF TInv, InTime
  <2> QED
    BY <1>5, <1>7, <2>1, <2>3, <2>4, <2>5, MovesHere
<1> QED
  BY <1>6, <1>7

\* The coordinator's time is over.
LEMMA TimeOutStep ==
  ASSUME TInv, TimeOut
  PROVE  TInv'
<1>0. Coord \in Procs
  BY DEF Procs
<1>1. PICK b \in Barriers : b = bar[Coord]
  BY <1>0 DEF TInv, TimeOut, ThreadsAgree, TypeOK
<1>2. PICK e : e = [barriers[b] EXCEPT !.timeout = TRUE]
  OBVIOUS
<1>3. /\ at[Coord] = "wait" /\ b = wnw_barrier /\ Leave(Coord, e) /\ InCycle
      /\ UNCHANGED <<bar, lists, coord, threads, removing, threw>>
  <2>1. at[Coord] = "wait" /\ Leave(Coord, e)
        /\ UNCHANGED <<bar, lists, coord, threads, removing, threw>>
    BY <1>1, <1>2 DEF TimeOut
  <2>2. cpc = "waiting" /\ InCycle
    BY <2>1 DEF TInv, ThreadsAgree, InCycle
  <2> QED
    BY <1>1, <2>1, <2>2 DEF TInv, Round
<1>4. Exists(b) /\ Coord \in InWait(b) /\ Coord \in Held(b) /\ barriers[b] \in Barrier
  <2>1. Exists(b) /\ Coord \in InWait(b) /\ Coord \in Held(b)
    BY <1>0, <1>1, <1>3 DEF TInv, BarriersAgree, InWait, Held
  <2> QED
    BY <2>1 DEF TInv, TypeOK, Exists
<1>5. /\ e \in Barrier /\ e.inside = InSync(b) /\ e.in_wait = Cardinality(InWait(b) \cup {Coord})
      /\ e.count = barriers[b].count /\ e.threads_left = barriers[b].threads_left
      /\ e.passed = barriers[b].passed /\ e.wait_at_barrier = barriers[b].wait_at_barrier /\ e.timeout
  <2>1. InWait(b) \cup {Coord} = InWait(b)
    BY <1>4
  <2>2. barriers[b].inside = InSync(b) /\ barriers[b].in_wait = Cardinality(InWait(b))
    BY <1>4 DEF TInv, BarriersAgree
  <2> QED
    BY <1>2, <1>4, <2>1, <2>2 DEF Barrier
<1>6. PICK f \in Barrier : /\ Moves(Coord, b, f) /\ f.threads_left = e.threads_left /\ f.timeout = e.timeout
                           /\ f.wait_at_barrier = e.wait_at_barrier /\ f.passed = e.passed
  BY <1>0, <1>1, <1>3, <1>4, <1>5, LeaveMoves
<1>7. Coord \in Entered /\ Coord \in Parties \ todo
  BY <1>3, <1>4 DEF TInv, Round
<1>8. /\ barriers'[b] = f /\ f.count = barriers[b].count /\ wnw_barrier' = b /\ cpc' = cpc
      /\ at'[Coord] \in {"wait", "sync", "out"} /\ at'[Coord] # "wait"
  <2>1. barriers'[b] = f
    BY <1>6 DEF Moves, TInv, TypeOK
  <2>2. f.count = barriers[b].count /\ wnw_barrier' = b /\ cpc' = cpc
        /\ at'[Coord] \in {"wait", "sync", "out"}
    BY <1>3, <1>6 DEF Moves, lists, coord
  <2>3. Leaves(Coord, b, e)
    BY <1>0, <1>1, <1>3, <1>5, LeaveEffect DEF TInv
  <2>4. at'[Coord] # "wait"
    BY <2>3 DEF Leaves
  <2> QED
    BY <2>1, <2>2, <2>4
<1>9. Entered' = Entered /\ Entered = Entered \cup {Coord}
  BY <1>3, <1>5, <1>6, <1>7, <1>8 DEF Entered
<1>10. f.threads_left = f.count - Cardinality(Entered)
  BY <1>3, <1>5, <1>6, <1>7, <1>8 DEF TInv, Round
<1>11. InTime'
  BY <1>5, <1>6, <1>8 DEF InTime
<1> QED
  BY <1>3, <1>6, <1>7, <1>9, <1>10, <1>11, MovesHere

\* p comes to the barrier.
LEMMA EnterStep ==
  ASSUME TInv, NEW p \in Procs, Enter(p)
  PROVE  TInv'
<1>1. PICK b \in Barriers : b = bar[p]
  BY DEF TInv, Enter, ThreadsAgree, TypeOK
<1>2. PICK o : o = barriers[b]
  OBVIOUS
<1>3. at[p] = "enter" /\ Pending(p, b)
  BY <1>1 DEF Enter, Pending
<1>4. /\ Exists(b) /\ o \in Barrier
      /\ b = wnw_barrier => InCycle /\ p \in Parties \ (Entered \cup todo)
  <2>1. /\ b = wnw_barrier \/ b \in BadBarriers
        /\ b = wnw_barrier => InCycle /\ p \in Parties \ (Entered \cup todo)
    BY <1>3 DEF TInv, PendingKnown
  <2>2. Exists(b)
    BY <2>1 DEF TInv, BarriersAgree
  <2> QED
    BY <1>2, <2>1, <2>2 DEF TInv, TypeOK, Exists
<1>5. PICK left \in Nat : left = (IF o.threads_left = 0 THEN o.count ELSE o.threads_left) - 1
  <2>1. o.count \in Nat \ {0} /\ o.threads_left \in Nat
    BY <1>4 DEF Barrier
  <2> QED
    BY <2>1
<1>6. PICK e : e = [o EXCEPT !.threads_left = left,
                             !.timeout = @ /\ ~(o.threads_left = 0),
                             !.wait_at_barrier = left = 0 \/ (@ /\ ~(o.threads_left = 0)),
                             !.passed = (IF o.threads_left = 0 THEN {} ELSE @) \cup {p},
                             !.in_wait = @ + 1]
  OBVIOUS
<1>7. /\ e \in Barrier /\ e.inside = o.inside /\ e.count = o.count /\ e.threads_left = left
      /\ e.in_wait = o.in_wait + 1
      /\ e.timeout = (o.timeout /\ ~(o.threads_left = 0)) /\ (left = 0 => e.wait_at_barrier)
      /\ e.passed = (IF o.threads_left = 0 THEN {} ELSE o.passed) \cup {p}
  <2>1. o.timeout \in BOOLEAN /\ o.wait_at_barrier \in BOOLEAN /\ o.passed \in SUBSET Procs
        /\ o.in_wait \in Nat
    BY <1>4 DEF Barrier
  <2>2. PICK x \in BOOLEAN : x = (o.timeout /\ ~(o.threads_left = 0))
    OBVIOUS
  <2>3. PICK y \in BOOLEAN : y = (left = 0 \/ (o.wait_at_barrier /\ ~(o.threads_left = 0)))
    OBVIOUS
  <2>4. PICK z \in SUBSET Procs : z = (IF o.threads_left = 0 THEN {} ELSE o.passed) \cup {p}
    BY <2>1
  <2>5. e = [o EXCEPT !.threads_left = left, !.timeout = x, !.wait_at_barrier = y, !.passed = z,
                      !.in_wait = o.in_wait + 1]
    BY <1>6, <2>2, <2>3, <2>4
  <2>6. /\ e \in Barrier /\ e.inside = o.inside /\ e.count = o.count /\ e.threads_left = left
        /\ e.in_wait = o.in_wait + 1 /\ e.timeout = x /\ e.wait_at_barrier = y /\ e.passed = z
    <3>1. e = [count |-> o.count, threads_left |-> left, timeout |-> x, wait_at_barrier |-> y,
               in_wait |-> o.in_wait + 1, passed |-> z, inside |-> o.inside]
      BY <1>4, <2>5 DEF Barrier
    <3>2. o.count \in Nat \ {0} /\ o.in_wait + 1 \in Nat /\ o.inside \in SUBSET Procs
      BY <1>4 DEF Barrier
    <3>3. e \in Barrier
      BY <2>2, <2>3, <2>4, <1>5, <3>1, <3>2 DEF Barrier
    <3> QED
      BY <3>1, <3>3
  <2> QED
    BY <2>2, <2>3, <2>4, <2>6
<1>8. UNCHANGED <<bar, lists, coord, threads, removing, threw>>
  BY DEF Enter
<1>9. IF left = 0 THEN Leave(p, e)
                  ELSE barriers' = [barriers EXCEPT ![b] = e] /\ at' = [at EXCEPT ![p] = "wait"]
  BY <1>1, <1>2, <1>5, <1>6 DEF Enter
<1>10. o.inside = InSync(b) /\ e.in_wait = Cardinality(InWait(b) \cup {p})
  <2>1. o.inside = InSync(b) /\ o.in_wait = Cardinality(InWait(b))
    BY <1>2, <1>4 DEF TInv, BarriersAgree
  <2>2. p \notin InWait(b)
    BY <1>3 DEF InWait
  <2> QED
    <3>1. IsFiniteSet(InWait(b))
      BY InWaitFinite
    <3>2. Cardinality(InWait(b) \cup {p}) = Cardinality(InWait(b)) + 1
      BY <2>2, <3>1, FS_AddElement
    <3> QED
      BY <1>7, <2>1, <3>2
<1>11. PICK f \in Barrier : /\ Moves(p, b, f) /\ f.threads_left = e.threads_left /\ f.timeout = e.timeout
                            /\ f.wait_at_barrier = e.wait_at_barrier /\ f.passed = e.passed
  <2>1. CASE left = 0
    BY <1>1, <1>2, <1>3, <1>4, <1>7, <1>8, <1>9, <1>10, <2>1, LeaveMoves
  <2>2. CASE left # 0
    <3>1. barriers' = [barriers EXCEPT ![b] = e] /\ at' = [at EXCEPT ![p] = "wait"]
      BY <1>9, <2>2
    <3>2. at' \in [Procs -> {"none", "enter", "wait", "sync", "out"}] /\ at'[p] = "wait"
          /\ \A q \in Procs \ {p} : at'[q] = at[q]
      BY <3>1 DEF TInv, TypeOK
    <3>3. InSync(b)' = InSync(b) /\ InWait(b)' = InWait(b) \cup {p}
      BY <1>1, <1>3, <1>8, <3>2 DEF InSync, InWait
    <3>4. Moves(p, b, e)
      BY <1>1, <1>2, <1>3, <1>4, <1>7, <1>8, <1>10, <3>1, <3>2, <3>3 DEF Moves
    <3> QED
      BY <1>7, <3>4
  <2> QED
    BY <2>1, <2>2
<1>12. CASE b # wnw_barrier
  BY <1>11, <1>12, MovesElsewhere
<1>13. CASE b = wnw_barrier
  <2>1. InCycle /\ p \in Parties \ (Entered \cup todo)
    BY <1>4, <1>13
  <2>2. /\ Entered \subseteq Parties
        /\ o.threads_left = IF Entered = {} THEN 0 ELSE o.count - Cardinality(Entered)
        /\ o.threads_left \in Nat /\ o.count \in Nat
    BY <1>2, <1>4, <1>13, <2>1 DEF TInv, Round, Barrier
  <2>3. o.threads_left = 0 <=> Entered = {}
    <3>1. Cardinality(Entered) \in Nat /\ o.count = Cardinality(Parties)
          /\ (Cardinality(Entered) = Cardinality(Parties) => Entered = Parties)
      BY <1>2, <1>13, <2>2, AllHere
    <3>2. Cardinality(Entered) # o.count
      BY <2>1, <3>1
    <3> QED
      BY <2>2, <3>1, <3>2
  <2>4. e.passed = Entered \cup {p}
    <3>1. o.threads_left # 0 => Entered = o.passed
      BY <1>2, <1>13 DEF Entered
    <3> QED
      BY <1>7, <2>3, <3>1
  <2>5. /\ left = o.count - Cardinality(Entered \cup {p})
        /\ left = 0 => Entered \cup {p} = Parties
    <3>1. IsFiniteSet(Entered) /\ Cardinality(Entered) \in Nat
      BY <2>2, AllHere
    <3>2. Cardinality(Entered \cup {p}) = Cardinality(Entered) + 1
      BY <2>1, <3>1, FS_AddElement
    <3>3. Entered = {} => Cardinality(Entered) = 0
      BY FS_EmptySet
    <3>4. left = o.count - Cardinality(Entered \cup {p})
      BY <1>5, <2>2, <2>3, <3>1, <3>2, <3>3
    <3>5. o.count = Cardinality(Parties) /\ Cardinality(Entered \cup {p}) \in Nat
          /\ (Cardinality(Entered \cup {p}) = Cardinality(Parties) => Entered \cup {p} = Parties)
      BY <1>2, <1>13, <2>1, <2>2, AllHere
    <3> QED
      BY <2>2, <3>4, <3>5
  <2>6. /\ barriers'[b] = f /\ f.count = o.count /\ wnw_barrier' = b /\ cpc' = cpc
        /\ at'[p] \in {"wait", "sync", "out"} /\ Coord \in Procs
        /\ \A q \in Procs \ {p} : at'[q] = at[q] \/ (at[q] = "sync" /\ at'[q] = "out")
    <3>1. barriers'[b] = f
      BY <1>11 DEF Moves, TInv, TypeOK
    <3> QED
      BY <1>2, <1>11, <1>13, <3>1 DEF Moves, lists, coord, Procs
  <2>7. Held(b)' \subseteq Held(b) \cup {p} /\ Parties' = Parties
    <3>1. TInv /\ Moves(p, b, f) /\ (b = wnw_barrier => InCycle)
      BY <1>11, <2>1
    <3> QED
      BY <3>1, MovesKeep
  <2>8. Entered' = Entered \cup {p}
    <3>1. ASSUME left = 0 PROVE cpc # "waking" /\ at'[Coord] # "enter"
      <4>1. CASE p = Coord
        BY <1>3, <2>6, <4>1 DEF TInv, ThreadsAgree
      <4>2. CASE p # Coord
        <5>1. Coord \in Entered
          BY <2>5, <3>1, <4>2 DEF Parties
        <5>2. cpc # "waking"
          BY <2>1, <5>1 DEF TInv, Round
        <5>3. ASSUME at[Coord] = "enter" PROVE FALSE
          <6>1. Pending(Coord, b)
            BY <1>13, <2>1, <5>3 DEF TInv, Pending, ThreadsAgree, Round
          <6> QED
            BY <1>13, <2>6, <5>1, <6>1 DEF TInv, PendingKnown
        <5> QED
          BY <2>6, <4>2, <5>2, <5>3
      <4> QED
        BY <4>1, <4>2
    <3> QED
      BY <1>7, <1>11, <2>4, <2>6, <3>1 DEF Entered
  <2>9. InTime'
    <3>1. ASSUME at'[Coord] = "out", ~f.timeout PROVE Entered \cup {p} = Parties /\ Held(b)' = {}
      <4>1. at[Coord] # "out"
        <5> SUFFICES ASSUME at[Coord] = "out" PROVE FALSE
          OBVIOUS
        <5>1. Coord \in Entered
          BY <2>1 DEF TInv, ThreadsAgree, Round
        <5>2. ~o.timeout
          BY <1>7, <1>11, <2>3, <3>1, <5>1
        <5> QED
          BY <1>2, <1>13, <2>1, <5>2 DEF TInv, InTime
      <4>2. left = 0
        BY <1>9, <2>6, <3>1, <4>1 DEF TInv, TypeOK
      <4>3. /\ Cardinality(InSync(b) \cup {p}) = e.count
            /\ \A r \in InSync(b) \cup {p} : at'[r] = "out"
        <5>1. Leaves(p, b, e)
          BY <1>1, <1>3, <1>7, <1>8, <1>9, <1>10, <4>2, LeaveEffect DEF TInv
        <5> QED
          BY <1>7, <2>6, <3>1, <4>1, <4>2, <5>1 DEF Leaves
      <4>4. PICK S : S = Entered \cup {p}
        OBVIOUS
      <4>5. S = Parties /\ Held(b)' = {}
        BY <1>2, <1>7, <1>8, <1>13, <2>1, <2>7, <4>3, <4>4, AllLeave
      <4> QED
        BY <4>4, <4>5
    <3> QED
      BY <1>7, <1>11, <1>13, <2>6, <2>7, <2>8, <3>1 DEF InTime
  <2> QED
    BY <1>3, <1>7, <1>11, <1>13, <2>1, <2>5, <2>6, <2>8, <2>9, MovesHere
<1> QED
  BY <1>12, <1>13

\* wait() returns because p is too late.
LEMMA EnterLateStep ==
  ASSUME TInv, NEW p \in Threads, EnterLate(p)
  PROVE  TInv'
<1> USE DEF TInv
<1>1. /\ at[p] = "enter" /\ p \in Procs /\ p # Coord /\ Coord \in Procs /\ pc[p] = "atbarrier"
      /\ at' = [at EXCEPT ![p] = "none"] /\ bar' = [bar EXCEPT ![p] = Null]
      /\ pc' = [pc EXCEPT ![p] = "presleep"]
      /\ UNCHANGED <<barriers, list, bad, wnw_barrier, wnw_bad_barriers, cpc, todo, waiting_for_wakeup,
                     pending_wakeups, barrier_, cancelled, removing, threw>>
  BY DEF EnterLate, Goto, lists, coord, Procs, ThreadsAgree
<1>2. /\ at'[p] = "none" /\ bar'[p] = Null
      /\ \A q \in Procs \ {p} : at'[q] = at[q] /\ bar'[q] = bar[q]
  BY <1>1 DEF TypeOK
<1>3. \A c : InSync(c)' = InSync(c) /\ InWait(c)' = InWait(c) /\ Held(c)' = Held(c)
  BY <1>1, <1>2 DEF InSync, InWait, Held
<1>4. Parties' = Parties /\ Entered' = Entered /\ BadBarriers' = BadBarriers
      /\ InCycle' = InCycle /\ Unflagged(list, bad)' = Unflagged(list, bad)
  BY <1>1, <1>2 DEF Parties, Entered, BadBarriers, InCycle, Unflagged
<1>5. \A t \in Threads : Calm(t) => Calm(t)'
  BY <1>1, <1>2 DEF Calm, Procs, TypeOK
<1>6. \A q \in Procs, c \in Barriers : Pending(q, c)' => Pending(q, c)
  BY <1>1, <1>2 DEF Pending, TypeOK
<1>7. TypeOK'
  BY <1>1 DEF TypeOK
<1>8. ThreadsAgree'
  BY <1>1, <1>2, <1>5 DEF ThreadsAgree, TypeOK, Procs
<1>9. RemovalsAgree' /\ FlaggedIsListed' /\ NoException' /\ Counted'
  BY <1>1, <1>4 DEF RemovalsAgree, TypeOK, FlaggedIsListed, NoException, Counted
<1>10. BarriersAgree'
  BY <1>1, <1>2, <1>3, BarriersKept
<1>11. BarriersBounded'
  BY <1>1, <1>4 DEF BarriersBounded, Deletable
<1>12. PendingKnown'
  BY <1>1, <1>4, <1>6 DEF PendingKnown
<1>13. Resting'
  BY <1>1, <1>3, <1>4, <1>5 DEF Resting, Unflagged, TypeOK
<1>14. Round'
  <2>1. InCycle => Entered \ {Coord} \subseteq Threads
    BY DEF Round, Parties, Unflagged, TypeOK
  <2> QED
    BY <1>1, <1>2, <1>3, <1>4, <1>5, <2>1 DEF Round
<1>15. InTime'
  BY <1>1, <1>2, <1>3, <1>4 DEF InTime
<1> QED
  BY <1>7, <1>8, <1>9, <1>10, <1>11, <1>12, <1>13, <1>14, <1>15

\* wait() returns, and the coordinator is told whether all had come.
LEMMA OutStep ==
  ASSUME TInv, NEW p \in Procs, Out(p)
  PROVE  TInv'
<1> USE DEF TInv
<1>1. PICK b \in Barriers : b = bar[p]
  BY DEF Out, ThreadsAgree, TypeOK
<1>2. PICK o : o = barriers[b]
  OBVIOUS
<1>3. /\ at[p] = "out" /\ Coord \in Procs
      /\ at' = [at EXCEPT ![p] = "none"] /\ bar' = [bar EXCEPT ![p] = Null]
      /\ barriers' = [barriers EXCEPT ![b] = [o EXCEPT !.in_wait = @ - 1]]
      /\ UNCHANGED <<list, bad, wnw_barrier, wnw_bad_barriers, todo, waiting_for_wakeup,
                     pending_wakeups, barrier_, cancelled, removing, threw>>
  BY <1>1, <1>2 DEF Out, lists, Procs
<1>4. /\ p = Coord => pc' = pc /\ cpc' = IF o.timeout THEN "late" ELSE "gap"
      /\ p # Coord => pc' = [pc EXCEPT ![p] = "presleep"] /\ cpc' = cpc
  BY <1>1, <1>2 DEF Out, Goto
<1>5. /\ at'[p] = "none" /\ bar'[p] = Null
      /\ \A q \in Procs \ {p} : at'[q] = at[q] /\ bar'[q] = bar[q]
  BY <1>3 DEF TypeOK
<1>6. Exists(b) /\ o \in Barrier /\ o.inside = InSync(b) /\ o.in_wait = Cardinality(InWait(b))
  <2>1. Exists(b)
    BY <1>1, <1>3 DEF BarriersAgree
  <2> QED
    BY <1>2, <2>1 DEF BarriersAgree, TypeOK, Exists
<1>7. /\ InWait(b)' = InWait(b) \ {p} /\ p \in InWait(b)
      /\ \A c \in Barriers \ {b} : InWait(c)' = InWait(c)
      /\ \A c \in Barriers : InSync(c)' = InSync(c) /\ Held(c)' = Held(c)
  BY <1>1, <1>3, <1>5 DEF InWait, InSync, Held
<1>8. Cardinality(InWait(b)') = o.in_wait - 1 /\ o.in_wait - 1 \in Nat
  <2>1. IsFiniteSet(InWait(b)) /\ IsFiniteSet(InWait(b)')
    BY InWaitFinite
  <2>2. Cardinality(InWait(b) \ {p}) = Cardinality(InWait(b)) - 1
    BY <1>7, <2>1, FS_RemoveElement
  <2>3. Cardinality(InWait(b)') \in Nat
    BY <2>1, FS_CardinalityType
  <2> QED
    BY <1>6, <1>7, <2>2, <2>3
<1>9. PICK e : e = [o EXCEPT !.in_wait = @ - 1]
  OBVIOUS
<1>10. /\ e \in Barrier /\ e.inside = o.inside /\ e.in_wait = o.in_wait - 1 /\ e.count = o.count
       /\ e.threads_left = o.threads_left /\ e.passed = o.passed /\ e.timeout = o.timeout
       /\ e.wait_at_barrier = o.wait_at_barrier
  BY <1>6, <1>8, <1>9 DEF Barrier
<1>11. barriers' = [barriers EXCEPT ![b] = e] /\ barriers'[b] = e
       /\ \A c \in Barriers \ {b} : barriers'[c] = barriers[c]
  BY <1>3, <1>9 DEF TypeOK
<1>12. BarriersAgree'
  <2>1. /\ e.inside = InSync(b)' /\ e.in_wait = Cardinality(InWait(b)')
        /\ \A c \in Barriers \ {b} : InSync(c)' = InSync(c) /\ InWait(c)' = InWait(c)
        /\ UNCHANGED <<wnw_barrier, wnw_bad_barriers>>
    BY <1>3, <1>6, <1>7, <1>8, <1>10
  <2>2. \A q \in Procs : at'[q] \in {"wait", "sync", "out"} => bar'[q] = bar[q] /\
                            (at[q] \in {"wait", "sync", "out"} \/ bar[q] = b)
    BY <1>5
  <2> QED
    BY <1>6, <1>10, <1>11, <2>1, <2>2, OneBarrier
<1>13. Parties' = Parties /\ BadBarriers' = BadBarriers /\ Unflagged(list, bad)' = Unflagged(list, bad)
       /\ Unflagged(list, bad) \subseteq Threads
  BY <1>3 DEF Parties, BadBarriers, Unflagged, TypeOK
<1>14. /\ barriers'[wnw_barrier].threads_left = barriers[wnw_barrier].threads_left
       /\ barriers'[wnw_barrier].passed = barriers[wnw_barrier].passed
       /\ barriers'[wnw_barrier].count = barriers[wnw_barrier].count
       /\ barriers'[wnw_barrier].timeout = barriers[wnw_barrier].timeout
       /\ barriers'[wnw_barrier].wait_at_barrier = barriers[wnw_barrier].wait_at_barrier
  BY <1>2, <1>10, <1>11 DEF TypeOK
<1>15. \A t \in Threads : Calm(t) => Calm(t)'
  BY <1>3, <1>4, <1>5 DEF Calm, Procs, TypeOK
<1>16. \A q \in Procs, c \in Barriers : Pending(q, c)' => Pending(q, c)
  <2>1. \A q \in Threads : pc'[q] # "exited" => pc[q] # "exited"
    BY <1>3, <1>4 DEF ThreadsAgree, TypeOK
  <2> QED
    BY <1>3, <1>5, <2>1 DEF Pending
<1>17. TypeOK'
  BY <1>3, <1>4, <1>10, <1>11 DEF TypeOK, Procs
<1>18. at[Coord] # "none" <=> cpc = "waiting"
  BY DEF ThreadsAgree
<1>19. ThreadsAgree'
  BY <1>3, <1>4, <1>5, <1>15 DEF ThreadsAgree, TypeOK, Procs
<1>20. InCycle' => InCycle
  BY <1>3, <1>4, <1>18 DEF InCycle
<1>21. RemovalsAgree' /\ FlaggedIsListed' /\ NoException' /\ Counted'
  <2>1. \A t \in Threads : (pc[t] = "exited") = (pc'[t] = "exited")
    BY <1>3, <1>4 DEF ThreadsAgree, TypeOK
  <2> QED
    BY <1>3, <1>13, <1>14, <1>20, <2>1 DEF RemovalsAgree, FlaggedIsListed, NoException, Counted
<1>22. BarriersBounded'
  <2>1. ASSUME Deletable(wnw_barrier) PROVE Deletable(wnw_barrier)'
    <3>1. b # wnw_barrier
      BY <1>2, <1>8, <2>1 DEF Deletable
    <3> QED
      BY <1>3, <1>11, <2>1, <3>1 DEF Deletable, TypeOK
  <2> QED
    BY <1>3, <1>13, <1>20, <2>1 DEF BarriersBounded
<1>23. CASE p = Coord /\ ~o.timeout
  <2>1. cpc = "waiting" /\ cpc' = "gap" /\ InCycle /\ ~InCycle' /\ todo = {}
    BY <1>3, <1>4, <1>18, <1>23 DEF InCycle, Resting
  <2>2. b = wnw_barrier /\ Entered = Parties /\ Held(b)' = {} /\ wnw_barrier' = b
    <3>1. b = wnw_barrier
      BY <1>1, <1>23, <2>1 DEF Round
    <3> QED
      BY <1>2, <1>3, <1>7, <1>23, <3>1 DEF InTime
  <2>3. o.threads_left = 0
    <3>1. o.count = Cardinality(Parties) /\ Cardinality(Parties) \in Nat
      BY <1>2, <2>2, AllHere
    <3>2. Parties # {}
      BY DEF Parties
    <3> QED
      BY <1>2, <2>1, <2>2, <3>1, <3>2 DEF Round
  <2>4. PendingKnown'
    BY <1>3, <1>13, <1>16, <2>2 DEF PendingKnown
  <2>5. Resting'
    <3>1. \A t \in Unflagged(list, bad) : Calm(t)
      BY <1>13, <2>1, <2>2 DEF Round, Parties
    <3> QED
      BY <1>3, <1>10, <1>11, <1>13, <1>15, <2>1, <2>2, <2>3, <3>1 DEF Resting
  <2>6. Round' /\ InTime'
    BY <1>5, <1>23, <2>1 DEF Round, InTime
  <2> QED
    BY <1>12, <1>17, <1>19, <1>21, <1>22, <2>4, <2>5, <2>6
<1>24. CASE p # Coord \/ o.timeout
  <2>1. /\ InCycle' = InCycle /\ (p # Coord => cpc' = cpc /\ at'[Coord] = at[Coord])
        /\ p = Coord => cpc = "waiting" /\ cpc' = "late" /\ todo = {}
    BY <1>3, <1>4, <1>5, <1>18, <1>24 DEF InCycle, Resting
  <2>2. Entered' = Entered
    BY <1>3, <1>5, <1>14, <2>1 DEF Entered
  <2>3. PendingKnown'
    BY <1>3, <1>13, <1>16, <2>1, <2>2 DEF PendingKnown
  <2>4. wnw_barrier \in Barriers
    BY DEF TypeOK
  <2>5. Resting'
    BY <1>3, <1>7, <1>13, <1>14, <1>15, <2>1, <2>4 DEF Resting, TypeOK
  <2>6. Round'
    <3>1. InCycle => Entered \ {Coord} \subseteq Threads
      BY <1>13 DEF Round, Parties
    <3>2. cpc' = "waiting" => p # Coord /\ bar'[Coord] = bar[Coord]
      BY <1>3, <1>5, <2>1
    <3>3. cpc' = "waking" => cpc = "waking"
      BY <2>1
    <3> QED
      BY <1>3, <1>7, <1>13, <1>14, <1>15, <2>1, <2>2, <2>4, <3>1, <3>2, <3>3 DEF Round
  <2>7. InTime'
    BY <1>3, <1>5, <1>7, <1>13, <1>14, <2>1, <2>2, <2>4 DEF InTime
  <2> QED
    BY <1>12, <1>17, <1>19, <1>21, <1>22, <2>3, <2>5, <2>6, <2>7
<1> QED
  BY <1>23, <1>24

-----------------------------------------------------------------------------
(* A new barrier                                                           *)

\* There is room for one, and nobody is in it or going to it.
LEMMA FreshBarrier ==
  ASSUME TInv
  PROVE  \E c \in Barriers : /\ c = CHOOSE x \in Barriers : barriers[x] = Deleted
                             /\ barriers[c] = Deleted /\ c # wnw_barrier /\ wnw_bad_barriers[c] = Null
                             /\ \A q \in Procs : ~Pending(q, c)
                             /\ InWait(c) = {} /\ InSync(c) = {} /\ Held(c) = {}
<1> USE DEF TInv
<1>1. IsFiniteSet(BadBarriers) /\ Cardinality(BadBarriers) \in Nat
  <2>1. BadBarriers \subseteq Barriers
    BY DEF BadBarriers
  <2> QED
    BY <2>1, FS_Subset, FS_CardinalityType
<1>2. Cardinality(BadBarriers \cup {wnw_barrier}) = Cardinality(BadBarriers) + 1
  <2>1. wnw_barrier \notin BadBarriers
    BY DEF BarriersAgree
  <2> QED
    BY <1>1, <2>1, FS_AddElement
<1>3. PICK d \in Barriers : d \notin BadBarriers \cup {wnw_barrier}
  <2>1. Cardinality(BadBarriers \cup {wnw_barrier}) # Cardinality(Barriers)
    <3>1. Cardinality(BadBarriers) <= MaxBad /\ Cardinality(Barriers) >= MaxBad + 2 /\ MaxBad \in Nat
      BY DEF BarriersBounded
    <3>2. Cardinality(Barriers) \in Nat /\ IsFiniteSet(BadBarriers \cup {wnw_barrier})
      BY <1>1, FS_AddElement, FS_CardinalityType
    <3>3. Cardinality(BadBarriers \cup {wnw_barrier}) \in Nat
      BY <3>2, FS_CardinalityType
    <3> QED
      BY <1>1, <1>2, <3>1, <3>2, <3>3
  <2>2. BadBarriers \cup {wnw_barrier} \subseteq Barriers
    BY DEF BadBarriers, TypeOK
  <2> QED
    BY <2>1, <2>2
<1>4. barriers[d] = Deleted
  BY <1>3 DEF BarriersAgree, Exists
<1>5. PICK c : c = CHOOSE x \in Barriers : barriers[x] = Deleted
  OBVIOUS
<1>6. c \in Barriers /\ barriers[c] = Deleted
  BY <1>4, <1>5
<1>7. c # wnw_barrier /\ wnw_bad_barriers[c] = Null
  BY <1>6 DEF BarriersAgree, Exists, BadBarriers
<1>8. \A q \in Procs : ~Pending(q, c)
  BY <1>6, <1>7 DEF PendingKnown, BadBarriers
<1>9. InWait(c) = {} /\ InSync(c) = {} /\ Held(c) = {}
  BY <1>6 DEF BarriersAgree, Exists, InWait, InSync, Held
<1> QED
  BY <1>5, <1>6, <1>7, <1>8, <1>9

LEMMA NewBarrier ==
  ASSUME NEW S, S \subseteq Threads, NEW e, e = InterruptibleBarrier(Cardinality(S) + 1)
  PROVE  /\ e \in Barrier /\ e.count = Cardinality(S) + 1 /\ e.threads_left = 0
         /\ e.in_wait = 0 /\ e.inside = {}
<1>1. Cardinality(S) \in Nat
  BY FS_Subset, FS_CardinalityType
<1> QED
  BY <1>1 DEF InterruptibleBarrier, Barrier

\* bs and bb are what the barriers and the bad ones are before a new one is there: those
\* that are no longer kept are not used, and who is late is kept with its barrier.
Kept(bs, bb) ==
  /\ bs \in [Barriers -> Barrier \cup {Deleted}]
  /\ bb \in [Barriers -> (SUBSET Threads) \cup {Null}]
  /\ \A x \in Barriers : bs[x] # Deleted => /\ Exists(x) /\ bs[x].inside = barriers[x].inside
                                            /\ bs[x].in_wait = barriers[x].in_wait
  /\ \A x \in Barriers : Exists(x) /\ bs[x] = Deleted => Deletable(x)
  /\ \A q \in Procs, x \in Barriers : Pending(q, x)' => Pending(q, x) /\ bb[x] # Null /\ q \in bb[x]
  /\ \A x \in Barriers : bb[x] # Null => wnw_bad_barriers[x] # Null \/ x = wnw_barrier
  /\ Cardinality(BadBarriers) = MaxBad => bb[wnw_barrier] = Null
  /\ UNCHANGED <<at, bar>> /\ at[Coord] = "none"

\* Nobody is in a barrier that is deleted.
LEMMA KeptInWait ==
  ASSUME TInv, NEW bs, NEW bb, Kept(bs, bb)
  PROVE  /\ \A x \in Barriers : Exists(x) /\ bs[x] = Deleted => InWait(x) = {}
         /\ \A p \in Procs : at[p] \in {"wait", "sync", "out"} => bar[p] \in Barriers /\ bs[bar[p]] # Deleted
         /\ \A x : InWait(x)' = InWait(x) /\ InSync(x)' = InSync(x) /\ Held(x)' = Held(x)
         /\ \A x \in Barriers : bs[x] # Deleted => bs[x].inside = InSync(x) /\ bs[x].in_wait = Cardinality(InWait(x))
<1> USE DEF TInv
<1>1. ASSUME NEW x \in Barriers, Exists(x), bs[x] = Deleted PROVE InWait(x) = {}
  <2>1. Cardinality(InWait(x)) = 0
    BY <1>1 DEF Kept, Deletable, BarriersAgree
  <2>2. IsFiniteSet(InWait(x))
    BY InWaitFinite
  <2> QED
    BY <2>1, <2>2, FS_EmptySet
<1>2. ASSUME NEW p \in Procs, at[p] \in {"wait", "sync", "out"}
      PROVE  bar[p] \in Barriers /\ bs[bar[p]] # Deleted
  <2>1. bar[p] \in Barriers /\ Exists(bar[p]) /\ p \in InWait(bar[p])
    BY <1>2 DEF BarriersAgree, ThreadsAgree, TypeOK, InWait
  <2> QED
    BY <1>1, <2>1
<1>3. \A x : InWait(x)' = InWait(x) /\ InSync(x)' = InSync(x) /\ Held(x)' = Held(x)
  BY DEF Kept, InWait, InSync, Held
<1>4. \A x \in Barriers : bs[x] # Deleted => bs[x].inside = InSync(x) /\ bs[x].in_wait = Cardinality(InWait(x))
  BY DEF Kept, BarriersAgree
<1> QED
  BY <1>1, <1>2, <1>3, <1>4

\* The bad barriers do not get too many.
LEMMA KeptBounded ==
  ASSUME TInv, NEW bs, NEW bb, Kept(bs, bb), wnw_bad_barriers' = bb
  PROVE  /\ Cardinality(BadBarriers') <= MaxBad /\ Cardinality(BadBarriers) <= MaxBad
         /\ Cardinality(BadBarriers') \in Nat /\ Cardinality(BadBarriers) \in Nat
         /\ bb[wnw_barrier] = Null => Cardinality(BadBarriers') <= Cardinality(BadBarriers)
<1> USE DEF TInv
<1>1. BadBarriers' \subseteq BadBarriers \cup {wnw_barrier}
      /\ (bb[wnw_barrier] = Null => BadBarriers' \subseteq BadBarriers)
  BY DEF Kept, BadBarriers
<1>2. BadBarriers \subseteq Barriers
  BY DEF BadBarriers
<1>3. IsFiniteSet(BadBarriers) /\ Cardinality(BadBarriers) \in Nat
  BY <1>2, FS_Subset, FS_CardinalityType
<1>4. IsFiniteSet(BadBarriers \cup {wnw_barrier})
      /\ Cardinality(BadBarriers \cup {wnw_barrier}) = Cardinality(BadBarriers) + 1
  <2>1. wnw_barrier \notin BadBarriers
    BY DEF BarriersAgree
  <2> QED
    BY <1>3, <2>1, FS_AddElement
<1>5. IsFiniteSet(BadBarriers') /\ Cardinality(BadBarriers') <= Cardinality(BadBarriers \cup {wnw_barrier})
  BY <1>1, <1>4, FS_Subset
<1>6. bb[wnw_barrier] = Null => Cardinality(BadBarriers') <= Cardinality(BadBarriers)
  BY <1>1, <1>3, FS_Subset
<1>7. Cardinality(BadBarriers') \in Nat /\ Cardinality(BadBarriers \cup {wnw_barrier}) \in Nat
  BY <1>4, <1>5, FS_CardinalityType
<1>8. Cardinality(BadBarriers) <= MaxBad /\ (Cardinality(BadBarriers) = MaxBad => bb[wnw_barrier] = Null)
      /\ MaxBad \in Nat
  BY DEF BarriersBounded, Kept
<1> QED
  BY <1>3, <1>4, <1>5, <1>6, <1>7, <1>8

Renewed ==
  /\ barriers' \in [Barriers -> Barrier \cup {Deleted}]
  /\ BarriersAgree' /\ BarriersBounded' /\ PendingKnown' /\ Resting' /\ Round' /\ InTime' /\ Counted'

\* A new barrier, and all that is said of barriers holds between the cycles.
LEMMA Installed ==
  ASSUME TInv, NEW bs, NEW bb, NEW l, NEW f, Kept(bs, bb), \A x \in Barriers : bs[x] # Deleted <=> bb[x] # Null,
         Install(l, f, bs, bb), l = list', f = bad', l \subseteq Threads,
         ~InCycle', removing' = Null, todo' = {}, \A t \in l \ f : Calm(t)'
  PROVE  /\ Renewed
         /\ wnw_barrier' \in Barriers /\ wnw_bad_barriers' = bb
         /\ bb \in [Barriers -> (SUBSET Threads) \cup {Null}]
<1>0. PICK c \in Barriers : /\ c = CHOOSE x \in Barriers : barriers[x] = Deleted
                            /\ barriers[c] = Deleted /\ c # wnw_barrier /\ wnw_bad_barriers[c] = Null
                            /\ InWait(c) = {} /\ InSync(c) = {} /\ Held(c) = {}
  BY FreshBarrier
<1>1. /\ barriers[c] = Deleted /\ c # wnw_barrier /\ wnw_bad_barriers[c] = Null
      /\ InWait(c) = {} /\ InSync(c) = {} /\ Held(c) = {}
  BY <1>0
<1>2. PICK S : S = l \ f
  OBVIOUS
<1>3. /\ barriers' = [bs EXCEPT ![c] = InterruptibleBarrier(Cardinality(S) + 1)]
      /\ wnw_barrier' = c /\ wnw_bad_barriers' = bb
  BY <1>0, <1>2 DEF Install, Unflagged
<1>4. S \subseteq Threads /\ S = Unflagged(list, bad)' /\ \A t \in S : Calm(t)'
  BY <1>2 DEF Unflagged
<1>5. Renewed
  <2> USE <1>1, <1>3, <1>4
  <2>1. PICK e : e = InterruptibleBarrier(Cardinality(S) + 1)
    OBVIOUS
  <2>2. /\ e \in Barrier /\ e.count = Cardinality(S) + 1 /\ e.threads_left = 0
        /\ e.in_wait = 0 /\ e.inside = {} /\ e # Deleted
    BY <2>1, NewBarrier, NotDeleted
  <2>3. /\ bs \in [Barriers -> Barrier \cup {Deleted}] /\ bb \in [Barriers -> (SUBSET Threads) \cup {Null}]
        /\ bs[c] = Deleted /\ bb[c] = Null
    BY DEF Kept, Exists
  <2>4. /\ barriers' \in [Barriers -> Barrier \cup {Deleted}] /\ barriers'[c] = e
        /\ \A x \in Barriers \ {c} : barriers'[x] = bs[x]
    BY <2>1, <2>2, <2>3
  <2>5. /\ \A p \in Procs : at[p] \in {"wait", "sync", "out"} => bar[p] \in Barriers /\ bs[bar[p]] # Deleted
        /\ \A x : InWait(x)' = InWait(x) /\ InSync(x)' = InSync(x) /\ Held(x)' = Held(x)
        /\ \A x \in Barriers : bs[x] # Deleted => bs[x].inside = InSync(x) /\ bs[x].in_wait = Cardinality(InWait(x))
    BY KeptInWait
  <2>6. BadBarriers' = {x \in Barriers : bb[x] # Null}
    BY DEF BadBarriers
  <2>7. \A x \in Barriers : Exists(x)' <=> x = c \/ bs[x] # Deleted
    BY <2>2, <2>3, <2>4 DEF Exists
  <2>8. BarriersAgree'
    <3>1. c \notin BadBarriers'
      BY <2>3, <2>6
    <3>2. \A x \in Barriers : Exists(x)' <=> x = c \/ x \in BadBarriers'
      BY <2>6, <2>7
    <3>3. ASSUME NEW x \in Barriers, Exists(x)'
          PROVE  barriers'[x].inside = InSync(x)' /\ barriers'[x].in_wait = Cardinality(InWait(x)')
      <4>1. CASE x = c
        BY <2>2, <2>4, <2>5, <4>1, FS_EmptySet
      <4>2. CASE x # c
        BY <2>4, <2>5, <2>7, <3>3, <4>2
      <4> QED
        BY <4>1, <4>2
    <3>4. \A p \in Procs : at'[p] \in {"wait", "sync", "out"} => Exists(bar[p])'
      BY <2>5, <2>7 DEF Kept
    <3> QED
      BY <3>1, <3>2, <3>3, <3>4 DEF BarriersAgree
  <2>9. BarriersBounded'
    <3>1. Deletable(c)'
      BY <2>2, <2>4 DEF Deletable
    <3>2. Cardinality(BadBarriers') <= MaxBad
      BY KeptBounded
    <3> QED
      BY <3>1, <3>2 DEF BarriersBounded, Deletable
  <2>10. PendingKnown'
    BY <2>3, <2>6 DEF Kept, PendingKnown
  <2>11. Resting'
    BY <2>2, <2>4, <2>5 DEF Resting
  <2>12. Round' /\ InTime' /\ Counted'
    BY <2>2, <2>4 DEF Kept, Round, InTime, Counted
  <2> QED
    BY <2>4, <2>8, <2>9, <2>10, <2>11, <2>12 DEF Renewed
<1> QED
  BY <1>3, <1>5 DEF Kept

\* The old barrier is deleted if nobody is in it, and is a bad one otherwise.
LEMMA UpdateKept ==
  ASSUME TInv, NEW bs, NEW bb, NEW l, NEW f, Kept(bs, bb), update_barrier(l, f, bs, bb),
         bs[wnw_barrier] = barriers[wnw_barrier], bb[wnw_barrier] = Null,
         \A x \in Barriers : bs[x] # Deleted <=> bb[x] # Null \/ x = wnw_barrier
  PROVE  \E bs1, bb1 : /\ Kept(bs1, bb1) /\ Install(l, f, bs1, bb1)
                       /\ \A x \in Barriers : bs1[x] # Deleted <=> bb1[x] # Null
                       /\ \A x \in Barriers \ {wnw_barrier} : bb1[x] = bb[x]
<1>0. /\ wnw_barrier \in Barriers /\ bs \in [Barriers -> Barrier \cup {Deleted}]
      /\ bb \in [Barriers -> (SUBSET Threads) \cup {Null}]
  BY DEF TInv, TypeOK, Kept
<1>1. CASE Deletable(wnw_barrier)
  <2>1. PICK bs1 : bs1 = [bs EXCEPT ![wnw_barrier] = Deleted]
    OBVIOUS
  <2>2. Install(l, f, bs1, bb)
    BY <1>1, <2>1 DEF update_barrier
  <2>3. /\ bs1 \in [Barriers -> Barrier \cup {Deleted}] /\ bs1[wnw_barrier] = Deleted
        /\ \A x \in Barriers \ {wnw_barrier} : bs1[x] = bs[x]
    BY <1>0, <2>1
  <2>4. Kept(bs1, bb)
    BY <1>1, <2>3 DEF Kept
  <2> QED
    BY <2>2, <2>3, <2>4
<1>2. CASE ~Deletable(wnw_barrier)
  <2>1. PICK bb1 : bb1 = [bb EXCEPT ![wnw_barrier] = {}]
    OBVIOUS
  <2>2. Install(l, f, bs, bb1)
    BY <1>2, <2>1 DEF update_barrier
  <2>3. /\ bb1 \in [Barriers -> (SUBSET Threads) \cup {Null}] /\ bb1[wnw_barrier] = {}
        /\ \A x \in Barriers \ {wnw_barrier} : bb1[x] = bb[x]
    BY <1>0, <2>1
  <2>4. Null # {}
    OBVIOUS
  <2>5. Cardinality(BadBarriers) # MaxBad
    BY <1>2 DEF TInv, BarriersBounded
  <2>6. \A q \in Procs, x \in Barriers : Pending(q, x)' => Pending(q, x) /\ bb1[x] # Null /\ q \in bb1[x]
    BY <2>3 DEF Kept
  <2>7. Kept(bs, bb1)
    BY <2>3, <2>5, <2>6 DEF Kept
  <2>8. \A x \in Barriers : bs[x] # Deleted <=> bb1[x] # Null
    BY <2>3, <2>4
  <2> QED
    BY <2>2, <2>3, <2>7, <2>8
<1> QED
  BY <1>1, <1>2

\* The cycle was too short for some.
LEMMA FlagLateStep ==
  ASSUME TInv, FlagLate
  PROVE  TInv'
<1> USE DEF TInv
<1>1. /\ cpc = "late" /\ cpc' = "gap" /\ bad' = bad \cup LateThreads /\ InCycle /\ ~InCycle' /\ todo = {}
      /\ UNCHANGED <<at, bar, list, todo, pc, waiting_for_wakeup, pending_wakeups, barrier_, cancelled,
                     removing, threw>>
  BY DEF FlagLate, calls, threads, InCycle, Resting
<1>2. PICK bs : bs = [barriers EXCEPT ![wnw_barrier].passed = {}]
  OBVIOUS
<1>3. PICK bb : bb = [wnw_bad_barriers EXCEPT ![wnw_barrier] = LateThreads]
  OBVIOUS
<1>4. PICK l, f : l = list' /\ f = bad'
  OBVIOUS
<1>5. Install(l, f, bs, bb)
  BY <1>1, <1>2, <1>3, <1>4 DEF FlagLate, Install
<1>6. removing = Null /\ at[Coord] = "none" /\ wnw_barrier \in Barriers /\ LateThreads \subseteq Threads
      /\ LateThreads # Null /\ wnw_barrier \notin BadBarriers /\ Exists(wnw_barrier)
  <2>1. removing = Null /\ at[Coord] = "none" /\ wnw_barrier \in Barriers /\ LateThreads \subseteq Threads
    BY <1>1 DEF RemovalsAgree, ThreadsAgree, TypeOK, LateThreads, Unflagged
  <2> QED
    BY <2>1 DEF BarriersAgree
<1>7. Entered = barriers[wnw_barrier].passed
  BY <1>1, <1>6 DEF Entered
<1>8. /\ bb \in [Barriers -> (SUBSET Threads) \cup {Null}] /\ bb[wnw_barrier] = LateThreads
      /\ \A x \in Barriers \ {wnw_barrier} : bb[x] = wnw_bad_barriers[x]
  BY <1>3, <1>6 DEF TypeOK
<1>9. PICK o : o = barriers[wnw_barrier]
  OBVIOUS
<1>10. o \in Barrier
  BY <1>6, <1>9 DEF TypeOK, Exists
<1>11. PICK e : e = [o EXCEPT !.passed = {}]
  OBVIOUS
<1>12. e \in Barrier /\ e.inside = o.inside /\ e.in_wait = o.in_wait /\ e # Deleted
  <2>1. e \in Barrier /\ e.inside = o.inside /\ e.in_wait = o.in_wait
    BY <1>10, <1>11 DEF Barrier
  <2> QED
    BY <2>1, NotDeleted
<1>13. /\ bs \in [Barriers -> Barrier \cup {Deleted}] /\ bs[wnw_barrier] = e
       /\ \A x \in Barriers \ {wnw_barrier} : bs[x] = barriers[x]
  BY <1>2, <1>6, <1>9, <1>11, <1>12 DEF TypeOK
<1>14. \A q \in Procs, x \in Barriers : Pending(q, x)' => Pending(q, x) /\ bb[x] # Null /\ q \in bb[x]
  <2> SUFFICES ASSUME NEW q \in Procs, NEW x \in Barriers, Pending(q, x)'
               PROVE  Pending(q, x) /\ bb[x] # Null /\ q \in bb[x]
    OBVIOUS
  <2>1. Pending(q, x)
    BY <1>1 DEF Pending
  <2>2. q \in Threads
    BY <1>6, <2>1 DEF Pending, Procs
  <2>3. CASE x = wnw_barrier
    <3>1. q \in Parties \ Entered /\ q # Coord
      BY <2>1, <2>2, <2>3 DEF PendingKnown
    <3>2. q \in LateThreads
      BY <1>7, <3>1 DEF Parties, LateThreads
    <3> QED
      BY <1>6, <1>8, <2>1, <2>3, <3>2
  <2>4. CASE x # wnw_barrier
    BY <1>8, <2>1, <2>4 DEF PendingKnown, BadBarriers
  <2> QED
    BY <2>3, <2>4
<1>15. Kept(bs, bb)
  <2>1. Cardinality(BadBarriers) # MaxBad
    <3>1. Cardinality(BadBarriers) < MaxBad
      BY <1>1 DEF BarriersBounded
    <3>2. BadBarriers \subseteq Barriers
      BY DEF BadBarriers
    <3>3. Cardinality(BadBarriers) \in Nat
      BY <3>2, FS_Subset, FS_CardinalityType
    <3> QED
      BY <3>1, <3>3
  <2>2. \A x \in Barriers : bs[x] # Deleted => /\ Exists(x) /\ bs[x].inside = barriers[x].inside
                                               /\ bs[x].in_wait = barriers[x].in_wait
    BY <1>6, <1>9, <1>12, <1>13 DEF Exists
  <2>3. \A x \in Barriers : Exists(x) => bs[x] # Deleted
    BY <1>6, <1>12, <1>13 DEF Exists
  <2>4. \A x \in Barriers : bb[x] # Null => wnw_bad_barriers[x] # Null \/ x = wnw_barrier
    BY <1>8
  <2> QED
    BY <1>1, <1>6, <1>8, <1>13, <1>14, <2>1, <2>2, <2>3, <2>4 DEF Kept
<1>16. \A x \in Barriers : bs[x] # Deleted <=> bb[x] # Null
  BY <1>6, <1>8, <1>12, <1>13 DEF BarriersAgree, Exists, BadBarriers
<1>17. \A t \in l \ f : Calm(t)'
  <2> SUFFICES ASSUME NEW t \in l \ f PROVE Calm(t)'
    OBVIOUS
  <2>1. t \in Unflagged(list, bad) /\ t \notin LateThreads
    BY <1>1, <1>4 DEF Unflagged
  <2>2. t \in Entered \ {Coord}
    BY <1>7, <2>1 DEF LateThreads, Unflagged, TypeOK
  <2>3. Calm(t)
    BY <1>1, <2>2 DEF Round
  <2> QED
    BY <1>1, <2>3 DEF Calm
<1>18. l \subseteq Threads
  BY <1>1, <1>4 DEF TypeOK
<1>19. Renewed /\ wnw_barrier' \in Barriers /\ wnw_bad_barriers' = bb
  BY <1>1, <1>4, <1>5, <1>6, <1>15, <1>16, <1>17, <1>18, Installed
<1>20. TypeOK'
  BY <1>1, <1>6, <1>8, <1>19 DEF TypeOK, Renewed
<1>21. ThreadsAgree' /\ RemovalsAgree' /\ NoException'
  <2>1. \A t \in Threads : Calm(t)' = Calm(t)
    BY <1>1 DEF Calm
  <2>2. LateThreads \subseteq list
    BY DEF LateThreads, Unflagged
  <2> QED
    BY <1>1, <1>6, <2>1, <2>2 DEF ThreadsAgree, RemovalsAgree, NoException
<1>22. FlaggedIsListed'
  BY <1>1, <1>6, <1>8, <1>19 DEF FlaggedIsListed, BadBarriers
<1> QED
  BY <1>19, <1>20, <1>21, <1>22 DEF Renewed

\* Between the cycles all barriers may be kept as they are.
LEMMA KeptAsIs ==
  ASSUME TInv, ~InCycle, UNCHANGED <<at, bar>>,
         \A q \in Procs, x \in Barriers : Pending(q, x)' => Pending(q, x)
  PROVE  \E bs, bb : /\ bs = barriers /\ bb = wnw_bad_barriers /\ Kept(bs, bb)
                     /\ bs[wnw_barrier] = barriers[wnw_barrier] /\ bb[wnw_barrier] = Null
                     /\ \A x \in Barriers : bs[x] # Deleted <=> bb[x] # Null \/ x = wnw_barrier
<1> USE DEF TInv
<1>1. PICK bs, bb : bs = barriers /\ bb = wnw_bad_barriers
  OBVIOUS
<1>2. bb[wnw_barrier] = Null /\ \A x \in Barriers : bs[x] # Deleted <=> bb[x] # Null \/ x = wnw_barrier
  BY <1>1 DEF BarriersAgree, BadBarriers, Exists, TypeOK
<1>3. at[Coord] = "none"
  BY DEF ThreadsAgree, InCycle
<1>4. \A q \in Procs, x \in Barriers : Pending(q, x)' => Pending(q, x) /\ bb[x] # Null /\ q \in bb[x]
  BY <1>1 DEF PendingKnown, BadBarriers
<1>5. Kept(bs, bb)
  BY <1>1, <1>2, <1>3, <1>4 DEF Kept, TypeOK, Exists
<1> QED
  BY <1>1, <1>2, <1>5

\* A thread is added.
LEMMA AddStep ==
  ASSUME TInv, NEW t \in Threads, Add(t)
  PROVE  TInv'
<1> USE DEF TInv
<1>1. /\ cpc \in {"idle", "gap"} /\ removing = Null /\ pc[t] = "none" /\ list' = list \cup {t}
      /\ pc' = [pc EXCEPT ![t] = "asleep"] /\ waiting_for_wakeup' = [waiting_for_wakeup EXCEPT ![t] = TRUE]
      /\ update_barrier(list', bad, barriers, wnw_bad_barriers)
      /\ UNCHANGED <<at, bar, bad, cpc, todo, pending_wakeups, barrier_, cancelled, removing, threw>>
  BY DEF Add, Between, Goto, calls, coord
<1>2. ~InCycle /\ ~InCycle' /\ todo = {} /\ Calm(t) /\ t \notin list \cup bad /\ t \notin cancelled
  BY <1>1 DEF InCycle, Resting, ThreadsAgree, RemovalsAgree
<1>3. \A q \in Procs, x \in Barriers : Pending(q, x)' => Pending(q, x)
  BY <1>1, <1>2 DEF Pending, TypeOK, Calm
<1>4. PICK bs, bb : /\ bs = barriers /\ bb = wnw_bad_barriers /\ Kept(bs, bb)
                    /\ bs[wnw_barrier] = barriers[wnw_barrier] /\ bb[wnw_barrier] = Null
                    /\ \A x \in Barriers : bs[x] # Deleted <=> bb[x] # Null \/ x = wnw_barrier
  BY <1>1, <1>2, <1>3, KeptAsIs
<1>5. PICK l, f : l = list' /\ f = bad'
  OBVIOUS
<1>6. update_barrier(l, f, bs, bb)
  BY <1>1, <1>4, <1>5 DEF update_barrier, Install
<1>7. PICK bs1, bb1 : /\ Kept(bs1, bb1) /\ Install(l, f, bs1, bb1)
                      /\ \A x \in Barriers : bs1[x] # Deleted <=> bb1[x] # Null
                      /\ \A x \in Barriers \ {wnw_barrier} : bb1[x] = bb[x]
  BY <1>4, <1>6, UpdateKept
<1>8. \A v \in Threads : Calm(v) => Calm(v)'
  BY <1>1 DEF Calm, TypeOK
<1>9. l \subseteq Threads /\ \A v \in l \ f : Calm(v)'
  BY <1>1, <1>2, <1>5, <1>8 DEF TypeOK, Resting, Unflagged
<1>10. Renewed /\ wnw_barrier' \in Barriers /\ wnw_bad_barriers' = bb1
       /\ bb1 \in [Barriers -> (SUBSET Threads) \cup {Null}]
  BY <1>1, <1>2, <1>5, <1>7, <1>9, Installed
<1>11. TypeOK'
  <2>1. waiting_for_wakeup' \in [Threads -> BOOLEAN]
    BY <1>1 DEF TypeOK
  <2> QED
    BY <1>1, <1>10, <2>1 DEF TypeOK, Renewed
<1>12. ThreadsAgree'
  BY <1>1, <1>2, <1>8 DEF ThreadsAgree, TypeOK, Calm
<1>13. RemovalsAgree' /\ NoException'
  BY <1>1, <1>2 DEF RemovalsAgree, NoException, TypeOK
<1>14. FlaggedIsListed'
  <2>1. bb[wnw_barrier] = Null /\ bb = wnw_bad_barriers
    BY <1>4
  <2> QED
    BY <1>1, <1>2, <1>7, <1>10, <2>1 DEF FlaggedIsListed
<1> QED
  BY <1>10, <1>11, <1>12, <1>13, <1>14 DEF Renewed

\* The thread has left and is taken off the list.
LEMMA RemoveStep ==
  ASSUME TInv, NEW t \in Threads, Remove(t)
  PROVE  TInv'
<1> USE DEF TInv
<1>1. /\ removing = t /\ pc[t] = "exited" /\ list' = list \ {t} /\ removing' = Null
      /\ update_barrier(list', bad, barriers, wnw_bad_barriers)
      /\ UNCHANGED <<at, bar, bad, cpc, todo, pc, waiting_for_wakeup, pending_wakeups, barrier_,
                     cancelled, threw>>
  BY DEF Remove, calls, coord, threads
<1>2. ~InCycle /\ ~InCycle' /\ todo = {}
  BY <1>1 DEF InCycle, Resting, RemovalsAgree
<1>3. \A q \in Procs, x \in Barriers : Pending(q, x)' => Pending(q, x)
  BY <1>1 DEF Pending
<1>4. PICK bs, bb : /\ bs = barriers /\ bb = wnw_bad_barriers /\ Kept(bs, bb)
                    /\ bs[wnw_barrier] = barriers[wnw_barrier] /\ bb[wnw_barrier] = Null
                    /\ \A x \in Barriers : bs[x] # Deleted <=> bb[x] # Null \/ x = wnw_barrier
  BY <1>1, <1>2, <1>3, KeptAsIs
<1>5. PICK l, f : l = list' /\ f = bad'
  OBVIOUS
<1>6. update_barrier(l, f, bs, bb)
  BY <1>1, <1>4, <1>5 DEF update_barrier, Install
<1>7. PICK bs1, bb1 : /\ Kept(bs1, bb1) /\ Install(l, f, bs1, bb1)
                      /\ \A x \in Barriers : bs1[x] # Deleted <=> bb1[x] # Null
                      /\ \A x \in Barriers \ {wnw_barrier} : bb1[x] = bb[x]
  BY <1>4, <1>6, UpdateKept
<1>8. \A v \in Threads : Calm(v)' = Calm(v)
  BY <1>1 DEF Calm
<1>9. l \subseteq Threads /\ \A v \in l \ f : Calm(v)'
  BY <1>1, <1>2, <1>5, <1>8 DEF TypeOK, Resting, Unflagged
<1>10. Renewed /\ wnw_barrier' \in Barriers /\ wnw_bad_barriers' = bb1
       /\ bb1 \in [Barriers -> (SUBSET Threads) \cup {Null}]
  BY <1>1, <1>2, <1>5, <1>7, <1>9, Installed
<1>11. TypeOK'
  BY <1>1, <1>10 DEF TypeOK, Renewed
<1>12. ThreadsAgree'
  BY <1>1, <1>8 DEF ThreadsAgree
<1>13. RemovalsAgree' /\ NoException'
  BY <1>1, <1>2 DEF RemovalsAgree, NoException
<1>14. FlaggedIsListed'
  <2>1. bb[wnw_barrier] = Null /\ bb = wnw_bad_barriers
    BY <1>4
  <2> QED
    BY <1>1, <1>7, <1>10, <2>1 DEF FlaggedIsListed
<1> QED
  BY <1>10, <1>11, <1>12, <1>13, <1>14 DEF Renewed

\* Late threads that are back lose their flag, and bad barriers go that nobody needs.
LEMMA try_recoverStep ==
  ASSUME TInv, try_recover
  PROVE  TInv'
<1> USE DEF TInv
<1>1. /\ cpc = "gap" /\ removing = Null /\ cpc' = "idle" /\ ~InCycle /\ ~InCycle' /\ todo = {}
      /\ at[Coord] = "none"
      /\ UNCHANGED <<at, bar, list, todo, pc, waiting_for_wakeup, pending_wakeups, barrier_,
                     cancelled, removing, threw>>
  BY DEF try_recover, calls, threads, InCycle, Resting, ThreadsAgree
<1>2. PICK back : back = {t \in (UNION {wnw_bad_barriers[b] : b \in BadBarriers}) \ cancelled : Recovered(t)}
  OBVIOUS
<1>3. PICK left : left = [b \in Barriers |-> IF wnw_bad_barriers[b] = Null THEN Null
                                             ELSE wnw_bad_barriers[b] \ (cancelled \cup back)]
  OBVIOUS
<1>4. PICK unused : unused = {b \in Barriers : left[b] = {} /\ Deletable(b)}
  OBVIOUS
<1>5. PICK bs : bs = [b \in Barriers |-> IF b \in unused THEN Deleted ELSE barriers[b]]
  OBVIOUS
<1>6. PICK bb : bb = [b \in Barriers |-> IF b \in unused THEN Null ELSE left[b]]
  OBVIOUS
<1>7. /\ bad' = bad \ back
      /\ left = wnw_bad_barriers => barriers' = bs /\ wnw_bad_barriers' = bb /\ wnw_barrier' = wnw_barrier
      /\ left # wnw_bad_barriers => update_barrier(list, bad', bs, bb)
  BY <1>2, <1>3, <1>4, <1>5, <1>6 DEF try_recover
<1>8. \A b \in BadBarriers : wnw_bad_barriers[b] \subseteq Threads
  <2>1. \A b \in Barriers : wnw_bad_barriers[b] \in (SUBSET Threads) \cup {Null}
    BY DEF TypeOK
  <2> QED
    BY <2>1 DEF BadBarriers
<1>9. \A t \in back : t \in Threads /\ t \notin cancelled /\ waiting_for_wakeup[t]
  BY <1>2, <1>8 DEF Recovered
<1>10. \A t \in back : Calm(t)
  BY <1>9 DEF Calm, ThreadsAgree
<1>11. wnw_barrier \in Barriers /\ wnw_bad_barriers[wnw_barrier] = Null
  BY DEF BarriersAgree, BadBarriers, TypeOK
<1>12. \A b \in Barriers : left[b] = IF wnw_bad_barriers[b] = Null THEN Null
                                     ELSE wnw_bad_barriers[b] \ (cancelled \cup back)
  BY <1>3
<1>13. \A b \in Barriers : left[b] \in (SUBSET Threads) \cup {Null}
  BY <1>8, <1>12 DEF BadBarriers
<1>14. wnw_barrier \notin unused /\ \A b \in unused : wnw_bad_barriers[b] # Null /\ Deletable(b)
  <2>1. Null # {}
    OBVIOUS
  <2> QED
    BY <1>4, <1>11, <1>12, <2>1
<1>15. /\ bs \in [Barriers -> Barrier \cup {Deleted}] /\ bb \in [Barriers -> (SUBSET Threads) \cup {Null}]
       /\ bs[wnw_barrier] = barriers[wnw_barrier] /\ bb[wnw_barrier] = Null
       /\ \A x \in Barriers : bs[x] = IF x \in unused THEN Deleted ELSE barriers[x]
       /\ \A x \in Barriers : bb[x] = IF x \in unused THEN Null ELSE left[x]
  <2>1. bs \in [Barriers -> Barrier \cup {Deleted}]
    BY <1>5 DEF TypeOK
  <2>2. bb \in [Barriers -> (SUBSET Threads) \cup {Null}]
    <3>1. PICK X : X = (SUBSET Threads) \cup {Null}
      OBVIOUS
    <3>2. \A b \in Barriers : (IF b \in unused THEN Null ELSE left[b]) \in X
      BY <1>13, <3>1
    <3>3. bb \in [Barriers -> X]
      BY <1>6, <3>2
    <3> QED
      BY <3>1, <3>3
  <2> QED
    BY <1>5, <1>6, <1>11, <1>12, <1>14, <2>1, <2>2
<1>16. \A x \in Barriers : left[x] = Null <=> wnw_bad_barriers[x] = Null
  <2>1. ASSUME NEW x \in Barriers, wnw_bad_barriers[x] # Null
        PROVE  wnw_bad_barriers[x] \ (cancelled \cup back) # Null
    <3>1. wnw_bad_barriers[x] \ (cancelled \cup back) \in SUBSET Threads
      BY <1>8, <2>1 DEF BadBarriers
    <3> QED
      BY <3>1
  <2> QED
    BY <1>12, <2>1
<1>17. \A x \in Barriers : bs[x] # Deleted <=> bb[x] # Null \/ x = wnw_barrier
  BY <1>14, <1>15, <1>16 DEF BarriersAgree, BadBarriers, Exists
<1>18. \A q \in Procs, x \in Barriers : Pending(q, x)' => Pending(q, x) /\ bb[x] # Null /\ q \in bb[x]
  <2> SUFFICES ASSUME NEW q \in Procs, NEW x \in Barriers, Pending(q, x)'
               PROVE  Pending(q, x) /\ bb[x] # Null /\ q \in bb[x]
    OBVIOUS
  <2>1. Pending(q, x)
    BY <1>1 DEF Pending
  <2>2. q \in Threads /\ ~Calm(q) /\ pc[q] # "exited"
    BY <1>1, <2>1 DEF Pending, Procs, Calm, ThreadsAgree, TypeOK
  <2>3. wnw_bad_barriers[x] # Null /\ q \in wnw_bad_barriers[x]
    BY <1>1, <2>1 DEF PendingKnown, BadBarriers
  <2>4. q \notin back /\ q \notin cancelled
    BY <1>1, <1>10, <2>2 DEF RemovalsAgree
  <2>5. q \in left[x] /\ x \notin unused
    BY <1>4, <1>12, <2>3, <2>4
  <2> QED
    BY <1>15, <1>16, <2>1, <2>3, <2>5
<1>19. Kept(bs, bb)
  BY <1>1, <1>14, <1>15, <1>16, <1>18 DEF Kept, Exists
<1>20. ASSUME NEW t \in (bad' \cap list) \ cancelled
       PROVE  \E b \in Barriers \ {wnw_barrier} : bb[b] # Null /\ t \in bb[b]
  <2>1. PICK b \in Barriers : wnw_bad_barriers[b] # Null /\ t \in wnw_bad_barriers[b]
    BY <1>7, <1>20 DEF FlaggedIsListed
  <2>2. t \in left[b] /\ b \notin unused
    BY <1>4, <1>7, <1>12, <1>20, <2>1
  <2> QED
    BY <1>11, <1>15, <1>16, <2>1, <2>2
<1>21. \A t \in Threads : Calm(t)' = Calm(t)
  BY <1>1 DEF Calm
<1>22. ThreadsAgree' /\ RemovalsAgree' /\ NoException'
  BY <1>1, <1>7, <1>21 DEF ThreadsAgree, RemovalsAgree, NoException
<1>23. CASE left # wnw_bad_barriers
  <2>1. PICK l, f : l = list' /\ f = bad'
    OBVIOUS
  <2>2. update_barrier(l, f, bs, bb)
    BY <1>1, <1>7, <1>23, <2>1 DEF update_barrier, Install
  <2>3. PICK bs1, bb1 : /\ Kept(bs1, bb1) /\ Install(l, f, bs1, bb1)
                        /\ \A x \in Barriers : bs1[x] # Deleted <=> bb1[x] # Null
                        /\ \A x \in Barriers \ {wnw_barrier} : bb1[x] = bb[x]
    BY <1>15, <1>17, <1>19, <2>2, UpdateKept
  <2>4. l \subseteq Threads /\ \A v \in l \ f : Calm(v)'
    <3>1. l \subseteq Threads
      BY <1>1, <2>1 DEF TypeOK
    <3>2. ASSUME NEW v \in l \ f PROVE Calm(v)
      <4>1. v \in back \/ v \in Unflagged(list, bad)
        BY <1>1, <1>7, <2>1, <3>2 DEF Unflagged
      <4> QED
        BY <1>1, <1>10, <4>1 DEF Resting
    <3> QED
      BY <1>21, <3>1, <3>2
  <2>5. Renewed /\ wnw_barrier' \in Barriers /\ wnw_bad_barriers' = bb1
        /\ bb1 \in [Barriers -> (SUBSET Threads) \cup {Null}]
    BY <1>1, <2>1, <2>3, <2>4, Installed
  <2>6. TypeOK'
    BY <1>1, <1>7, <2>5 DEF TypeOK, Renewed
  <2>7. FlaggedIsListed'
    BY <1>1, <1>20, <2>3, <2>5 DEF FlaggedIsListed
  <2> QED
    BY <1>22, <2>5, <2>6, <2>7 DEF Renewed
<1>24. CASE left = wnw_bad_barriers
  <2>1. barriers' = bs /\ wnw_bad_barriers' = bb /\ wnw_barrier' = wnw_barrier
    BY <1>7, <1>24
  <2>2. bad' = bad
    <3>1. back = {}
      <4> SUFFICES ASSUME NEW t \in back PROVE FALSE
        OBVIOUS
      <4>1. PICK b \in BadBarriers : t \in wnw_bad_barriers[b]
        BY <1>2
      <4>2. b \in Barriers /\ wnw_bad_barriers[b] # Null
        BY DEF BadBarriers
      <4> QED
        BY <1>12, <1>24, <4>1, <4>2
    <3> QED
      BY <1>7, <3>1
  <2>3. TypeOK'
    BY <1>1, <1>11, <1>15, <2>1, <2>2 DEF TypeOK
  <2>4. FlaggedIsListed'
    BY <1>1, <1>20, <2>1 DEF FlaggedIsListed
  <2>5. Unflagged(list, bad)' = Unflagged(list, bad) /\ Unflagged(list, bad) \subseteq Threads
    BY <1>1, <2>2 DEF Unflagged, TypeOK
  <2>6. /\ \A p \in Procs : at[p] \in {"wait", "sync", "out"} => bar[p] \in Barriers /\ bs[bar[p]] # Deleted
        /\ \A x : InWait(x)' = InWait(x) /\ InSync(x)' = InSync(x) /\ Held(x)' = Held(x)
        /\ \A x \in Barriers : bs[x] # Deleted => bs[x].inside = InSync(x) /\ bs[x].in_wait = Cardinality(InWait(x))
    BY <1>19, KeptInWait
  <2>7. BarriersAgree'
    <3>1. BadBarriers' = {x \in Barriers : bb[x] # Null}
      BY <2>1 DEF BadBarriers
    <3>2. \A x \in Barriers : Exists(x)' <=> bs[x] # Deleted
      BY <2>1 DEF Exists
    <3>3. wnw_barrier' \notin BadBarriers'
      BY <1>15, <2>1, <3>1
    <3>4. \A x \in Barriers : Exists(x)' <=> x = wnw_barrier' \/ x \in BadBarriers'
      BY <1>17, <2>1, <3>1, <3>2
    <3>5. \A p \in Procs : at'[p] \in {"wait", "sync", "out"} => Exists(bar[p])'
      BY <1>1, <2>6, <3>2
    <3>6. \A x \in Barriers : Exists(x)' => barriers'[x].inside = InSync(x)'
                                            /\ barriers'[x].in_wait = Cardinality(InWait(x)')
      BY <2>1, <2>6, <3>2
    <3> QED
      BY <3>3, <3>4, <3>5, <3>6 DEF BarriersAgree
  <2>8. BarriersBounded'
    <3>1. /\ Cardinality(BadBarriers') <= MaxBad /\ Cardinality(BadBarriers) <= MaxBad
          /\ Cardinality(BadBarriers') \in Nat /\ Cardinality(BadBarriers) \in Nat
          /\ Cardinality(BadBarriers') <= Cardinality(BadBarriers)
      BY <1>15, <1>19, <2>1, KeptBounded
    <3>2. Cardinality(BadBarriers') = MaxBad => Cardinality(BadBarriers) = MaxBad
      BY <3>1
    <3>3. Deletable(wnw_barrier) => Deletable(wnw_barrier)'
      BY <1>15, <2>1 DEF Deletable
    <3> QED
      BY <1>1, <3>1, <3>2, <3>3 DEF BarriersBounded
  <2>9. PendingKnown'
    BY <1>15, <1>18, <2>1 DEF PendingKnown, BadBarriers
  <2>10. Resting'
    BY <1>1, <1>15, <1>21, <2>1, <2>5, <2>6 DEF Resting
  <2>11. Round' /\ InTime' /\ Counted'
    BY <1>1, <1>15, <2>1, <2>5 DEF Round, InTime, Counted
  <2> QED
    BY <1>22, <2>3, <2>4, <2>7, <2>8, <2>9, <2>10, <2>11
<1> QED
  BY <1>23, <1>24

-----------------------------------------------------------------------------
(* The invariants                                                          *)

LEMMA InitTInv == Init => TInv
<1> SUFFICES ASSUME Init PROVE TInv
  OBVIOUS
<1>1. FirstBarrier \in Barriers
  <2>1. Barriers # {}
    BY FS_EmptySet
  <2> QED
    BY <2>1 DEF FirstBarrier
<1>2. PICK e : e = InterruptibleBarrier(Cardinality(Initial) + 1)
  OBVIOUS
<1>3. /\ e \in Barrier /\ e.count = Cardinality(Initial) + 1 /\ e.threads_left = 0
      /\ e.in_wait = 0 /\ e.inside = {} /\ e # Deleted
  BY <1>2, NewBarrier, NotDeleted
<1>4. /\ barriers \in [Barriers -> Barrier \cup {Deleted}] /\ barriers[wnw_barrier] = e
      /\ wnw_barrier \in Barriers /\ \A b \in Barriers : barriers[b] # Deleted <=> b = wnw_barrier
  BY <1>1, <1>2, <1>3 DEF Init
<1>5. at = [p \in Procs |-> "none"] /\ bar = [p \in Procs |-> Null] /\ list = Initial /\ bad = {}
      /\ wnw_bad_barriers = [b \in Barriers |-> Null] /\ cpc = "idle" /\ todo = {}
      /\ barrier_ = [t \in Threads |-> Null] /\ cancelled = {} /\ removing = Null /\ threw = FALSE
      /\ pending_wakeups = [t \in Threads |-> 0] /\ waiting_for_wakeup = [t \in Threads |-> t \in Initial]
      /\ pc = [t \in Threads |-> IF t \in Initial THEN "asleep" ELSE "none"]
  BY DEF Init
<1>6. TypeOK
  <2>1. waiting_for_wakeup \in [Threads -> BOOLEAN]
    BY <1>5
  <2>2. wnw_bad_barriers \in [Barriers -> (SUBSET Threads) \cup {Null}]
    BY <1>5
  <2>3. /\ at \in [Procs -> {"none", "enter", "wait", "sync", "out"}] /\ bar \in [Procs -> Barriers \cup {Null}]
        /\ barrier_ \in [Threads -> Barriers \cup {Null}] /\ pending_wakeups \in [Threads -> 0..1]
        /\ pc \in [Threads -> {"none", "asleep", "loop", "done", "atbarrier", "presleep", "exited"}]
    BY <1>5
  <2>4. /\ list \subseteq Threads /\ bad \subseteq Threads /\ todo \subseteq Threads /\ cancelled \subseteq Threads
        /\ cpc \in {"idle", "waking", "waiting", "late", "gap"} /\ removing \in Threads \cup {Null}
        /\ threw \in BOOLEAN
    BY <1>5
  <2> QED
    BY <1>4, <2>1, <2>2, <2>3, <2>4 DEF TypeOK
<1>7. ~InCycle /\ BadBarriers = {} /\ Unflagged(list, bad) = Initial
  BY <1>5 DEF InCycle, BadBarriers, Unflagged
<1>8. \A t \in Threads : Calm(t)
  BY <1>5 DEF Calm, Procs
<1>9. ThreadsAgree /\ RemovalsAgree
  BY <1>5, <1>8 DEF ThreadsAgree, RemovalsAgree, Procs
<1>10. \A b : InWait(b) = {} /\ InSync(b) = {} /\ Held(b) = {}
  BY <1>5 DEF InWait, InSync, Held
<1>11. BarriersAgree
  BY <1>3, <1>4, <1>5, <1>7, <1>10, FS_EmptySet DEF BarriersAgree, Exists
<1>12. BarriersBounded
  BY <1>3, <1>4, <1>5, <1>7, FS_EmptySet DEF BarriersBounded, Deletable
<1>13. PendingKnown
  BY <1>5 DEF PendingKnown, Pending, Procs
<1>14. Resting /\ Round
  BY <1>3, <1>4, <1>5, <1>7, <1>8, <1>10 DEF Resting, Round
<1>15. InTime /\ Counted /\ FlaggedIsListed /\ NoException
  BY <1>3, <1>4, <1>5, <1>7 DEF InTime, Counted, FlaggedIsListed, NoException, Procs
<1> QED
  BY <1>6, <1>9, <1>11, <1>12, <1>13, <1>14, <1>15 DEF TInv

\* Every step of the coordinator, of a thread and of the thread manager keeps TInv.
LEMMA NextTInv == TInv /\ [Next]_vars => TInv'
<1> SUFFICES ASSUME TInv, [Next]_vars PROVE TInv'
  OBVIOUS
<1>0. Coord \in Procs /\ Threads \subseteq Procs
  BY DEF Procs
<1>1. CASE UNCHANGED vars
  <2>1. UNCHANGED <<barriers, at, bar, list, bad, wnw_barrier, wnw_bad_barriers, cpc, todo, pc,
                    waiting_for_wakeup, pending_wakeups, barrier_, cancelled, removing, threw>>
    BY <1>1 DEF vars, calls, lists, coord, threads
  <2> USE DEF TInv
  <2>2. TypeOK' /\ ThreadsAgree' /\ RemovalsAgree'
    BY <2>1 DEF TypeOK, ThreadsAgree, Calm, RemovalsAgree, InCycle
  <2>3. BarriersAgree' /\ BarriersBounded'
    BY <2>1, BarriersStay DEF BarriersBounded, BadBarriers, Deletable, InCycle
  <2>4. PendingKnown' /\ Resting'
    BY <2>1 DEF PendingKnown, Pending, Parties, Entered, BadBarriers, InCycle, Unflagged, Resting, Calm, Held
  <2>5. Round' /\ InTime'
    BY <2>1 DEF Round, InTime, Parties, Entered, InCycle, Unflagged, Calm, Held
  <2>6. Counted' /\ FlaggedIsListed' /\ NoException'
    BY <2>1 DEF Counted, Unflagged, FlaggedIsListed, NoException
  <2> QED
    BY <2>2, <2>3, <2>4, <2>5, <2>6
<1>2. CASE CoordStep
  <2>1. CASE WaitStep(Coord)
    BY <1>0, <2>1, EnterStep, PassStep, OutStep DEF WaitStep
  <2>2. CASE SkipCycle \/ StartCycle \/ AllWoken \/ TimeOut
    BY <2>2, SkipCycleStep, StartCycleStep, AllWokenStep, TimeOutStep
  <2>3. CASE FlagLate \/ try_recover
    BY <2>3, FlagLateStep, try_recoverStep
  <2>4. CASE \E t \in Threads : wakeup(t)
    BY <2>4, wakeupStep
  <2> QED
    BY <1>2, <2>1, <2>2, <2>3, <2>4 DEF CoordStep
<1>3. ASSUME NEW t \in Threads, ThreadStep(t) PROVE TInv'
  <2>1. CASE WaitStep(t)
    BY <1>0, <2>1, EnterStep, PassStep, OutStep DEF WaitStep
  <2>2. CASE Awake(t) \/ Done(t) \/ Presleep(t) \/ EnterLate(t)
    BY <2>2, AwakeStep, DoneStep, PresleepStep, EnterLateStep
  <2> QED
    BY <1>3, <2>1, <2>2 DEF ThreadStep
<1>4. ASSUME NEW t \in Threads, LoopReturns(t) \/ Add(t) \/ StartRemove(t) \/ ManagerStep(t) PROVE TInv'
  BY <1>4, LoopReturnsStep, AddStep, StartRemoveStep, CancelStep, RemoveStep DEF ManagerStep
<1> QED
  BY <1>1, <1>2, <1>3, <1>4 DEF Next

\* The inductive invariant: who is in a barrier, who is on the way to one and who has come
\* to the barrier of the cycle agree with what the barriers, the list and the flags say,
\* through timeouts, recoveries and removals (thread_list.cpp, interruptible_barrier.cpp).
THEOREM ThreadsInductive == Spec => []TInv
<1>1. Init => TInv
  BY InitTInv
<1>2. TInv /\ [Next]_vars => TInv'
  BY NextTInv
<1> QED
  BY <1>1, <1>2, PTL DEF Spec

\* Every variable has its type.
THEOREM ThreadsTyped == Spec => []TypeOK
<1>1. TInv => TypeOK
  BY DEF TInv
<1> QED
  BY <1>1, ThreadsInductive, PTL

\* wakeup_and_wait() throws neither exception, for any number of threads.
THEOREM NeverThrows == Spec => []NoException
<1>1. TInv => NoException
  BY DEF TInv
<1> QED
  BY <1>1, ThreadsInductive, PTL

\* No barrier is deleted while somebody is in its wait() or on the way to it.
THEOREM BarriersLive == Spec => []BarrierAlive
<1>1. TInv => BarrierAlive
  <2> SUFFICES ASSUME TInv PROVE BarrierAlive
    OBVIOUS
  <2> USE DEF TInv
  <2>1. Exists(wnw_barrier)
    BY DEF BarriersAgree, TypeOK
  <2>2. \A p \in Procs, b \in Barriers : Pending(p, b) => Exists(b)
    BY DEF PendingKnown, BarriersAgree
  <2>3. ASSUME NEW p \in Procs, at[p] # "none" PROVE Exists(bar[p])
    <3>1. CASE at[p] = "enter"
      <4>1. bar[p] \in Barriers /\ Pending(p, bar[p])
        BY <2>3, <3>1 DEF ThreadsAgree, TypeOK, Pending
      <4> QED
        BY <2>2, <4>1
    <3>2. CASE at[p] \in {"wait", "sync", "out"}
      BY <3>2 DEF BarriersAgree
    <3> QED
      BY <2>3, <3>1, <3>2 DEF TypeOK
  <2>4. ASSUME NEW t \in Threads, barrier_[t] # Null, pc[t] # "exited" PROVE Exists(barrier_[t])
    <3>1. barrier_[t] \in Barriers /\ t \in Procs /\ Pending(t, barrier_[t])
      BY <2>4 DEF TypeOK, Pending, Procs
    <3> QED
      BY <2>2, <3>1
  <2> QED
    BY <2>1, <2>3, <2>4 DEF BarrierAlive
<1> QED
  BY <1>1, ThreadsInductive, PTL

\* After wakeup_and_wait() only flagged threads are in loop() or on their way into it.
THEOREM CycleComplete == Spec => []AllFinished
<1>1. TInv => AllFinished
  BY DEF TInv, AllFinished, Resting, InCycle, Unflagged, Calm
<1> QED
  BY <1>1, ThreadsInductive, PTL

\* A flagged thread stays with a bad barrier until try_recover() finds it back.
THEOREM FlaggedKnown == Spec => []FlaggedIsListed
<1>1. TInv => FlaggedIsListed
  BY DEF TInv
<1> QED
  BY <1>1, ThreadsInductive, PTL
=============================================================================
