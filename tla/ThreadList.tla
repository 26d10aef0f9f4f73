----------------------------- MODULE ThreadList -----------------------------
(***************************************************************************)
(* ThreadList::wakeup_and_wait(): one thread, the coordinator, wakes all   *)
(* threads of a list and waits at an InterruptibleBarrier until each has   *)
(* run its loop() once.  Threads that are late are flagged bad and left    *)
(* out until try_recover() finds them waiting for a wakeup again           *)
(* (libs/core/threading: thread_list.cpp, interruptible_barrier.cpp and    *)
(* thread.cpp; the thread manager of libs/baseapp serialises cycles,       *)
(* recovery and removal by its mutex).                                     *)
(*                                                                         *)
(* A step is what is done under one mutex.  Barriers are objects that are  *)
(* created and deleted; what a deleted one says is forgotten, and so are   *)
(* the passed threads of a bad one.                                        *)
(***************************************************************************)
EXTENDS Integers, FiniteSets, FiniteSetsExt

CONSTANTS Threads, Coord,
          Initial,         \* the threads of the list at the start
          Removable,       \* the threads that may be removed
          Barriers,        \* enough for all that exist at a time
          MaxBad,          \* bound: no cycle or change begins with so many bad barriers
          Null

ASSUME ThreadsAssumption ==
  /\ Initial \subseteq Threads /\ Removable \subseteq Threads
  /\ Coord \notin Threads /\ Null \notin Threads \cup {Coord} \cup Barriers
  /\ \A S \in SUBSET Threads : Null # S
  /\ IsFiniteSet(Threads) /\ IsFiniteSet(Barriers)
  /\ MaxBad \in Nat /\ Cardinality(Barriers) >= MaxBad + 2

VARIABLES
  barriers,            \* the InterruptibleBarrier objects
  at, bar,             \* where a thread or the coordinator is in wait(), and of which barrier
  list, bad,           \* the thread list, and the flags
  wnw_barrier, wnw_bad_barriers,
  cpc, todo,  \* the coordinator
  pc, waiting_for_wakeup, pending_wakeups, barrier_, cancelled,   \* the threads
  removing,            \* the thread that remove_maybelocked() is about
  threw

calls == <<at, bar>>
lists == <<list, bad, wnw_barrier, wnw_bad_barriers>>
coord == <<cpc, todo>>
threads == <<pc, waiting_for_wakeup, pending_wakeups, barrier_, cancelled>>
vars == <<barriers, calls, lists, coord, threads, removing, threw>>

Procs == Threads \cup {Coord}

\* inside: who is in the wait() of the Barrier that an InterruptibleBarrier is
Barrier == [count : Nat \ {0}, threads_left : Nat, timeout : BOOLEAN, wait_at_barrier : BOOLEAN,
            in_wait : Nat, passed : SUBSET Procs, inside : SUBSET Procs]

Deleted == [count |-> 0]

InterruptibleBarrier(n) ==
  [count |-> n, threads_left |-> 0, timeout |-> FALSE, wait_at_barrier |-> FALSE,
   in_wait |-> 0, passed |-> {}, inside |-> {}]

Exists(b) == barriers[b] # Deleted

TypeOK ==
  /\ barriers \in [Barriers -> Barrier \cup {Deleted}]
  /\ at \in [Procs -> {"none", "enter", "wait", "sync", "out"}]
  /\ bar \in [Procs -> Barriers \cup {Null}]
  /\ list \subseteq Threads /\ bad \subseteq Threads
  /\ wnw_barrier \in Barriers
  /\ wnw_bad_barriers \in [Barriers -> (SUBSET Threads) \cup {Null}]
  /\ cpc \in {"idle", "waking", "waiting", "late", "gap"}
  /\ todo \subseteq Threads
  /\ pc \in [Threads -> {"none", "asleep", "loop", "done", "atbarrier", "presleep", "exited"}]
  /\ waiting_for_wakeup \in [Threads -> BOOLEAN]
  /\ pending_wakeups \in [Threads -> 0..1]
  /\ barrier_ \in [Threads -> Barriers \cup {Null}]
  /\ cancelled \subseteq Threads
  /\ removing \in Threads \cup {Null}
  /\ threw \in BOOLEAN

FirstBarrier == CHOOSE b \in Barriers : TRUE

Init ==
  /\ barriers = [b \in Barriers |-> IF b = FirstBarrier
                                      THEN InterruptibleBarrier(Cardinality(Initial) + 1) ELSE Deleted]
  /\ at = [p \in Procs |-> "none"] /\ bar = [p \in Procs |-> Null]
  /\ list = Initial /\ bad = {}
  /\ wnw_barrier = FirstBarrier
  /\ wnw_bad_barriers = [b \in Barriers |-> Null]
  /\ cpc = "idle" /\ todo = {}
  /\ pc = [t \in Threads |-> IF t \in Initial THEN "asleep" ELSE "none"]
  /\ waiting_for_wakeup = [t \in Threads |-> t \in Initial]
  /\ pending_wakeups = [t \in Threads |-> 0]
  /\ barrier_ = [t \in Threads |-> Null]
  /\ cancelled = {} /\ removing = Null
  /\ threw = FALSE

Goto(t, p) == pc' = [pc EXCEPT ![t] = p]
-----------------------------------------------------------------------------
(* InterruptibleBarrier::wait()                                            *)

HasTimedOut(b) == barriers[b].threads_left > 0 /\ barriers[b].timeout

\* Mutant: who comes late is counted only when it leaves.
EnterLateUncounted(p) ==
  /\ at[p] = "enter" /\ HasTimedOut(bar[p])
  /\ barriers' = [barriers EXCEPT ![bar[p]].in_wait = @ - 1]
  /\ at' = [at EXCEPT ![p] = "none"] /\ bar' = [bar EXCEPT ![p] = Null]
  /\ Goto(p, "presleep")
  /\ UNCHANGED <<lists, coord, waiting_for_wakeup, pending_wakeups, barrier_,
                 cancelled, removing, threw>>

\* too late: wait() returns at once
EnterLate(p) ==
  /\ at[p] = "enter" /\ HasTimedOut(bar[p])
  /\ at' = [at EXCEPT ![p] = "none"] /\ bar' = [bar EXCEPT ![p] = Null]
  /\ Goto(p, "presleep")
  /\ UNCHANGED <<barriers, lists, coord, waiting_for_wakeup, pending_wakeups, barrier_,
                 cancelled, removing, threw>>

\* From the while loop on to the hard synchronisation, Barrier::wait(), if all have come:
\* that lets them go when count are inside.  wait_at_barrier_ is read after the unlock, but
\* nobody sets or resets it before all who are in wait() have read it.
Leave(p, b) ==
  LET here == b.inside \cup {p}
      full == Cardinality(here) = b.count
  IN
  IF b.wait_at_barrier
    THEN /\ barriers' = [barriers EXCEPT ![bar[p]] = [b EXCEPT !.inside = IF full THEN {} ELSE here]]
         /\ at' = [q \in Procs |-> IF full /\ q \in here THEN "out"
                                   ELSE IF q = p THEN "sync" ELSE at[q]]
    ELSE /\ barriers' = [barriers EXCEPT ![bar[p]] = b]
         /\ at' = [at EXCEPT ![p] = "out"]

\* The first to come starts a round, the last to come sends all on.
Enter(p) ==
  LET b == barriers[bar[p]]
      first == b.threads_left = 0
      left == (IF first THEN b.count ELSE b.threads_left) - 1
      entered == [b EXCEPT !.threads_left = left,
                           !.timeout = @ /\ ~first,
                           !.wait_at_barrier = left = 0 \/ (@ /\ ~first),
                           !.passed = (IF first THEN {} ELSE @) \cup {p},
                           !.in_wait = @ + 1]
  IN
  /\ at[p] = "enter" /\ ~HasTimedOut(bar[p])
  /\ IF left = 0
       THEN Leave(p, entered)
       ELSE /\ barriers' = [barriers EXCEPT ![bar[p]] = entered]
            /\ at' = [at EXCEPT ![p] = "wait"]
  /\ UNCHANGED <<bar, lists, coord, threads, removing, threw>>

\* all are there, or the time is over
Pass(p) ==
  LET b == barriers[bar[p]] IN
  /\ at[p] = "wait" /\ (b.threads_left = 0 \/ b.timeout)
  /\ Leave(p, b)
  /\ UNCHANGED <<bar, lists, coord, threads, removing, threw>>

\* Mutant: there is no time limit.
TimeOutNever ==
  /\ at[Coord] = "wait" /\ FALSE
  /\ UNCHANGED vars

\* Only the coordinator has a time limit.  It may be over just when the last one comes.
TimeOut ==
  /\ at[Coord] = "wait"
  /\ Leave(Coord, [barriers[bar[Coord]] EXCEPT !.timeout = TRUE])
  /\ UNCHANGED <<bar, lists, coord, threads, removing, threw>>

\* Mutant: the timeout is not reported.
OutInTime(p) ==
  /\ at[p] = "out"
  /\ barriers' = [barriers EXCEPT ![bar[p]].in_wait = @ - 1]
  /\ at' = [at EXCEPT ![p] = "none"] /\ bar' = [bar EXCEPT ![p] = Null]
  /\ IF p = Coord THEN cpc' = "gap" /\ UNCHANGED pc
                  ELSE Goto(p, "presleep") /\ UNCHANGED cpc
  /\ UNCHANGED <<lists, todo, waiting_for_wakeup, pending_wakeups, barrier_, cancelled,
                 removing, threw>>

\* the end of wait(); the coordinator is told whether it was in time
Out(p) ==
  /\ at[p] = "out"
  /\ barriers' = [barriers EXCEPT ![bar[p]].in_wait = @ - 1]
  /\ at' = [at EXCEPT ![p] = "none"] /\ bar' = [bar EXCEPT ![p] = Null]
  /\ IF p = Coord
       THEN cpc' = (IF barriers[bar[p]].timeout THEN "late" ELSE "gap") /\ UNCHANGED pc
       ELSE Goto(p, "presleep") /\ UNCHANGED cpc
  /\ UNCHANGED <<lists, todo, waiting_for_wakeup, pending_wakeups, barrier_, cancelled,
                 removing, threw>>

WaitStep(p) == Enter(p) \/ Pass(p) \/ Out(p)
-----------------------------------------------------------------------------
(* Thread::run()                                                           *)

\* the wakeup is taken; with finalize_prepared set loop() is left out, unless the thread
\* had looked at it before
TakeWakeup(t) ==
  /\ \E p \in {"loop"} \cup (IF t \in cancelled THEN {"done"} ELSE {}) : Goto(t, p)
  /\ pending_wakeups' = [pending_wakeups EXCEPT ![t] = @ - 1]

\* woken; a cancelled thread leaves at the wait condition
Awake(t) ==
  /\ pc[t] = "asleep" /\ (pending_wakeups[t] > 0 \/ t \in cancelled)
  /\ IF pending_wakeups[t] > 0
       THEN TakeWakeup(t)
       ELSE Goto(t, "exited") /\ UNCHANGED pending_wakeups
  /\ UNCHANGED <<barriers, calls, lists, coord, waiting_for_wakeup, barrier_, cancelled,
                 removing, threw>>

LoopReturns(t) ==
  /\ pc[t] = "loop"
  /\ Goto(t, "done")
  /\ UNCHANGED <<barriers, calls, lists, coord, waiting_for_wakeup, pending_wakeups, barrier_,
                 cancelled, removing, threw>>

\* test_cancel(), then the barrier is taken under sleep_mutex_
Done(t) ==
  /\ pc[t] = "done"
  /\ IF t \in cancelled
       THEN Goto(t, "exited") /\ UNCHANGED <<calls, barrier_>>
       ELSE IF barrier_[t] = Null
       THEN Goto(t, "presleep") /\ UNCHANGED <<calls, barrier_>>
       ELSE /\ Goto(t, "atbarrier")
            /\ at' = [at EXCEPT ![t] = "enter"] /\ bar' = [bar EXCEPT ![t] = barrier_[t]]
            /\ barrier_' = [barrier_ EXCEPT ![t] = Null]
  /\ UNCHANGED <<barriers, lists, coord, waiting_for_wakeup, pending_wakeups, cancelled,
                 removing, threw>>

Presleep(t) ==
  /\ pc[t] = "presleep"
  /\ IF pending_wakeups[t] > 0
       THEN TakeWakeup(t) /\ UNCHANGED waiting_for_wakeup
       ELSE /\ Goto(t, "asleep") /\ waiting_for_wakeup' = [waiting_for_wakeup EXCEPT ![t] = TRUE]
            /\ UNCHANGED pending_wakeups
  /\ UNCHANGED <<barriers, calls, lists, coord, barrier_, cancelled, removing, threw>>

ThreadStep(t) == Awake(t) \/ Done(t) \/ Presleep(t) \/ EnterLate(t) \/ WaitStep(t)
-----------------------------------------------------------------------------
(* The barriers of the list                                                *)

\* Mutant: flagged threads take part, too.
UnflaggedAll(l, f) == l

Unflagged(l, f) == l \ f

\* Mutant: a barrier is deleted although somebody is still in wait().
DeletableAlways(b) == TRUE

Deletable(b) == barriers[b].in_wait = 0        \* no_threads_in_wait()

\* A new barrier for the unflagged threads of l takes the place of wnw_barrier_.  It is not
\* the one just deleted, so that a stale pointer is seen as one.
Install(l, f, bs, bb) ==
  LET b == CHOOSE x \in Barriers : barriers[x] = Deleted IN
  /\ barriers' = [bs EXCEPT ![b] = InterruptibleBarrier(Cardinality(Unflagged(l, f)) + 1)]
  /\ wnw_barrier' = b
  /\ wnw_bad_barriers' = bb

\* The old barrier is deleted, or kept for try_recover() to delete.
update_barrier(l, f, bs, bb) ==
  IF Deletable(wnw_barrier)
    THEN Install(l, f, [bs EXCEPT ![wnw_barrier] = Deleted], bb)
    ELSE Install(l, f, bs, [bb EXCEPT ![wnw_barrier] = {}])
-----------------------------------------------------------------------------
(* The coordinator                                                         *)

BadBarriers == {b \in Barriers : wnw_bad_barriers[b] # Null}

\* The bound on the bad barriers is reached: this time only try_recover() is called.
SkipCycle ==
  /\ cpc = "idle" /\ removing = Null /\ Cardinality(BadBarriers) >= MaxBad
  /\ cpc' = "gap"
  /\ UNCHANGED <<barriers, calls, lists, todo, threads, removing, threw>>

\* wakeup_and_wait() begins
StartCycle ==
  /\ cpc = "idle" /\ removing = Null /\ Cardinality(BadBarriers) < MaxBad
  /\ cpc' = "waking" /\ todo' = Unflagged(list, bad)
  /\ UNCHANGED <<barriers, calls, lists, threads, removing, threw>>

\* Thread::wakeup(barrier) throws
RunningWithBarrier(t) == ~waiting_for_wakeup[t] /\ barrier_[t] # Null

wakeup(t) ==
  /\ cpc = "waking" /\ t \in todo
  /\ todo' = todo \ {t}
  /\ IF RunningWithBarrier(t)
       THEN threw' = TRUE /\ UNCHANGED <<waiting_for_wakeup, pending_wakeups, barrier_>>
       ELSE /\ pending_wakeups' = [pending_wakeups EXCEPT ![t] = @ + 1]
            /\ barrier_' = [barrier_ EXCEPT ![t] = wnw_barrier]
            /\ waiting_for_wakeup' = [waiting_for_wakeup EXCEPT ![t] = FALSE]
            /\ UNCHANGED threw
  /\ UNCHANGED <<barriers, calls, lists, cpc, pc, cancelled, removing>>

AllWoken ==
  /\ cpc = "waking" /\ todo = {}
  /\ threw' = (threw \/ barriers[wnw_barrier].count # Cardinality(Unflagged(list, bad)) + 1)
  /\ cpc' = "waiting"
  /\ at' = [at EXCEPT ![Coord] = "enter"] /\ bar' = [bar EXCEPT ![Coord] = wnw_barrier]
  /\ UNCHANGED <<barriers, lists, todo, threads, removing>>

LateThreads == Unflagged(list, bad) \ barriers[wnw_barrier].passed

\* Mutant: the late threads are flagged, but not kept with the barrier.
FlagLateForgotten ==
  /\ cpc = "late"
  /\ bad' = bad \cup LateThreads
  /\ Install(list, bad', [barriers EXCEPT ![wnw_barrier].passed = {}],
             [wnw_bad_barriers EXCEPT ![wnw_barrier] = {}])
  /\ cpc' = "gap"
  /\ UNCHANGED <<calls, list, todo, threads, removing, threw>>

\* the timeout: who has not passed is flagged, and the barrier is kept with them
FlagLate ==
  /\ cpc = "late"
  /\ bad' = bad \cup LateThreads
  /\ Install(list, bad', [barriers EXCEPT ![wnw_barrier].passed = {}],
             [wnw_bad_barriers EXCEPT ![wnw_barrier] = LateThreads])
  /\ cpc' = "gap"
  /\ UNCHANGED <<calls, list, todo, threads, removing, threw>>

\* Mutant: only a thread that has been woken meanwhile.
RecoveredWoken(t) == waiting_for_wakeup[t] /\ pending_wakeups[t] > 0

\* waiting(): loop() is finished and the barrier has been passed
Recovered(t) == waiting_for_wakeup[t]

\* try_recover(): threads that wait for a wakeup again lose their flag, and bad barriers
\* that nobody needs are deleted
try_recover ==
  LET gone == cancelled
      late == UNION {wnw_bad_barriers[b] : b \in BadBarriers}
      back == {t \in late \ cancelled : Recovered(t)}
      left == [b \in Barriers |-> IF wnw_bad_barriers[b] = Null THEN Null
                                  ELSE wnw_bad_barriers[b] \ (gone \cup back)]
      unused == {b \in Barriers : left[b] = {} /\ Deletable(b)}
      bs == [b \in Barriers |-> IF b \in unused THEN Deleted ELSE barriers[b]]
      bb == [b \in Barriers |-> IF b \in unused THEN Null ELSE left[b]]
  IN
  /\ cpc = "gap" /\ removing = Null
  /\ bad' = bad \ back
  /\ IF left = wnw_bad_barriers
       THEN barriers' = bs /\ wnw_bad_barriers' = bb /\ UNCHANGED wnw_barrier
       ELSE update_barrier(list, bad', bs, bb)
  /\ cpc' = "idle"
  /\ UNCHANGED <<calls, list, todo, threads, removing, threw>>

CoordStep ==
  \/ SkipCycle \/ StartCycle \/ AllWoken \/ WaitStep(Coord) \/ TimeOut \/ FlagLate \/ try_recover
  \/ \E t \in Threads : wakeup(t)
-----------------------------------------------------------------------------
(* ThreadManager: threads come and go between the cycles                   *)

Between == cpc \in {"idle", "gap"} /\ removing = Null /\ Cardinality(BadBarriers) < MaxBad

Add(t) ==
  /\ Between /\ pc[t] = "none"
  /\ list' = list \cup {t}
  /\ update_barrier(list', bad, barriers, wnw_bad_barriers)
  /\ Goto(t, "asleep") /\ waiting_for_wakeup' = [waiting_for_wakeup EXCEPT ![t] = TRUE]
  /\ UNCHANGED <<calls, bad, coord, pending_wakeups, barrier_, cancelled, removing, threw>>

\* remove_maybelocked() has the mutex ...
StartRemove(t) ==
  /\ Between /\ t \in Removable \cap list
  /\ removing' = t
  /\ UNCHANGED <<barriers, calls, lists, coord, threads, threw>>

\* ... waits in prepare_finalize() for loop() to end, and cancels the thread ...
Cancel(t) ==
  /\ removing = t /\ t \notin cancelled /\ pc[t] # "loop"
  /\ cancelled' = cancelled \cup {t}
  /\ waiting_for_wakeup' = [waiting_for_wakeup EXCEPT ![t] = FALSE]
  /\ UNCHANGED <<barriers, calls, lists, coord, pc, pending_wakeups, barrier_, removing, threw>>

\* ... joins it and takes it off the list
Remove(t) ==
  /\ removing = t /\ pc[t] = "exited"
  /\ list' = list \ {t}
  /\ update_barrier(list', bad, barriers, wnw_bad_barriers)
  /\ removing' = Null
  /\ UNCHANGED <<calls, bad, coord, threads, threw>>

ManagerStep(t) == Cancel(t) \/ Remove(t)

Next ==
  \/ CoordStep
  \/ \E t \in Threads : ThreadStep(t) \/ LoopReturns(t) \/ Add(t) \/ StartRemove(t) \/ ManagerStep(t)

\* Everybody runs, and the coordinator's time limit passes; but loop() need not return.
Fairness ==
  /\ WF_vars(CoordStep)
  /\ \A t \in Threads : WF_vars(ThreadStep(t)) /\ WF_vars(ManagerStep(t))

Spec == Init /\ [][Next]_vars /\ Fairness
-----------------------------------------------------------------------------
(* Properties                                                              *)

\* wakeup_and_wait() never finds a thread "already running with barrier", and the count
\* of its barrier is always that of the unflagged threads, through timeouts, recoveries
\* and removals: either exception would leave the threads woken and nobody waiting.
NoException == ~threw

\* no_threads_in_wait() is "used to prevent the destruction of the barrier while there
\* are threads in wait()": nobody is in wait() of a deleted barrier, and no thread that
\* runs is to wait at one.
BarrierAlive ==
  /\ Exists(wnw_barrier)
  /\ \A p \in Procs : at[p] # "none" => Exists(bar[p])
  /\ \A t \in Threads : barrier_[t] # Null /\ pc[t] # "exited" => Exists(barrier_[t])

\* "The method will return when all threads have finished one loop() iteration": between
\* the cycles only flagged threads are in loop() or on their way into it.
AllFinished ==
  cpc \in {"idle", "gap"} =>
    \A t \in list \ bad : pc[t] \notin {"loop", "done"} /\ pending_wakeups[t] = 0

\* Who is flagged is remembered with a bad barrier, or is being removed: it cannot be left
\* out for ever unnoticed.
FlaggedIsListed ==
  \A t \in (bad \cap list) \ cancelled :
    \E b \in Barriers : wnw_bad_barriers[b] # Null /\ t \in wnw_bad_barriers[b]

\* the manager waits for a loop() that does not end
RemovalWaits == removing # Null /\ pc[removing] = "loop"

\* The coordinator always comes round again, although threads may hang in loop(), unless
\* one of those is to be removed.
Cycles == []<>(cpc = "idle" \/ RemovalWaits)

\* A late thread that has got back to sleep is woken again.
Reintegrated == \A t \in Threads :
  (t \in bad /\ waiting_for_wakeup[t]) ~> (t \notin bad \/ pc[t] = "exited" \/ RemovalWaits)

(* The inductive invariant behind the first four                           *)

InCycle == cpc \in {"waking", "waiting", "late"}

Parties == Unflagged(list, bad) \cup {Coord}

\* who has come to the barrier in this cycle; the first to come forgets who came before
Entered == IF barriers[wnw_barrier].threads_left = 0 /\ (cpc = "waking" \/ at[Coord] = "enter")
             THEN {} ELSE barriers[wnw_barrier].passed

InWait(b) == {p \in Procs : bar[p] = b /\ at[p] \in {"wait", "sync", "out"}}
InSync(b) == {p \in Procs : bar[p] = b /\ at[p] = "sync"}
Held(b)   == {p \in Procs : bar[p] = b /\ at[p] \in {"wait", "sync"}}

\* p is going to wait at b
Pending(p, b) == \/ at[p] = "enter" /\ bar[p] = b
                 \/ p \in Threads /\ barrier_[p] = b /\ pc[p] # "exited"

\* nothing is left to do for t
Calm(t) == /\ pending_wakeups[t] = 0 /\ pc[t] \notin {"loop", "done"}
           /\ barrier_[t] = Null /\ at[t] # "enter"

\* the parts of a thread's state agree
ThreadsAgree ==
  /\ \A p \in Procs : at[p] = "none" <=> bar[p] = Null
  /\ at[Coord] # "none" <=> cpc = "waiting"
  /\ \A t \in Threads :
       /\ at[t] # "none" <=> pc[t] = "atbarrier"
       /\ waiting_for_wakeup[t] =>
            pc[t] \in {"asleep", "exited"} /\ pending_wakeups[t] = 0 /\ barrier_[t] = Null
       /\ pc[t] \in {"loop", "done"} \/ at[t] = "enter" => pending_wakeups[t] = 0
       /\ at[t] = "enter" => barrier_[t] = Null
       /\ barrier_[t] # Null => pending_wakeups[t] = 1 \/ pc[t] \in {"loop", "done", "exited"}
       /\ pc[t] = "none" => Calm(t) /\ t \notin list \cup bad

\* a thread is cancelled by its removal only, and no cycle begins meanwhile
RemovalsAgree ==
  /\ \A t \in Threads : /\ pc[t] = "exited" => t \in cancelled
                        /\ t \in cancelled => removing = t \/ (pc[t] = "exited" /\ t \notin list)
  /\ removing # Null => removing \in list /\ ~InCycle

\* the barriers that exist, and who is in them
BarriersAgree ==
  /\ wnw_barrier \notin BadBarriers
  /\ \A b \in Barriers : Exists(b) <=> b = wnw_barrier \/ b \in BadBarriers
  /\ \A b \in Barriers : Exists(b) => /\ barriers[b].inside = InSync(b)
                                      /\ barriers[b].in_wait = Cardinality(InWait(b))
  /\ \A p \in Procs : at[p] \in {"wait", "sync", "out"} => Exists(bar[p])

\* There is always room for one more barrier.
BarriersBounded ==
  /\ Cardinality(BadBarriers) <= MaxBad
  /\ InCycle \/ removing # Null => Cardinality(BadBarriers) < MaxBad
  /\ Cardinality(BadBarriers) = MaxBad => Deletable(wnw_barrier)

\* Whoever is going to wait at a barrier is one of the cycle's parties that has not come
\* yet, or is late for the cycle of a bad one.
PendingKnown ==
  \A p \in Procs, b \in Barriers : Pending(p, b) =>
    IF b = wnw_barrier THEN InCycle /\ p \in Parties \ (Entered \cup todo)
                       ELSE b \in BadBarriers /\ p \in wnw_bad_barriers[b]

\* between the cycles, and for who is still to be woken
Resting ==
  /\ ~InCycle => /\ \A t \in Unflagged(list, bad) : Calm(t)
                 /\ Held(wnw_barrier) = {} /\ barriers[wnw_barrier].threads_left = 0
  /\ \A t \in todo : Calm(t)
  /\ todo # {} => cpc = "waking"

\* a cycle: who has come has nothing left to do but to wait
Round ==
  InCycle =>
    /\ todo \subseteq Unflagged(list, bad)
    /\ Held(wnw_barrier) \subseteq Entered
    /\ Entered \subseteq Parties \ todo
    /\ \A t \in Entered \ {Coord} : Calm(t)
    /\ barriers[wnw_barrier].threads_left =
         IF Entered = {} THEN 0 ELSE barriers[wnw_barrier].count - Cardinality(Entered)
    /\ cpc = "waking" => Coord \notin Entered
    /\ cpc = "waiting" => bar[Coord] = wnw_barrier /\ (at[Coord] # "enter" => Coord \in Entered)

\* the coordinator leaves the barrier in time only if all have come
InTime ==
  /\ at[Coord] = "wait" /\ barriers[wnw_barrier].threads_left = 0 => barriers[wnw_barrier].wait_at_barrier
  /\ at[Coord] = "out" /\ ~barriers[wnw_barrier].timeout => Entered = Parties /\ Held(wnw_barrier) = {}

Counted == barriers[wnw_barrier].count = Cardinality(Unflagged(list, bad)) + 1

TInv == /\ TypeOK /\ ThreadsAgree /\ RemovalsAgree /\ BarriersAgree /\ BarriersBounded
        /\ PendingKnown /\ Resting /\ Round /\ InTime /\ Counted /\ FlaggedIsListed /\ NoException
=============================================================================
