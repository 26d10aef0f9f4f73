------------------------------ MODULE MainLoop ------------------------------
(***************************************************************************)
(* The main loop of Fawkes on top of the SyncPoints: FawkesMainThread      *)
(* emits the start point of one hook after the other and waits for all     *)
(* emitters of its end point, for a limited time (libs/baseapp).  Threads  *)
(* with a SyncPointAspect (libs/aspect), those of the BlockedTimingAspect  *)
(* among them, wait for their input point before every loop() and emit     *)
(* their output point after it (Thread::run() in libs/core/threading).     *)
(* They are added and removed at any time: threads may add threads, only   *)
(* plugins have to wait for the end of an iteration.                       *)
(***************************************************************************)
EXTENDS SyncPoint

CONSTANTS
  Main,                   \* FawkesMainThread
  Hooks,                  \* how many: main_thread.cpp has ten
  Start, End,             \* their points
  In, Type, Out,          \* the aspects of the other threads; None: no such point
  Dynamic,                \* the threads added and removed while the main loop runs;
                          \* the others are there before it starts
  MaxPending              \* bound: registrations not yet emitted at a point

Workers == Components \ {Main}

\* Only the main thread waits for all at the end of a hook, and the two points of an
\* aspect do not lie on one path; the aspects of the repository are like that.
ASSUME AspectAssumption ==
  /\ Main \in Components /\ Hooks \in Nat \ {0} /\ MaxPending \in Nat
  /\ Start \in [1..Hooks -> SyncPoints] /\ End \in [1..Hooks -> SyncPoints]
  /\ In \in [Workers -> SyncPoints] /\ Out \in [Workers -> SyncPoints \cup {None}]
  /\ Type \in [Workers -> {"one", "all"}] /\ Dynamic \subseteq Workers
  /\ \A w \in Workers, h \in 1..Hooks : Type[w] = "all" => In[w] # End[h]
  /\ \A w \in Workers : Out[w] # None => In[w] \notin Up[Out[w]] /\ Out[w] \notin Up[In[w]]

VARIABLES
  mpc, hook,              \* main thread: where in the loop, which hook
  wpc,                    \* the other threads: where in Thread::run()
  life,                   \* and how far their removal is
  defaulted               \* history: a wait of the main thread has timed out

vars == <<points, mpc, hook, wpc, life, defaulted>>

\* finalize_prepared of a thread
finalize_prepared(w) == life[w] \in {"prepared", "cancelled"}

TypeOK ==
  /\ PointsTyped
  /\ mpc \in {"idle", "emit", "wait", "waiting"} /\ hook \in 1..Hooks
  /\ wpc \in [Workers -> {"none", "top", "prewait", "loop", "asleep", "dead"}]
  /\ life \in [Workers -> {"none", "loaded", "prepared", "cancelled", "released", "emitted", "erased"}]
  /\ defaulted \in BOOLEAN

\* FawkesMainThread::once() has got all points and registered as emitter of the start
\* points; the first threads have been added.
Init ==
  LET Gets(c, s) == \/ c = Main /\ \E h \in 1..Hooks : s \in Up[Start[h]] \cup Up[End[h]]
                    \/ c \in Workers \ Dynamic /\ \E x \in {In[c], Out[c]} \ {None} : s \in Up[x]
      own(c, s) == IF c = Main THEN Cardinality({h \in 1..Hooks : s \in Up[Start[h]]})
                   ELSE IF c \notin Dynamic /\ Out[c] # None /\ s \in Up[Out[c]] THEN 1 ELSE 0
  IN  /\ PointsInit([s \in SyncPoints |-> {c \in Components : Gets(c, s)}],
                    [s \in SyncPoints |-> [c \in Components |-> own(c, s)]])
      /\ mpc = "idle" /\ hook = 1
      /\ wpc = [w \in Workers |-> IF w \in Dynamic THEN "none" ELSE "top"]
      /\ life = [w \in Workers |-> IF w \in Dynamic THEN "none" ELSE "loaded"]
      /\ defaulted = FALSE
-----------------------------------------------------------------------------
(* FawkesMainThread::loop()                                                *)

\* timed_threads_exist(): a thread is in the list until it has been finalized
TimedThreads == {w \in Workers : Out[w] # None /\ life[w] # "none"}

MainStart ==
  /\ mpc = "idle" /\ TimedThreads # {}
  /\ mpc' = "emit" /\ hook' = 1
  /\ UNCHANGED <<points, wpc, life, defaulted>>

MainEmit ==
  /\ mpc = "emit"
  /\ emit(Main, Start[hook])
  /\ mpc' = "wait"
  /\ UNCHANGED <<hook, wpc, life, defaulted>>

\* Mutant: the last hook is left out.
NextHookButLast ==
  IF hook + 1 < Hooks THEN mpc' = "emit" /\ hook' = hook + 1 ELSE mpc' = "idle" /\ hook' = 1

NextHook ==
  IF hook < Hooks THEN mpc' = "emit" /\ hook' = hook + 1 ELSE mpc' = "idle" /\ hook' = 1

\* reltime_wait_for_all()
MainWait ==
  /\ mpc = "wait"
  /\ wait(Main, End[hook], "all", TRUE)
  /\ IF call'[Main] = NoCall THEN NextHook ELSE mpc' = "waiting" /\ UNCHANGED hook
  /\ UNCHANGED <<wpc, life, defaulted>>

MainTimeout ==
  /\ timeout(Main)
  /\ UNCHANGED <<mpc, hook, wpc, life, defaulted>>

MainReturn ==
  /\ mpc = "waiting"
  /\ WaitReturn(Main)
  /\ NextHook
  /\ defaulted' = (defaulted \/ call[Main].st = "timedout")
  /\ UNCHANGED <<wpc, life>>

MainStep == MainStart \/ MainEmit \/ MainWait \/ MainTimeout \/ MainReturn
-----------------------------------------------------------------------------
(* Threads: init_SyncPointAspect() and Thread::run()                       *)

WGoto(w, where) == wpc' = [wpc EXCEPT ![w] = where]
Becomes(w, l) == life' = [life EXCEPT ![w] = l]

Add(w) ==
  /\ life[w] = "none"
  /\ \A s \in SyncPoints : pending_emitters[s][w] < MaxPending
  /\ Join(w, {In[w], Out[w]} \ {None}, Out[w])
  /\ WGoto(w, "top") /\ Becomes(w, "loaded")
  /\ UNCHANGED <<mpc, hook, defaulted>>

\* pre_loop(), unless the thread is prepared for finalization
LoopTop(w) ==
  /\ wpc[w] = "top" /\ ~finalize_prepared(w)
  /\ wait(w, In[w], Type[w], FALSE)
  /\ WGoto(w, IF call'[w] = NoCall THEN "loop" ELSE "prewait")
  /\ UNCHANGED <<mpc, hook, life, defaulted>>

PreLoopReturn(w) ==
  /\ wpc[w] = "prewait"
  /\ WaitReturn(w)
  /\ WGoto(w, "loop")
  /\ UNCHANGED <<mpc, hook, life, defaulted>>

\* Mutant: the output point is emitted before loop() is over.
PostLoopEarly(w) ==
  /\ wpc[w] = "loop" /\ Out[w] # None /\ pending_emitters[Out[w]][w] > 0
  /\ emit(w, Out[w])
  /\ UNCHANGED <<mpc, hook, wpc, life, defaulted>>

\* loop() ends, post_loop(); a thread with BlockedTimingAspect also wakes itself up
PostLoop(w) ==
  /\ wpc[w] = "loop"
  /\ IF Out[w] = None THEN UNCHANGED points ELSE emit(w, Out[w])
  /\ WGoto(w, "top")
  /\ UNCHANGED <<mpc, hook, life, defaulted>>

\* A thread that is prepared for finalization leaves out loop() and post_loop().  One with
\* BlockedTimingAspect has then not woken itself up: it sleeps, and nobody wakes it, not
\* even cancel_finalize().  The others run continuously and come back to the top.
SkipLoop(w) ==
  /\ wpc[w] = "top" /\ life[w] = "prepared" /\ Out[w] # None
  /\ WGoto(w, "asleep")
  /\ UNCHANGED <<points, mpc, hook, life, defaulted>>

\* test_cancel(), and the sleep is a cancellation point
TestCancel(w) ==
  /\ wpc[w] \in {"top", "asleep"} /\ life[w] = "cancelled"
  /\ WGoto(w, "dead")
  /\ UNCHANGED <<points, mpc, hook, life, defaulted>>

(* ThreadManager::remove_maybelocked()                                     *)

\* Thread::prepare_finalize() and cancel_finalize() hold loop_mutex
PrepareFinalize(w) ==
  /\ w \in Dynamic /\ life[w] = "loaded" /\ wpc[w] # "loop"
  /\ Becomes(w, "prepared")
  /\ UNCHANGED <<points, mpc, hook, wpc, defaulted>>

CancelFinalize(w) ==
  /\ life[w] = "prepared" /\ wpc[w] # "loop"
  /\ Becomes(w, "loaded")
  /\ UNCHANGED <<points, mpc, hook, wpc, defaulted>>

\* ThreadList::stop(): cancel(); join() is what the next steps wait for
Stop(w) ==
  /\ life[w] = "prepared"
  /\ Becomes(w, "cancelled")
  /\ UNCHANGED <<points, mpc, hook, wpc, defaulted>>

CancelledInWait(w) ==
  /\ life[w] = "cancelled" /\ wpc[w] = "prewait"
  /\ WaitCancelled(w)
  /\ WGoto(w, "dead")
  /\ UNCHANGED <<mpc, hook, life, defaulted>>

\* finalize_SyncPointAspect(), in four steps
Finalize(w) ==
  /\ wpc[w] = "dead"
  /\ \/ /\ life[w] = "cancelled"
        /\ Release(w, In[w])
        /\ Becomes(w, IF Out[w] = None THEN "none" ELSE "released")
     \/ life[w] = "released" /\ UnregisterEmit(w, Out[w]) /\ Becomes(w, "emitted")
     \/ life[w] = "emitted" /\ UnregisterErase(w, Out[w]) /\ Becomes(w, "erased")
     \/ life[w] = "erased" /\ Release(w, Out[w]) /\ Becomes(w, "none")
  /\ WGoto(w, IF life'[w] = "none" THEN "none" ELSE "dead")
  /\ UNCHANGED <<mpc, hook, defaulted>>

ThreadStep(w) == \/ LoopTop(w) \/ PreLoopReturn(w) \/ PostLoop(w) \/ SkipLoop(w)
                 \/ TestCancel(w) \/ CancelledInWait(w)

RemovalStep(w) == PrepareFinalize(w) \/ CancelFinalize(w) \/ Stop(w) \/ Finalize(w)

Next == MainStep \/ \E w \in Workers : Add(w) \/ ThreadStep(w) \/ RemovalStep(w)

\* The main thread runs, and its time limits pass; threads get on with Thread::run(),
\* but nobody's loop() has to return.
Fairness == /\ WF_vars(MainStep)
            /\ \A w \in Workers : WF_vars(LoopTop(w) \/ PreLoopReturn(w))

Spec == Init /\ [][Next]_vars /\ Fairness
-----------------------------------------------------------------------------
(* Properties                                                              *)

\* Neither the main loop nor a thread or its removal ever gets an exception from a
\* SyncPoint: not for waiting twice after a timeout or a cancelled wait, not for a
\* timeout without a late emitter ("This is probably a bug"), not for releasing too early.
NoException == threw = {}

\* Until some wait has timed out, loop() of a thread runs only while the main loop is at
\* its hook: threads of different hooks never run at the same time.
HookOrder ==
  ~defaulted => \A w \in Workers :
    wpc[w] = "loop" /\ Out[w] # None => mpc \in {"wait", "waiting"} /\ Out[w] = End[hook]

\* watcher_is_waiting() is "true if the waiter is currently waiting": who blocks is in
\* the set, and who is in the set blocks, or was cancelled and not yet released.
WaitingSetsAgree ==
  \A s \in SyncPoints, c \in Components :
    /\ call[c].st = "blocked" /\ call[c].at = s =>
         c \in (IF call[c].mode = "one" THEN watchers_wait_for_one[s] ELSE watchers_wait_for_all[s])
    /\ c \in watchers_wait_for_one[s] \cup watchers_wait_for_all[s] =>
         \/ call[c].at = s /\ call[c].st \in {"blocked", "timedout"}
         \/ c # Main /\ wpc[c] = "dead" /\ life[c] = "cancelled"

\* The calls that wait belong to the places that the threads are at; only the main
\* thread's time out.
CallsAgree ==
  /\ call[Main] # NoCall <=> mpc = "waiting"
  /\ call[Main] # NoCall => call[Main].at = End[hook] /\ call[Main].mode # "one"
  /\ \A w \in Workers :
       /\ call[w] # NoCall <=> wpc[w] = "prewait"
       /\ call[w] # NoCall => /\ call[w].at = In[w] /\ call[w].st # "timedout"
                              /\ call[w].mode = "one" <=> Type[w] = "one"

\* A component waits in the set of the kind of its call; one that was cancelled may
\* have been left in either.  Threads wait for their input point.
WaitersByType ==
  \A s \in SyncPoints, c \in Components :
    /\ c \in watchers_wait_for_one[s] => call[c].mode = "one"
    /\ c \in watchers_wait_for_all[s] =>
         call[c].mode # "one" \/ (c # Main /\ wpc[c] = "dead" /\ life[c] = "cancelled")
    /\ c \in watchers_wait_for_one[s] \cup watchers_wait_for_all[s] /\ c # Main => s = In[c]

\* A thread runs while it is loaded and is removed when it is dead.
LivesAgree ==
  \A w \in Workers :
    /\ wpc[w] = "none" <=> life[w] = "none"
    /\ wpc[w] \in {"top", "prewait", "loop", "asleep"} => life[w] \in {"loaded", "prepared", "cancelled"}
    /\ wpc[w] = "dead" => life[w] \in {"cancelled", "released", "emitted", "erased"}
    /\ life[w] \in {"released", "emitted", "erased"} => Out[w] # None

OutPath(w) == IF Out[w] = None THEN {} ELSE Up[Out[w]]

\* Who got a point watches it and its predecessors until it is released, and emitters
\* are registered once.
RegistrationsAgree ==
  /\ \A h \in 1..Hooks :
       /\ Main \in watchers[End[h]]
       /\ \A x \in Up[Start[h]] : Main \in watchers[x] /\ emitters[x][Main] > 0
  /\ \A w \in Workers, x \in SyncPoints :
       /\ w \in watchers[x] => x \in Up[In[w]] \cup OutPath(w)
       /\ x \in Up[In[w]] /\ life[w] \in {"loaded", "prepared", "cancelled"} => w \in watchers[x]
       /\ x \in OutPath(w) /\ life[w] # "none" => w \in watchers[x]
       /\ emitters[x][w] = IF x \in OutPath(w) /\ life[w] \notin {"none", "erased"} THEN 1 ELSE 0

\* Where there are emitters, or somebody waits for all of them, some are pending.
PendingKept ==
  /\ \A x \in SyncPoints : (\E d \in Components : emitters[x][d] > 0) =>
       \E d \in Components : pending_emitters[x][d] > 0
  /\ \A c \in Components : call[c].mode # "one" =>
       \E d \in Components : pending_emitters[call[c].at][d] > 0

\* The inductive invariant for exceptions and waiting sets.
MInv == /\ TypeOK /\ LivesAgree /\ CallsAgree /\ RegistrationsAgree /\ PendingKept
        /\ WaitingSetsAgree /\ WaitersByType /\ NoException

\* Threads with an output point have the BlockedTimingAspect of some hook, and the points of
\* the hooks are leaves of the tree: emitting one reaches no other.
BlockedTiming ==
  /\ \A w \in Workers : Out[w] # None =>
       Type[w] = "all" /\ \E h \in 1..Hooks : In[w] = Start[h] /\ Out[w] = End[h]
  /\ \A g, h \in 1..Hooks : /\ Start[h] \in Up[Start[g]] \/ End[h] \in Up[End[g]] => g = h
                            /\ Start[h] \notin Up[End[g]] /\ End[h] \notin Up[Start[g]]

\* the hook's threads have been woken, and the main thread's wait for them is not over
InHook(h) == hook = h /\ (mpc = "wait" \/ (mpc = "waiting" /\ call[Main].st # "woken"))

Busy(w) == wpc[w] = "loop" \/ call[w].st = "woken"
Alive(w) == life[w] \in {"loaded", "prepared", "cancelled"}

\* Without timeouts only threads of the hook are busy, and they are pending at its end
\* point; outside of their hook all threads are.
HooksAgree ==
  ~defaulted => \A w \in Workers, h \in 1..Hooks : Out[w] = End[h] =>
    /\ Busy(w) => InHook(h)
    /\ Busy(w) \/ (Alive(w) /\ ~InHook(h)) => pending_emitters[End[h]][w] > 0

\* After unregister_emitter() "other components will not wait for it anymore": a call
\* that blocks until all have emitted waits for some registered emitter.
WaitsForEmitters ==
  \A c \in Components : call[c].st = "blocked" /\ call[c].mode # "one" =>
    \E d \in Components : emitters[call[c].at][d] > 0 /\ pending_emitters[call[c].at][d] > 0

\* The main loop goes round although threads may hang in loop(), come and go.
MainCycles == []<>(mpc = "idle")

\* A thread that waits for its hook gets its turn, whatever the others do.
TurnComes == \A w \in Workers : Out[w] # None => (wpc[w] = "prewait" ~> wpc[w] # "prewait")
=============================================================================
