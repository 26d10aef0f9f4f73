----------------------------- MODULE SyncPoint ------------------------------
(***************************************************************************)
(* SyncPoints (libs/syncpoint): components register as watchers and as     *)
(* emitters of named points, wait for one or for all emitters, and emit.   *)
(* The identifiers form a tree, and what happens at a point also happens   *)
(* at its predecessors.                                                    *)
(*                                                                         *)
(* emit(), register_emitter() and unregister_emitter() keep the mutex of a *)
(* point while they go on to its predecessor, so each of them is one step  *)
(* for the whole path.  The operators below change the points and the wait *)
(* calls; MainLoop says who calls them and when.  last_emitter_reset_ is   *)
(* only ever compared with that of the predecessor: newer tells which of   *)
(* the two was later.                                                      *)
(***************************************************************************)
EXTENDS Integers, FiniteSets

CONSTANTS SyncPoints, Components,
          Pred,            \* the predecessor of a point: "/a" for "/a/b"
          None

\* sets of points that have the predecessors of their points
Closed(T) == \A x \in T : Pred[x] # None => Pred[x] \in T

\* a point and its predecessors
Up == [s \in SyncPoints |->
         {x \in SyncPoints : \A T \in SUBSET SyncPoints : s \in T /\ Closed(T) => x \in T}]

\* the points are a tree: the identifier of a predecessor is shorter
ASSUME PredAssumption ==
  /\ Pred \in [SyncPoints -> SyncPoints \cup {None}]
  /\ None \notin SyncPoints \cup Components
  /\ \A s \in SyncPoints : Pred[s] # None => s \notin Up[Pred[s]]

VARIABLES
  watchers, emitters, pending_emitters,       \* emitters are multisets: counts by component
  watchers_wait_for_one, watchers_wait_for_all,
  timer_running, timer_owner,                 \* wait_for_all_timer_{running,owner}_
  max_waittime,                               \* TRUE if it is not zero
  newer,                                      \* last_emitter_reset_ after the predecessor's
  call,                                       \* the wait() call a component is in
  threw                                       \* components that got an exception

points == <<watchers, emitters, pending_emitters, watchers_wait_for_one, watchers_wait_for_all,
            timer_running, timer_owner, max_waittime, newer, call, threw>>

\* mode: "one" for WAIT_FOR_ONE, "owner" for the WAIT_FOR_ALL call that runs the timer,
\* "all" for the others; limit: the wait can time out.
Call == [at : SyncPoints, mode : {"one", "owner", "all"}, limit : BOOLEAN,
         st : {"blocked", "woken", "timedout"}]
NoCall == [at |-> None, mode |-> "one", limit |-> FALSE, st |-> "none"]

PointsTyped ==
  /\ watchers \in [SyncPoints -> SUBSET Components]
  /\ emitters \in [SyncPoints -> [Components -> Nat]]
  /\ pending_emitters \in [SyncPoints -> [Components -> Nat]]
  /\ watchers_wait_for_one \in [SyncPoints -> SUBSET Components]
  /\ watchers_wait_for_all \in [SyncPoints -> SUBSET Components]
  /\ timer_running \in [SyncPoints -> BOOLEAN]
  /\ timer_owner \in [SyncPoints -> Components \cup {None}]
  /\ max_waittime \in [SyncPoints -> BOOLEAN]
  /\ newer \in [SyncPoints -> BOOLEAN]
  /\ call \in [Components -> Call \cup {NoCall}]
  /\ threw \subseteq Components

NoOne == [s \in SyncPoints |-> {}]

\* the state after the given components have got and registered their points
PointsInit(W, E) ==
  /\ watchers = W /\ emitters = E /\ pending_emitters = E
  /\ watchers_wait_for_one = NoOne /\ watchers_wait_for_all = NoOne
  /\ timer_running = [s \in SyncPoints |-> FALSE]
  /\ timer_owner = [s \in SyncPoints |-> None]
  /\ max_waittime = [s \in SyncPoints |-> FALSE]
  /\ newer = [s \in SyncPoints |-> FALSE]
  /\ call = [c \in Components |-> NoCall]
  /\ threw = {}
-----------------------------------------------------------------------------
(* emit(): the sets of points that it reaches on its way up                *)

More(b, c) == [b EXCEPT ![c] = @ + 1]
Less(b, c) == [b EXCEPT ![c] = @ - 1]

\* up to here no exception was thrown
Reached(c, s) ==
  {x \in Up[s] : \A y \in Up[s] : x \in Up[y] => c \in watchers[y] /\ emitters[y][c] > 0}

\* the waiters for one emitter are woken before the emitter is looked up
Notified(c, s) ==
  {x \in Up[s] : c \in watchers[x] /\ \A y \in Up[s] \ {x} : x \in Up[y] => y \in Reached(c, s)}

\* Mutant: whether the component is pending is not looked at.
CountedTwice(c, s) == Reached(c, s)

\* pending_emitters_ loses the component; its predecessor's only if this did and was
\* not reset since the predecessor was
Counted(c, s) ==
  {x \in Reached(c, s) : \A y \in Up[s] :
     x \in Up[y] => pending_emitters[y][c] > 0 /\ (y # x => ~newer[y])}

\* the last pending emitter: the waiters for all are released, the round starts again
Completed(c, s) ==
  {x \in Counted(c, s) : \A d \in Components : Less(pending_emitters[x], c)[d] = 0}

\* wake_all() on the condition variables of points: ones for WAIT_FOR_ONE, alls for
\* WAIT_FOR_ALL
Wake(ones, alls) ==
  [d \in Components |->
     IF call[d].st = "blocked" /\ call[d].at \in (IF call[d].mode = "one" THEN ones ELSE alls)
     THEN [call[d] EXCEPT !.st = "woken"] ELSE call[d]]

emit(c, s) ==
  LET done == Completed(c, s)
      less == Counted(c, s) \ done
      ones == Notified(c, s)
  IN  /\ watchers_wait_for_one' = [x \in SyncPoints |->
           IF x \in ones THEN {} ELSE watchers_wait_for_one[x]]
      /\ watchers_wait_for_all' = [x \in SyncPoints |->
           IF x \in done THEN {} ELSE watchers_wait_for_all[x]]
      /\ call' = Wake(ones, done)
      /\ pending_emitters' = [x \in SyncPoints |->
           IF x \in done THEN emitters[x]
           ELSE IF x \in less THEN Less(pending_emitters[x], c) ELSE pending_emitters[x]]
      /\ newer' = [x \in SyncPoints |-> (x \in done \/ newer[x]) /\ Pred[x] \notin done \cup {None}]
      /\ threw' = IF Reached(c, s) = Up[s] THEN threw ELSE threw \cup {c}
      /\ UNCHANGED <<watchers, emitters, timer_running, timer_owner, max_waittime>>
-----------------------------------------------------------------------------
(* wait()                                                                  *)

\* A call that is refused: the caller does not watch the point or waits already.
WaitRefused(c, s, type) ==
  \/ c \notin watchers[s]
  \/ c \in (IF type = "one" THEN watchers_wait_for_one[s] ELSE watchers_wait_for_all[s])

need_to_wait(s, type) == type = "one" \/ \E d \in Components : emitters[s][d] > 0

\* the condition variable and the time limit of a call that has to wait
WaitTimer(c, s, type, limit) ==
  IF type = "all" /\ ~timer_running[s]
  THEN /\ timer_running' = [timer_running EXCEPT ![s] = TRUE]
       /\ timer_owner' = [timer_owner EXCEPT ![s] = c]
       /\ max_waittime' = [max_waittime EXCEPT ![s] = @ \/ limit]
       /\ call' = [call EXCEPT ![c] = [at |-> s, mode |-> "owner", limit |-> max_waittime'[s],
                                       st |-> "blocked"]]
  ELSE /\ call' = [call EXCEPT ![c] = [at |-> s, mode |-> type, limit |-> type = "one" /\ limit,
                                       st |-> "blocked"]]
       /\ UNCHANGED <<timer_running, timer_owner, max_waittime>>

\* From the check of the caller to the wait on the condition variable: mutex_ is given
\* up only when the condition variable's mutex is held.
wait(c, s, type, limit) ==
  /\ call[c] = NoCall
  /\ IF WaitRefused(c, s, type)
     THEN /\ threw' = threw \cup {c}
          /\ UNCHANGED <<watchers_wait_for_one, watchers_wait_for_all, timer_running, timer_owner,
                         max_waittime, call>>
     ELSE IF need_to_wait(s, type)
     THEN /\ watchers_wait_for_one' = IF type = "one" THEN [watchers_wait_for_one EXCEPT ![s] = @ \cup {c}]
                                      ELSE watchers_wait_for_one
          /\ watchers_wait_for_all' = IF type = "all" THEN [watchers_wait_for_all EXCEPT ![s] = @ \cup {c}]
                                      ELSE watchers_wait_for_all
          /\ WaitTimer(c, s, type, limit)
          /\ UNCHANGED threw
     ELSE UNCHANGED <<watchers_wait_for_one, watchers_wait_for_all, timer_running, timer_owner,
                      max_waittime, call, threw>>
  /\ UNCHANGED <<watchers, emitters, pending_emitters, newer>>

\* pthread_cond_timedwait() gives up; an emit() may still come before the mutex is held again
timeout(c) ==
  /\ call[c].st = "blocked" /\ call[c].limit
  /\ call' = [call EXCEPT ![c].st = "timedout"]
  /\ UNCHANGED <<watchers, emitters, pending_emitters, watchers_wait_for_one, watchers_wait_for_all,
                 timer_running, timer_owner, max_waittime, newer, threw>>

\* Mutant: the timer is stopped only by a timeout.
TimerAfterOnTimeout(c) ==
  IF call[c].mode = "owner" /\ call[c].st = "timedout"
  THEN [timer_running EXCEPT ![call[c].at] = FALSE] ELSE timer_running

TimerAfter(c) ==
  IF call[c].mode = "owner" THEN [timer_running EXCEPT ![call[c].at] = FALSE] ELSE timer_running

\* Mutant: the late component is not taken off the waiting components.
HandleDefaultKeeps(c) ==
  UNCHANGED <<watchers_wait_for_one, watchers_wait_for_all, threw>>

\* handle_default(): somebody must be late, or the call that waits for all throws
\* (bad_components_ keeps those of earlier timeouts, which can only prevent it)
HandleDefault(c) ==
  LET s == call[c].at IN
  IF call[c].mode = "owner" /\ \A d \in Components : pending_emitters[s][d] = 0
  THEN threw' = threw \cup {c} /\ UNCHANGED <<watchers_wait_for_one, watchers_wait_for_all>>
  ELSE /\ watchers_wait_for_one' = [watchers_wait_for_one EXCEPT ![s] = @ \ {c}]
       /\ watchers_wait_for_all' = [watchers_wait_for_all EXCEPT ![s] = @ \ {c}]
       /\ UNCHANGED threw

\* the rest of wait(), once the condition variable is done with
WaitReturn(c) ==
  LET s == call[c].at IN
  /\ call[c].st \in {"woken", "timedout"}
  /\ timer_running' = TimerAfter(c)
  /\ IF call[c].st = "timedout"
     THEN /\ HandleDefault(c)
          /\ call' = [Wake({}, IF call[c].mode = "owner" THEN {s} ELSE {}) EXCEPT ![c] = NoCall]
     ELSE /\ call' = [call EXCEPT ![c] = NoCall]
          /\ UNCHANGED <<watchers_wait_for_one, watchers_wait_for_all, threw>>
  /\ UNCHANGED <<watchers, emitters, pending_emitters, timer_owner, max_waittime, newer>>

\* the waiting thread is cancelled: the cleanup handlers release the mutex, nothing else
WaitCancelled(c) ==
  /\ call[c] # NoCall
  /\ call' = [call EXCEPT ![c] = NoCall]
  /\ UNCHANGED <<watchers, emitters, pending_emitters, watchers_wait_for_one, watchers_wait_for_all,
                 timer_running, timer_owner, max_waittime, newer, threw>>
-----------------------------------------------------------------------------
(* SyncPointManager::get_syncpoint(), emitters, release_syncpoint()        *)

\* get_syncpoint() for the points S, and register_emitter() at the point out
Join(c, S, out) ==
  /\ watchers' = [x \in SyncPoints |->
       IF \E s \in S : x \in Up[s] THEN watchers[x] \cup {c} ELSE watchers[x]]
  /\ emitters' = [x \in SyncPoints |->
       IF out # None /\ x \in Up[out] THEN More(emitters[x], c) ELSE emitters[x]]
  /\ pending_emitters' = [x \in SyncPoints |->
       IF out # None /\ x \in Up[out] THEN More(pending_emitters[x], c) ELSE pending_emitters[x]]
  /\ UNCHANGED <<watchers_wait_for_one, watchers_wait_for_all, timer_running, timer_owner,
                 max_waittime, newer, call, threw>>

\* unregister_emitter(): what the component still owes is emitted first
UnregisterEmit(c, s) ==
  IF emitters[s][c] > 0 /\ pending_emitters[s][c] > 0 THEN emit(c, s) ELSE UNCHANGED points

\* then one registration is taken back, and the predecessors' without emitting
UnregisterErase(c, s) ==
  LET erased == {x \in Up[s] : \A y \in Up[s] : x \in Up[y] => emitters[y][c] > 0} IN
  /\ emitters' = [x \in SyncPoints |-> IF x \in erased THEN Less(emitters[x], c) ELSE emitters[x]]
  /\ UNCHANGED <<watchers, pending_emitters, watchers_wait_for_one, watchers_wait_for_all,
                 timer_running, timer_owner, max_waittime, newer, call, threw>>

\* the points that a release comes to: it stops where another successor is watched
Releasable(c, s) ==
  {x \in Up[s] : \A y \in Up[s] : x \in Up[y] =>
     \A z \in SyncPoints \ Up[s] : Pred[z] = y => c \notin watchers[z]}

\* Mutant: unwait() is forgotten.
ReleaseWaiting(c, s) ==
  /\ watchers' = [x \in SyncPoints |-> IF x \in Releasable(c, s) THEN watchers[x] \ {c} ELSE watchers[x]]
  /\ UNCHANGED <<emitters, pending_emitters, watchers_wait_for_one, watchers_wait_for_all,
                 timer_running, timer_owner, max_waittime, newer, call, threw>>

\* release_syncpoint(): unwait(), forget the watcher, complain, go on to the predecessor
Release(c, s) ==
  LET Bad(x) == c \notin watchers[x] \/ emitters[x][c] > 0
      done == {x \in Releasable(c, s) :
                 \A y \in Releasable(c, s) \ {x} : x \in Up[y] => ~Bad(y)}
  IN  /\ watchers' = [x \in SyncPoints |-> IF x \in done THEN watchers[x] \ {c} ELSE watchers[x]]
      /\ watchers_wait_for_one' = [x \in SyncPoints |->
           IF x \in done THEN watchers_wait_for_one[x] \ {c} ELSE watchers_wait_for_one[x]]
      /\ watchers_wait_for_all' = [x \in SyncPoints |->
           IF x \in done THEN watchers_wait_for_all[x] \ {c} ELSE watchers_wait_for_all[x]]
      /\ timer_running' = [x \in SyncPoints |->
           timer_running[x] /\ ~(x \in done /\ timer_owner[x] = c)]
      /\ threw' = IF \E x \in done : Bad(x) THEN threw \cup {c} ELSE threw
      /\ UNCHANGED <<emitters, pending_emitters, timer_owner, max_waittime, newer, call>>
=============================================================================
