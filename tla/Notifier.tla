------------------------------ MODULE Notifier ------------------------------
(***************************************************************************)
(* BlackBoardNotifier, its interface listeners, and the listener side in   *)
(* BlackBoardInterfaceListener (libs/blackboard).                          *)
(*                                                                         *)
(* For each kind of event the notifier keeps a multimap from interfaces to *)
(* listeners.  An event counts itself in events[k] under the mutex of its  *)
(* kind and then visits the listeners without it; while events are under   *)
(* way, registrations are queued, and the last event to end applies them.  *)
(* The mutex of a kind is held for single steps only, so each of its       *)
(* sections is one action.  A listener keeps what it watches in bbil_maps, *)
(* under mmutex, and what it wants to change in bbil_queue.                *)
(*                                                                         *)
(* Calls that register one listener are made one at a time: the listener's *)
(* own process makes them.                                                 *)
(***************************************************************************)
EXTENDS Naturals, Sequences, FiniteSets, SequencesExt, Iteration

CONSTANTS Uids,        \* interfaces
          Listeners,   \* BlackBoardInterfaceListener objects
          Threads,     \* threads that trigger events
          Events,      \* the kinds of notification that occur
          MaxQueue     \* a listener waits with changes while this many are deferred

Kinds == {"data", "messages", "reader", "writer"}

\* the map whose listeners a notification visits
KindOf(e) == CASE e = "data_refresh" -> "data"
               [] e = "message_received" -> "messages"
               [] e \in {"reader_added", "reader_removed"} -> "reader"
               [] e \in {"writer_added", "writer_removed"} -> "writer"

\* the queue in which it looks for deferred removals
CheckedQueue(e) == IF e \in {"reader_removed", "writer_removed"} THEN "data" ELSE KindOf(e)

ASSUME NotifierAssumption ==
  /\ Events \subseteq {"data_refresh", "message_received", "reader_added", "reader_removed",
                       "writer_added", "writer_removed"}
  /\ Events # {} /\ Uids # {} /\ MaxQueue \in Nat
  /\ IsFiniteSet(Threads) /\ IsFiniteSet(Uids)

UsedKinds == {KindOf(e) : e \in Events}

VARIABLES
  events,                      \* bbil_<kind>_events_
  bbil_map,                    \* bbil_<kind>_: pairs <<uid, listener>>
  deferred,                    \* bbil_<kind>_queue_
  bbil_maps, bbil_queue,       \* per listener: what it watches; what it wants to change
  mmutex,                      \* is bbil_maps_mutex_ held by the listener's process?
  lpc, work, flag,             \* per listener process: call, changes left, kinds considered
  tpc, ev, uid, todo, cur,     \* per thread: place, event, its interface, listeners left
  want, steady, missed         \* history: see below

notifier == <<events, bbil_map, deferred>>
listener == <<bbil_maps, bbil_queue, mmutex, lpc, work, flag>>
thread   == <<tpc, ev, uid, todo, cur>>
history  == <<want, steady, missed>>
vars     == <<notifier, listener, thread, history>>

\* entries of bbil_queue, and of work; entries of deferred[k]
Changes == [op : BOOLEAN, kind : Kinds, uid : Uids]
Registrations == [op : BOOLEAN, uid : Uids, listener : Listeners]

TypeOK ==
  /\ events \in [Kinds -> Nat]
  /\ DOMAIN bbil_map = Kinds /\ DOMAIN deferred = Kinds
  /\ bbil_maps \in [Listeners -> [Kinds -> SUBSET Uids]]
  /\ lpc \in [Listeners -> {"idle", "update", "unregister"}]
  /\ flag \in [Listeners -> SUBSET Kinds]
  /\ tpc \in [Threads -> {"idle", "visit", "lookup"}]
  /\ ev \in [Threads -> Events] /\ uid \in [Threads -> Uids]
  /\ todo \in [Threads -> SUBSET Listeners] /\ cur \in [Threads -> SUBSET Listeners]
  /\ steady \in [Threads -> SUBSET Listeners] /\ missed \in [Threads -> SUBSET Listeners]

Init ==
  /\ events = [k \in Kinds |-> 0]
  /\ bbil_map = [k \in Kinds |-> {}]
  /\ deferred = [k \in Kinds |-> <<>>]
  /\ bbil_maps = [l \in Listeners |-> [k \in Kinds |-> {}]]
  /\ bbil_queue = [l \in Listeners |-> <<>>]
  /\ mmutex = [l \in Listeners |-> FALSE]
  /\ lpc = [l \in Listeners |-> "idle"]
  /\ work = [l \in Listeners |-> <<>>]
  /\ flag = [l \in Listeners |-> {}]
  /\ tpc = [t \in Threads |-> "idle"]
  /\ ev \in [Threads -> {CHOOSE e \in Events : TRUE}]
  /\ uid \in [Threads -> {CHOOSE u \in Uids : TRUE}]
  /\ todo = [t \in Threads |-> {}]
  /\ cur = [t \in Threads |-> {}]
  /\ want = [k \in Kinds |-> {}]
  /\ steady = [t \in Threads |-> {}] /\ missed = [t \in Threads |-> {}]

\* add_listener() (which looks for a present entry first) and remove_listener()
Applied(m, c) == IF c.op THEN m \cup {<<c.uid, c.listener>>} ELSE m \ {<<c.uid, c.listener>>}
-----------------------------------------------------------------------------
(* History: want[k] is what the listeners asked for so far; steady[t] are  *)
(* the listeners whose registration for the event of t has been in force,  *)
(* with no change to it queued, ever since the event began; missed[t] are  *)
(* those that t passed over without calling them.                          *)

InForce(t, l) ==
  LET k == KindOf(ev[t]) IN
  /\ <<uid[t], l>> \in bbil_map[k]
  /\ uid[t] \in bbil_maps[l][k]
  /\ \A j \in DOMAIN deferred[k] : deferred[k][j].uid # uid[t] \/ deferred[k][j].listener # l

KeepSteady == steady' = [t \in Threads |-> {l \in steady[t] : InForce(t, l)'}]
-----------------------------------------------------------------------------
(* A listener changes its watch lists and registers them.                  *)

\* a queue without the pending change that c replaces
Without(q, c) == RemoveFirstMatch(q, LAMBDA d : d.kind = c.kind /\ d.uid = c.uid)

\* bbil_add_*_interface(), bbil_remove_*_interface(): replace a pending change
BbilQueueAdd(l, c) ==
  /\ lpc[l] = "idle"
  /\ c.op => c.uid \notin bbil_maps[l][c.kind]
  /\ bbil_queue' = [bbil_queue EXCEPT ![l] = Append(Without(@, c), c)]
  /\ UNCHANGED <<notifier, bbil_maps, mmutex, lpc, work, flag, thread, history>>

\* register_listener() and update_listener() for the kinds F
UpdateListener(l, F) ==
  /\ lpc[l] = "idle"
  /\ \A k \in Kinds : Len(deferred[k]) < MaxQueue
  /\ lpc' = [lpc EXCEPT ![l] = "update"]
  /\ flag' = [flag EXCEPT ![l] = F]
  /\ work' = [work EXCEPT ![l] = Only(bbil_queue[l], {c \in Changes : c.kind \in F})]
  /\ UNCHANGED <<notifier, bbil_maps, bbil_queue, mmutex, thread, history>>

\* the same change for every interface in the maps of l
ForAllWatched(l, op) ==
  SetToSeq({[op |-> op, kind |-> x[1], uid |-> x[2]] :
            x \in {y \in Kinds \X Uids : y[2] \in bbil_maps[l][y[1]]}})

\* bbil_acquire_maps(), and a removal for every interface watched
UnregisterListener(l) ==
  /\ lpc[l] = "idle" /\ ~mmutex[l]
  /\ \A k \in Kinds : Len(deferred[k]) < MaxQueue
  /\ mmutex' = [mmutex EXCEPT ![l] = TRUE]
  /\ lpc' = [lpc EXCEPT ![l] = "unregister"]
  /\ work' = [work EXCEPT ![l] = ForAllWatched(l, FALSE)]
  /\ UNCHANGED <<notifier, bbil_maps, bbil_queue, flag, thread, history>>

\* Mutant: the change is applied whatever events are under way.
ProcListenerAtOnce(l) ==
  /\ work[l] # <<>>
  /\ LET k == Head(work[l]).kind
         c == [op |-> Head(work[l]).op, uid |-> Head(work[l]).uid, listener |-> l]
     IN  /\ bbil_map' = [bbil_map EXCEPT ![k] = Applied(@, c)]
         /\ want' = [want EXCEPT ![k] = Applied(@, c)]
  /\ work' = [work EXCEPT ![l] = Tail(@)]
  /\ UNCHANGED <<events, deferred, bbil_maps, bbil_queue, mmutex, lpc, flag, thread, missed>>
  /\ KeepSteady

\* proc_listener_maybe_queue() for the next change
ProcListenerMaybeQueue(l) ==
  /\ work[l] # <<>>
  /\ LET k == Head(work[l]).kind
         c == [op |-> Head(work[l]).op, uid |-> Head(work[l]).uid, listener |-> l]
     IN  /\ IF events[k] > 0
            THEN deferred' = [deferred EXCEPT ![k] = Append(@, c)] /\ UNCHANGED bbil_map
            ELSE bbil_map' = [bbil_map EXCEPT ![k] = Applied(@, c)] /\ UNCHANGED deferred
         /\ want' = [want EXCEPT ![k] = Applied(@, c)]
  /\ work' = [work EXCEPT ![l] = Tail(@)]
  /\ UNCHANGED <<events, bbil_maps, bbil_queue, mmutex, lpc, flag, thread, missed>>
  /\ KeepSteady

\* the last change for (k, u) in a queue q decides; if there is none, was does
Decided(q, k, u, was) ==
  LET J == {j \in DOMAIN q : q[j].kind = k /\ q[j].uid = u}
  IN  IF J = {} THEN was ELSE q[Max(J)].op

Watches(l, k, u) == Decided(bbil_queue[l], k, u, u \in bbil_maps[l][k])

\* bbil_release_queue(): the listener takes over the changes of the kinds considered
ReleaseQueue(l) ==
  /\ lpc[l] = "update" /\ work[l] = <<>>
  /\ bbil_maps' = [bbil_maps EXCEPT ![l] = [k \in Kinds |->
       IF k \in flag[l] THEN {u \in Uids : Watches(l, k, u)} ELSE @[k]]]
  /\ bbil_queue' = [bbil_queue EXCEPT ![l] = Only(@, {c \in Changes : c.kind \notin flag[l]})]
  /\ lpc' = [lpc EXCEPT ![l] = "idle"]
  /\ flag' = [flag EXCEPT ![l] = {}]
  /\ UNCHANGED <<notifier, mmutex, work, thread, want, missed>>
  /\ KeepSteady

\* Mutant: the watch lists are kept.
ReleaseMapsUncleared(l) ==
  /\ lpc[l] = "unregister" /\ work[l] = <<>>
  /\ mmutex' = [mmutex EXCEPT ![l] = FALSE]
  /\ lpc' = [lpc EXCEPT ![l] = "idle"]
  /\ UNCHANGED <<notifier, bbil_maps, bbil_queue, work, flag, thread, history>>

\* bbil_release_maps(): all it watched is to be added by the next registration
ReleaseMaps(l) ==
  /\ lpc[l] = "unregister" /\ work[l] = <<>>
  /\ bbil_queue' = [bbil_queue EXCEPT ![l] = @ \o ForAllWatched(l, TRUE)]
  /\ bbil_maps' = [bbil_maps EXCEPT ![l] = [k \in Kinds |-> {}]]
  /\ mmutex' = [mmutex EXCEPT ![l] = FALSE]
  /\ lpc' = [lpc EXCEPT ![l] = "idle"]
  /\ UNCHANGED <<notifier, work, flag, thread, want, missed>>
  /\ KeepSteady
-----------------------------------------------------------------------------
(* notify_of_*()                                                           *)

Goto(t, where) == tpc' = [tpc EXCEPT ![t] = where]

\* count the event, then find the listeners of the interface
Notify(t, e, u) ==
  LET k == KindOf(e) IN
  /\ tpc[t] = "idle"
  /\ events' = [events EXCEPT ![k] = @ + 1]
  /\ ev' = [ev EXCEPT ![t] = e] /\ uid' = [uid EXCEPT ![t] = u]
  /\ todo' = [todo EXCEPT ![t] = {l \in Listeners : <<u, l>> \in bbil_map[k]}]
  /\ Goto(t, "visit")
  /\ UNCHANGED <<bbil_map, deferred, listener, cur, want>>
  /\ steady' = [steady EXCEPT ![t] = {l \in Listeners : InForce(t, l)'}]
  /\ missed' = [missed EXCEPT ![t] = {}]

\* Mutant: the removal of another listener of the interface is taken for one of this.
is_in_queue_any(k, u, l) ==
  \E j \in DOMAIN deferred[k] : ~deferred[k][j].op /\ deferred[k][j].uid = u

is_in_queue(k, u, l) ==
  \E j \in DOMAIN deferred[k] : deferred[k][j] = [op |-> FALSE, uid |-> u, listener |-> l]

\* the next listener: passed over if its removal is queued
Visit(t, l) ==
  /\ tpc[t] = "visit" /\ l \in todo[t]
  /\ todo' = [todo EXCEPT ![t] = @ \ {l}]
  /\ IF is_in_queue(CheckedQueue(ev[t]), uid[t], l)
     THEN missed' = [missed EXCEPT ![t] = @ \cup {l}] /\ UNCHANGED <<tpc, cur>>
     ELSE Goto(t, "lookup") /\ cur' = [cur EXCEPT ![t] = {l}] /\ UNCHANGED missed
  /\ UNCHANGED <<notifier, listener, ev, uid, want, steady>>

\* bbil_find_interface() under bbil_maps_mutex_, and the callback if there is one; a
\* listener for messages may veto, which ends the loop
Lookup(t, l) ==
  LET k == KindOf(ev[t]) IN
  /\ tpc[t] = "lookup" /\ cur[t] = {l} /\ ~mmutex[l]
  /\ IF uid[t] \in bbil_maps[l][k]
     THEN /\ UNCHANGED missed
          /\ \/ UNCHANGED todo
             \/ k = "messages" /\ todo' = [todo EXCEPT ![t] = {}]
     ELSE missed' = [missed EXCEPT ![t] = @ \cup {l}] /\ UNCHANGED todo
  /\ cur' = [cur EXCEPT ![t] = {}]
  /\ Goto(t, "visit")
  /\ UNCHANGED <<notifier, listener, ev, uid, want, steady>>

\* Mutants: the deferred changes are applied in the wrong order; by every event; only
\* if the counter was zero before the event was taken off it.
DrainedBackwards(k) == Iterated(Applied, bbil_map[k], Reverse(deferred[k]))
MayDrainAlways(k) == TRUE
MayDrainStale(k) == events[k] = 0

\* process_queue()
Drain(m, q) == Iterated(Applied, m, q)
Drained(k) == Drain(bbil_map[k], deferred[k])
MayDrain(k) == events[k] - 1 = 0

\* the event ends; if it was the last one under way it applies the deferred changes
NotifyEnd(t) ==
  LET k == KindOf(ev[t]) IN
  /\ tpc[t] = "visit" /\ todo[t] = {}
  /\ events' = [events EXCEPT ![k] = @ - 1]
  /\ IF MayDrain(k)
     THEN /\ bbil_map' = [bbil_map EXCEPT ![k] = Drained(k)]
          /\ deferred' = [deferred EXCEPT ![k] = <<>>]
     ELSE UNCHANGED <<bbil_map, deferred>>
  /\ Goto(t, "idle")
  /\ steady' = [steady EXCEPT ![t] = {}] /\ missed' = [missed EXCEPT ![t] = {}]
  /\ UNCHANGED <<listener, ev, uid, todo, cur, want>>
-----------------------------------------------------------------------------
ListenerStep(l) ==
  \/ \E k \in UsedKinds, u \in Uids, op \in BOOLEAN :
       BbilQueueAdd(l, [op |-> op, kind |-> k, uid |-> u])
  \/ \E F \in SUBSET UsedKinds : UpdateListener(l, F)
  \/ UnregisterListener(l)
  \/ ProcListenerMaybeQueue(l)
  \/ ReleaseQueue(l)
  \/ ReleaseMaps(l)

ThreadStep(t) ==
  \/ \E l \in Listeners : Visit(t, l) \/ Lookup(t, l)
  \/ NotifyEnd(t)

Next == \/ \E l \in Listeners : ListenerStep(l)
        \/ \E t \in Threads : ThreadStep(t) \/ \E e \in Events, u \in Uids : Notify(t, e, u)

Spec == Init /\ [][Next]_vars
-----------------------------------------------------------------------------
(* Properties                                                              *)

\* An event iterates over a multimap without a lock: everything it has still to visit
\* stays in the map, whatever is registered, unregistered or ends meanwhile.
IteratorsValid ==
  \A t \in Threads : tpc[t] # "idle" =>
    \A l \in todo[t] \cup cur[t] : <<uid[t], l>> \in bbil_map[KindOf(ev[t])]

\* Deferring has no effect of its own: the map with the queued changes applied in
\* order is what applying every change at once would have given.
DeferredAsImmediate == \A k \in Kinds : Drained(k) = want[k]

\* No change stays behind in a queue when no event is left to apply it.
NothingLeftDeferred == \A k \in Kinds : events[k] = 0 => deferred[k] = <<>>

\* Notifier and listener agree: between its calls a listener is registered, now or
\* by a deferred change, for exactly what it watches.
ListenerAgrees ==
  \A l \in Listeners : lpc[l] = "idle" =>
    \A k \in Kinds : {u \in Uids : <<u, l>> \in want[k]} = bbil_maps[l][k]

\* bb_interface_*() "is called whenever" the event happens: a listener whose
\* registration is in force throughout the event is not passed over, whatever other
\* registrations of its own or of others are queued.
NoListenerMissed == \A t \in Threads : missed[t] \cap steady[t] = {}

\* The counter counts the events under way: it neither underflows nor leaks.
Underway(k) == {t \in Threads : tpc[t] # "idle" /\ KindOf(ev[t]) = k}
EventsCounted == \A k \in Kinds : events[k] = Cardinality(Underway(k))

\* Every event consults its own queue for deferred removals.
OwnQueue == \A e \in Events : CheckedQueue(e) = KindOf(e)

\* What is in force stays so under the feet of an event unless it is noticed.
SteadyInForce == \A t \in Threads : tpc[t] # "idle" => \A l \in steady[t] : InForce(t, l)

\* A listener is looked at only between Visit and Lookup.
LooksAtOne == \A t \in Threads : tpc[t] # "lookup" => cur[t] = {}

\* The inductive invariant: the counter is what keeps the maps still during an event.
NotifierInv ==
  /\ TypeOK
  /\ EventsCounted
  /\ NothingLeftDeferred
  /\ LooksAtOne
  /\ IteratorsValid
  /\ SteadyInForce
  /\ OwnQueue => NoListenerMissed

QueuesTyped ==
  /\ bbil_map \in [Kinds -> SUBSET (Uids \X Listeners)]
  /\ want \in [Kinds -> SUBSET (Uids \X Listeners)]
  /\ deferred \in [Kinds -> Seq(Registrations)]
  /\ bbil_queue \in [Listeners -> Seq(Changes)]
  /\ work \in [Listeners -> Seq(Changes)]

\* A listener's process between its calls has no work left.
IdleDone == \A l \in Listeners : lpc[l] = "idle" => work[l] = <<>>

\* While register_listener() or update_listener() runs, what is left to do makes the
\* notifier agree with what the listener is going to watch.
UpdateAgrees ==
  \A l \in Listeners : lpc[l] = "update" =>
    \A k \in Kinds, u \in Uids :
      Decided(work[l], k, u, <<u, l>> \in want[k])
        <=> IF k \in flag[l] THEN Watches(l, k, u) ELSE u \in bbil_maps[l][k]

\* q removes registrations only, and that for (k, u) among them
RemovesOnly(q) == \A j \in 1..Len(q) : ~q[j].op
Mentions(q, k, u) == \E j \in 1..Len(q) : q[j].kind = k /\ q[j].uid = u

\* While unregister_listener() runs, what is left to do takes off what is registered.
UnregisterAgrees ==
  \A l \in Listeners : lpc[l] = "unregister" =>
    /\ RemovesOnly(work[l])
    /\ \A k \in Kinds, u \in Uids : <<u, l>> \in want[k] => Mentions(work[l], k, u)

\* The inductive invariant for what is registered.
RegistrationInv ==
  /\ QueuesTyped
  /\ DeferredAsImmediate
  /\ ListenerAgrees
  /\ IdleDone
  /\ UpdateAgrees
  /\ UnregisterAgrees
=============================================================================
