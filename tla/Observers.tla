----------------------------- MODULE Observers ------------------------------
(***************************************************************************)
(* BlackBoardNotifier, its interface observers (libs/blackboard):          *)
(* callbacks for the creation and the destruction of interfaces.           *)
(*                                                                         *)
(* As for listeners, an event counts itself in bbio_events and walks the   *)
(* lists without bbio_mutex; meanwhile (un)registrations are queued, and   *)
(* the last event to end applies them.  Unlike listeners, unregistering    *)
(* searches the queue in a loop, with the mutex held; it is modelled       *)
(* iteration by iteration.                                                 *)
(*                                                                         *)
(* The calls of one observer's process are made one at a time.             *)
(***************************************************************************)
EXTENDS Naturals, Sequences, FiniteSets, SequencesExt, Iteration

CONSTANTS Observers,   \* BlackBoardInterfaceObserver objects
          Watched,     \* what each observes: [Observers -> SUBSET Kinds]
          Threads,     \* threads that create and destroy interfaces
          MaxQueue,    \* no new call is made while this many are queued
          Nobody       \* bbio_mutex is free

Kinds == {"created", "destroyed"}

ASSUME ObserversAssumption ==
  /\ Watched \in [Observers -> SUBSET Kinds]
  /\ Observers \cap Threads = {} /\ Nobody \notin Observers \cup Threads
  /\ IsFiniteSet(Threads) /\ MaxQueue \in Nat

VARIABLES
  bbio_mutex,           \* who holds it: Nobody or an observer's process
  bbio_events,
  bbio,                 \* bbio_created_ and bbio_destroyed_: lists of observers
  bbio_queue,           \* pairs <<1 | 0, observer>>: register, unregister
  opc,                  \* per observer's process: where it is
  tpc, kind, todo,      \* per thread: place, event, observers it has still to visit
  gone                  \* history: observers whose unregister_observer() has returned

vars == <<bbio_mutex, bbio_events, bbio, bbio_queue, opc, tpc, kind, todo, gone>>

Init ==
  /\ bbio_mutex = Nobody
  /\ bbio_events = 0
  /\ bbio = [k \in Kinds |-> <<>>]
  /\ bbio_queue = <<>>
  /\ opc = [o \in Observers |-> "idle"]
  /\ tpc = [t \in Threads |-> "idle"]
  /\ kind = [t \in Threads |-> "created"]
  /\ todo = [t \in Threads |-> <<>>]
  /\ gone = Observers

\* add_observer() and remove_observer(), for both maps
Added(b, o) == [k \in Kinds |-> IF k \in Watched[o] THEN Append(b[k], o) ELSE b[k]]
Removed(b, o) == [k \in Kinds |-> Only(b[k], Observers \ {o})]
Processed(b, e) == IF e[1] = 1 THEN Added(b, e[2]) ELSE Removed(b, e[2])
-----------------------------------------------------------------------------
(* Calls of an observer's process                                          *)

\* Mutant: the observer is added though an event walks the lists.
RegisterObserverAtOnce(o) ==
  /\ opc[o] = "idle" /\ bbio_mutex = Nobody
  /\ \A k \in Kinds : Len(bbio[k]) < MaxQueue
  /\ bbio' = Added(bbio, o)
  /\ gone' = gone \ {o}
  /\ UNCHANGED <<bbio_mutex, bbio_events, bbio_queue, opc, tpc, kind, todo>>

RegisterObserver(o) ==
  /\ opc[o] = "idle" /\ bbio_mutex = Nobody
  /\ Len(bbio_queue) < MaxQueue /\ \A k \in Kinds : Len(bbio[k]) < MaxQueue
  /\ IF bbio_events > 0
     THEN bbio_queue' = Append(bbio_queue, <<1, o>>) /\ UNCHANGED bbio
     ELSE bbio' = Added(bbio, o) /\ UNCHANGED bbio_queue
  /\ gone' = gone \ {o}
  /\ UNCHANGED <<bbio_mutex, bbio_events, opc, tpc, kind, todo>>

\* unregister_observer() enters; without an event under way it is done at once
UnregisterObserver(o) ==
  /\ opc[o] = "idle" /\ bbio_mutex = Nobody
  /\ Len(bbio_queue) < MaxQueue
  /\ IF bbio_events > 0
     THEN /\ bbio_mutex' = o
          /\ opc' = [opc EXCEPT ![o] = "search"]
          /\ UNCHANGED <<bbio, gone>>
     ELSE /\ bbio' = Removed(bbio, o)
          /\ gone' = gone \cup {o}
          /\ UNCHANGED <<bbio_mutex, opc>>
  /\ UNCHANGED <<bbio_events, bbio_queue, tpc, kind, todo>>

\* what find_if() looks for: an entry that is not the removal of o
Differs(e, o) == e # <<0, o>>

\* One iteration: the first entry that differs is erased if it is o's.  If it is
\* another observer's nothing changes, and the next iteration finds it again.
SearchQueue(o) ==
  LET J == {j \in DOMAIN bbio_queue : Differs(bbio_queue[j], o)}
      re == CHOOSE j \in J : \A i \in J : j <= i
  IN  /\ opc[o] = "search" /\ J # {}
      /\ bbio_queue' = IF bbio_queue[re][2] = o THEN RemoveAt(bbio_queue, re) ELSE bbio_queue
      /\ UNCHANGED <<bbio_mutex, bbio_events, bbio, opc, tpc, kind, todo, gone>>

\* Mutant: the removal is not queued if the search emptied the queue.
QueueRemovalIfOthers(o) ==
  /\ opc[o] = "search"
  /\ ~\E j \in DOMAIN bbio_queue : Differs(bbio_queue[j], o)
  /\ bbio_queue' = IF bbio_queue = <<>> THEN bbio_queue ELSE Append(bbio_queue, <<0, o>>)
  /\ bbio_mutex' = Nobody
  /\ opc' = [opc EXCEPT ![o] = "idle"]
  /\ gone' = gone \cup {o}
  /\ UNCHANGED <<bbio_events, bbio, tpc, kind, todo>>

\* the search has found nothing (more)
QueueRemoval(o) ==
  /\ opc[o] = "search"
  /\ ~\E j \in DOMAIN bbio_queue : Differs(bbio_queue[j], o)
  /\ bbio_queue' = Append(bbio_queue, <<0, o>>)
  /\ bbio_mutex' = Nobody
  /\ opc' = [opc EXCEPT ![o] = "idle"]
  /\ gone' = gone \cup {o}
  /\ UNCHANGED <<bbio_events, bbio, tpc, kind, todo>>
-----------------------------------------------------------------------------
(* notify_of_interface_created(), notify_of_interface_destroyed()          *)

Notify(t, k) ==
  /\ tpc[t] = "idle" /\ bbio_mutex = Nobody
  /\ bbio_events' = bbio_events + 1
  /\ kind' = [kind EXCEPT ![t] = k]
  /\ todo' = [todo EXCEPT ![t] = bbio[k]]
  /\ tpc' = [tpc EXCEPT ![t] = "walk"]
  /\ UNCHANGED <<bbio_mutex, bbio, bbio_queue, opc, gone>>

\* The next entry.  If one of its patterns (fnmatch) matches the type and the id the
\* observer is called; what it does then are calls and events of their own.
Walk(t) ==
  /\ tpc[t] = "walk" /\ todo[t] # <<>>
  /\ todo' = [todo EXCEPT ![t] = Tail(@)]
  /\ UNCHANGED <<bbio_mutex, bbio_events, bbio, bbio_queue, opc, tpc, kind, gone>>

\* process_bbio_queue(): what its loop makes of the lists
ProcessQueue(b, q) == Iterated(Processed, b, q)

\* Mutant: an event that finds changes queued leaves before it takes itself off the counter.
NotifyEndUncounted(t) ==
  /\ tpc[t] = "walk" /\ todo[t] = <<>> /\ bbio_mutex = Nobody
  /\ bbio_events' = IF bbio_queue = <<>> THEN bbio_events - 1 ELSE bbio_events
  /\ tpc' = [tpc EXCEPT ![t] = "idle"]
  /\ UNCHANGED <<bbio_mutex, bbio, bbio_queue, opc, kind, todo, gone>>

NotifyEnd(t) ==
  /\ tpc[t] = "walk" /\ todo[t] = <<>> /\ bbio_mutex = Nobody
  /\ bbio_events' = bbio_events - 1
  /\ IF bbio_events - 1 = 0
     THEN bbio' = ProcessQueue(bbio, bbio_queue) /\ bbio_queue' = <<>>
     ELSE UNCHANGED <<bbio, bbio_queue>>
  /\ tpc' = [tpc EXCEPT ![t] = "idle"]
  /\ UNCHANGED <<bbio_mutex, opc, kind, todo, gone>>
-----------------------------------------------------------------------------
ObserverStep(o) == RegisterObserver(o) \/ UnregisterObserver(o) \/ SearchQueue(o) \/ QueueRemoval(o)
ThreadStep(t) == Walk(t) \/ NotifyEnd(t)

Next == \/ \E o \in Observers : ObserverStep(o)
        \/ \E t \in Threads : ThreadStep(t) \/ \E k \in Kinds : Notify(t, k)

Spec == Init /\ [][Next]_vars

\* A thread in a call goes on when it can, and gets bbio_mutex if it is free again and
\* again; nobody has to register, to unregister or to create an interface.
Fairness ==
  /\ \A t \in Threads : WF_vars(Walk(t)) /\ SF_vars(NotifyEnd(t))
  /\ \A o \in Observers : WF_vars(SearchQueue(o) \/ QueueRemoval(o))

LiveSpec == Spec /\ Fairness
-----------------------------------------------------------------------------
(* Properties                                                              *)

TypeOK ==
  /\ bbio_mutex \in Observers \cup {Nobody}
  /\ bbio_events \in 0..Cardinality(Threads)
  /\ bbio \in [Kinds -> Seq(Observers)]
  /\ bbio_queue \in Seq({0, 1} \X Observers)
  /\ opc \in [Observers -> {"idle", "search"}]
  /\ tpc \in [Threads -> {"idle", "walk"}]
  /\ kind \in [Threads -> Kinds]
  /\ todo \in [Threads -> Seq(Observers)]
  /\ gone \subseteq Observers

\* An event walks a list without the mutex: what it has still to visit is the end of
\* the list as it is now, whatever is registered or unregistered meanwhile.
WalkValid == \A t \in Threads : tpc[t] = "walk" => IsSuffix(todo[t], bbio[kind[t]])

\* Registrations take effect in the order of the calls: with the queue processed, an
\* observer that observes anything is in the lists iff its last call was
\* register_observer(), even if calls were queued and searched out of the queue.
LastCallWins ==
  LET b == ProcessQueue(bbio, bbio_queue) IN
  \A o \in Observers : opc[o] = "idle" =>
    \A k \in Watched[o] : (o \in Range(b[k])) = (o \notin gone)

\* The counter counts the events under way.
Walking == {t \in Threads : tpc[t] = "walk"}
EventsCounted == bbio_events = Cardinality(Walking)

\* Nothing stays behind in the queue when no event is left to process it.
NothingLeftQueued == bbio_events = 0 => bbio_queue = <<>>

\* An observer that searches the queue holds the mutex, and an event is under way.
SearchLocked == \A o \in Observers : opc[o] = "search" => bbio_mutex = o /\ bbio_events > 0

\* The inductive invariant: while the counter is above zero the lists are still, and
\* while an observer searches the queue nobody else changes it.
ObserversInv ==
  TypeOK /\ EventsCounted /\ NothingLeftQueued /\ SearchLocked /\ WalkValid /\ LastCallWins

\* unregister_observer() returns.
UnregisterReturns == \A o \in Observers : opc[o] = "search" ~> opc[o] = "idle"
=============================================================================
