--------------------------- MODULE NotifierProofs ---------------------------
(***************************************************************************)
(* The event counters keep the multimaps of the notifier still while an    *)
(* event iterates over them without a lock, and no listener whose          *)
(* registration is in force is passed over, for any number of threads,     *)
(* listeners and interfaces.                                               *)
(***************************************************************************)
EXTENDS Notifier, IterationProofs, FiniteSetTheorems

\* Every notification belongs to one of the four multimaps.
LEMMA KindsTyped == \A e \in Events : KindOf(e) \in Kinds
BY NotifierAssumption DEF KindOf, Kinds

\* The events under way are finitely many, so their counter can be read off.
LEMMA UnderwayCount ==
  ASSUME NEW k \in Kinds, EventsCounted
  PROVE  /\ IsFiniteSet(Underway(k))
         /\ events[k] = 0 => Underway(k) = {}
         /\ \A t \in Underway(k) : events[k] - 1 = 0 => Underway(k) = {t}
<1>1. IsFiniteSet(Underway(k))
  BY NotifierAssumption, FS_Subset DEF Underway
<1>2. events[k] = Cardinality(Underway(k)) /\ Cardinality(Underway(k)) \in Nat
  BY <1>1, FS_CardinalityType DEF EventsCounted
<1>3. events[k] = 0 => Underway(k) = {}
  BY <1>1, <1>2, FS_EmptySet
<1>4. ASSUME NEW t \in Underway(k), events[k] - 1 = 0
      PROVE  Underway(k) = {t}
  <2>1. Cardinality(Underway(k)) = 1
    BY <1>2, <1>4
  <2> QED
    BY <1>1, <1>4, <2>1, FS_Singleton
<1> QED
  BY <1>1, <1>3, <1>4

\* Every action keeps the types; the counter is above zero when an event ends.
LEMMA TypesStay == TypeOK /\ EventsCounted /\ [Next]_vars => TypeOK'
<1> SUFFICES ASSUME TypeOK, EventsCounted, [Next]_vars PROVE TypeOK'
  OBVIOUS
<1> USE KindsTyped DEF TypeOK
<1>1. CASE UNCHANGED vars
  BY <1>1 DEF vars, notifier, listener, thread, history
<1>2. ASSUME NEW l \in Listeners, NEW c, BbilQueueAdd(l, c) PROVE TypeOK'
  BY <1>2 DEF BbilQueueAdd, notifier, thread, history
<1>3. ASSUME NEW l \in Listeners, NEW F \in SUBSET UsedKinds, UpdateListener(l, F) PROVE TypeOK'
  <2>1. F \subseteq Kinds
    BY DEF UsedKinds
  <2> QED
    BY <1>3, <2>1 DEF UpdateListener, notifier, thread, history
<1>4. ASSUME NEW l \in Listeners, UnregisterListener(l) PROVE TypeOK'
  BY <1>4 DEF UnregisterListener, notifier, thread, history
<1>5. ASSUME NEW l \in Listeners, ProcListenerMaybeQueue(l) PROVE TypeOK'
  BY <1>5 DEF ProcListenerMaybeQueue, KeepSteady, thread
<1>6. ASSUME NEW l \in Listeners, ReleaseQueue(l) PROVE TypeOK'
  <2>1. bbil_maps' \in [Listeners -> [Kinds -> SUBSET Uids]]
    BY <1>6 DEF ReleaseQueue
  <2> QED
    BY <1>6, <2>1 DEF ReleaseQueue, KeepSteady, notifier, thread
<1>7. ASSUME NEW l \in Listeners, ReleaseMaps(l) PROVE TypeOK'
  <2>1. bbil_maps' \in [Listeners -> [Kinds -> SUBSET Uids]]
    BY <1>7 DEF ReleaseMaps
  <2> QED
    BY <1>7, <2>1 DEF ReleaseMaps, KeepSteady, notifier, thread
<1>8. ASSUME NEW t \in Threads, NEW e \in Events, NEW u \in Uids, Notify(t, e, u) PROVE TypeOK'
  BY <1>8 DEF Notify, Goto, listener
<1>9. ASSUME NEW t \in Threads, NEW l \in Listeners, Visit(t, l) PROVE TypeOK'
  <2>0. \/ UNCHANGED <<tpc, cur>>
        \/ /\ tpc' = [tpc EXCEPT ![t] = "lookup"]
           /\ cur' = [cur EXCEPT ![t] = {l}]
    BY <1>9 DEF Visit, Goto
  <2>1. tpc' \in [Threads -> {"idle", "visit", "lookup"}]
    BY <2>0
  <2>4. cur' \in [Threads -> SUBSET Listeners]
    BY <2>0
  <2>2. missed' \in [Threads -> SUBSET Listeners]
    BY <1>9 DEF Visit, Goto
  <2>3. todo' \in [Threads -> SUBSET Listeners]
    BY <1>9 DEF Visit
  <2> QED
    BY <1>9, <2>1, <2>2, <2>3, <2>4 DEF Visit, notifier, listener
<1>10. ASSUME NEW t \in Threads, NEW l \in Listeners, Lookup(t, l) PROVE TypeOK'
  <2>1. tpc' \in [Threads -> {"idle", "visit", "lookup"}] /\ cur' \in [Threads -> SUBSET Listeners]
    BY <1>10 DEF Lookup, Goto
  <2>2. missed' \in [Threads -> SUBSET Listeners]
    BY <1>10 DEF Lookup
  <2>3. todo' \in [Threads -> SUBSET Listeners]
    BY <1>10 DEF Lookup
  <2> QED
    BY <1>10, <2>1, <2>2, <2>3 DEF Lookup, notifier, listener
<1>11. ASSUME NEW t \in Threads, NotifyEnd(t) PROVE TypeOK'
  <2>1. KindOf(ev[t]) \in Kinds
    OBVIOUS
  <2>2. events[KindOf(ev[t])] # 0
    BY <1>11, <2>1, UnderwayCount DEF NotifyEnd, Underway
  <2>3. events' \in [Kinds -> Nat]
    BY <1>11, <2>1, <2>2 DEF NotifyEnd
  <2>4. tpc' \in [Threads -> {"idle", "visit", "lookup"}]
    BY <1>11 DEF NotifyEnd, Goto
  <2>5. DOMAIN bbil_map' = Kinds /\ DOMAIN deferred' = Kinds
    BY <1>11 DEF NotifyEnd
  <2>6. steady' \in [Threads -> SUBSET Listeners] /\ missed' \in [Threads -> SUBSET Listeners]
    BY <1>11 DEF NotifyEnd
  <2> QED
    BY <1>11, <2>3, <2>4, <2>5, <2>6 DEF NotifyEnd, listener
<1> QED
  BY <1>1, <1>2, <1>3, <1>4, <1>5, <1>6, <1>7, <1>8, <1>9, <1>10, <1>11
     DEF Next, ListenerStep, ThreadStep

-----------------------------------------------------------------------------
\* What an event has to do with the counters: it is counted from its first to its
\* last step.
LEMMA CountStays == TypeOK /\ EventsCounted /\ [Next]_vars => EventsCounted'
<1> SUFFICES ASSUME TypeOK, EventsCounted, [Next]_vars PROVE EventsCounted'
  OBVIOUS
<1>1. ASSUME UNCHANGED <<events, tpc, ev>> PROVE EventsCounted'
  BY <1>1 DEF EventsCounted, Underway
<1>2. ASSUME NEW t \in Threads, NEW e \in Events, NEW u \in Uids, Notify(t, e, u)
      PROVE  EventsCounted'
  <2> SUFFICES ASSUME NEW k \in Kinds PROVE events'[k] = Cardinality(Underway(k)')
    BY DEF EventsCounted
  <2>1. CASE k = KindOf(e)
    <3>1. Underway(k)' = Underway(k) \cup {t} /\ t \notin Underway(k)
      BY <1>2, <2>1 DEF Notify, Goto, Underway, TypeOK
    <3>2. Cardinality(Underway(k)') = Cardinality(Underway(k)) + 1
      BY <3>1, UnderwayCount, FS_AddElement
    <3> QED
      BY <1>2, <2>1, <3>2 DEF Notify, EventsCounted, TypeOK
  <2>2. CASE k # KindOf(e)
    <3>1. Underway(k)' = Underway(k)
      BY <1>2, <2>2 DEF Notify, Goto, Underway, TypeOK
    <3> QED
      BY <1>2, <2>2, <3>1 DEF Notify, EventsCounted, TypeOK
  <2> QED
    BY <2>1, <2>2
<1>3. ASSUME NEW t \in Threads, NEW l \in Listeners, Visit(t, l) \/ Lookup(t, l)
      PROVE  EventsCounted'
  <2>1. \A s \in Threads : (tpc'[s] # "idle") <=> (tpc[s] # "idle")
    <3>1. CASE Visit(t, l)
      BY <3>1 DEF Visit, Goto, TypeOK
    <3>2. CASE Lookup(t, l)
      BY <3>2 DEF Lookup, Goto, TypeOK
    <3> QED
      BY <1>3, <3>1, <3>2
  <2>2. UNCHANGED <<events, ev>>
    BY <1>3 DEF Visit, Lookup, notifier
  <2>3. \A k \in Kinds : Underway(k)' = Underway(k)
    BY <2>1, <2>2 DEF Underway
  <2> QED
    BY <2>2, <2>3 DEF EventsCounted
<1>4. ASSUME NEW t \in Threads, NotifyEnd(t) PROVE EventsCounted'
  <2> SUFFICES ASSUME NEW k \in Kinds PROVE events'[k] = Cardinality(Underway(k)')
    BY DEF EventsCounted
  <2>1. CASE k = KindOf(ev[t])
    <3>1. Underway(k)' = Underway(k) \ {t} /\ t \in Underway(k)
      BY <1>4, <2>1 DEF NotifyEnd, Goto, Underway, TypeOK
    <3>2. Cardinality(Underway(k)') = Cardinality(Underway(k)) - 1
      BY <3>1, UnderwayCount, FS_RemoveElement
    <3> QED
      BY <1>4, <2>1, <3>2 DEF NotifyEnd, EventsCounted, TypeOK
  <2>2. CASE k # KindOf(ev[t])
    <3>1. Underway(k)' = Underway(k)
      BY <1>4, <2>2 DEF NotifyEnd, Goto, Underway, TypeOK
    <3> QED
      BY <1>4, <2>2, <3>1 DEF NotifyEnd, EventsCounted, TypeOK
  <2> QED
    BY <2>1, <2>2
<1>5. ASSUME NEW l \in Listeners, ListenerStep(l) PROVE UNCHANGED <<events, tpc, ev>>
  BY <1>5 DEF ListenerStep, BbilQueueAdd, UpdateListener, UnregisterListener,
              ProcListenerMaybeQueue, ReleaseQueue, ReleaseMaps, notifier, thread
<1> QED
  BY <1>1, <1>2, <1>3, <1>4, <1>5 DEF Next, ThreadStep, vars, notifier, thread

-----------------------------------------------------------------------------
\* The multimap and the queue of a kind change under an event only by adding to the
\* queue: a change is applied when no event of the kind is under way, and an event
\* that ends applies the queue when it is the last.
LEMMA MapsStill ==
  ASSUME TypeOK, EventsCounted, Next, NEW t \in Threads, tpc[t] # "idle", tpc'[t] # "idle"
  PROVE  LET k == KindOf(ev[t]) IN
         /\ ev'[t] = ev[t] /\ uid'[t] = uid[t]
         /\ bbil_map'[k] = bbil_map[k]
<1> DEFINE k == KindOf(ev[t])
<1>0. k \in Kinds /\ t \in Underway(k)
  BY KindsTyped DEF TypeOK, Underway
<1>1. ASSUME NEW l \in Listeners, ListenerStep(l), ~ProcListenerMaybeQueue(l)
      PROVE  UNCHANGED <<ev, uid, bbil_map>>
  BY <1>1 DEF ListenerStep, BbilQueueAdd, UpdateListener, UnregisterListener, ReleaseQueue,
              ReleaseMaps, notifier, thread
<1>2. ASSUME NEW l \in Listeners, ProcListenerMaybeQueue(l)
      PROVE  UNCHANGED <<ev, uid>> /\ bbil_map'[k] = bbil_map[k]
  <2>1. events[k] # 0
    BY <1>0, UnderwayCount
  <2>2. events[k] > 0
    BY <1>0, <2>1 DEF TypeOK
  <2> QED
    BY <1>0, <1>2, <2>2 DEF ProcListenerMaybeQueue, thread, TypeOK
<1>3. ASSUME NEW s \in Threads, NEW e \in Events, NEW u \in Uids, Notify(s, e, u)
      PROVE  ev'[t] = ev[t] /\ uid'[t] = uid[t] /\ UNCHANGED bbil_map
  BY <1>3 DEF Notify, TypeOK
<1>4. ASSUME NEW s \in Threads, NEW l \in Listeners, Visit(s, l) \/ Lookup(s, l)
      PROVE  UNCHANGED <<ev, uid, bbil_map>>
  BY <1>4 DEF Visit, Lookup, notifier
<1>5. ASSUME NEW s \in Threads, NotifyEnd(s)
      PROVE  UNCHANGED <<ev, uid>> /\ bbil_map'[k] = bbil_map[k]
  <2>1. s # t
    BY <1>5 DEF NotifyEnd, Goto, TypeOK
  <2>2. CASE KindOf(ev[s]) = k
    <3>1. s \in Underway(k)
      BY <1>5, <2>2 DEF NotifyEnd, Underway
    <3>2. ~(events[k] - 1 = 0)
      BY <1>0, <2>1, <3>1, UnderwayCount
    <3> QED
      BY <1>5, <2>2, <3>2 DEF NotifyEnd, MayDrain
  <2>3. CASE KindOf(ev[s]) # k
    BY <1>0, <1>5, <2>3 DEF NotifyEnd, TypeOK
  <2> QED
    BY <2>2, <2>3
<1> QED
  BY <1>1, <1>2, <1>3, <1>4, <1>5 DEF Next, ThreadStep

\* What an event has still to visit stays in the multimap.
LEMMA IteratorsStay ==
  ASSUME TypeOK, EventsCounted, LooksAtOne, IteratorsValid, Next
  PROVE  IteratorsValid'
<1> SUFFICES ASSUME NEW t \in Threads, tpc'[t] # "idle",
                    NEW m \in todo'[t] \cup cur'[t]
             PROVE  <<uid'[t], m>> \in bbil_map'[KindOf(ev'[t])]
  BY DEF IteratorsValid
<1>1. CASE tpc[t] # "idle"
  <2>1. m \in todo[t] \cup cur[t]
    <3>1. ASSUME NEW l \in Listeners, ListenerStep(l) PROVE UNCHANGED <<todo, cur>>
      BY <3>1 DEF ListenerStep, BbilQueueAdd, UpdateListener, UnregisterListener,
                  ProcListenerMaybeQueue, ReleaseQueue, ReleaseMaps, thread
    <3>2. ASSUME NEW s \in Threads, NEW e \in Events, NEW u \in Uids, Notify(s, e, u)
          PROVE  todo'[t] = todo[t] /\ UNCHANGED cur
      BY <1>1, <3>2 DEF Notify, TypeOK
    <3>3. ASSUME NEW s \in Threads, NEW l \in Listeners, Visit(s, l)
          PROVE  m \in todo[t] \cup cur[t]
      BY <3>3 DEF Visit, TypeOK
    <3>4. ASSUME NEW s \in Threads, NEW l \in Listeners, Lookup(s, l)
          PROVE  m \in todo[t] \cup cur[t]
      BY <3>4 DEF Lookup, TypeOK
    <3>5. ASSUME NEW s \in Threads, NotifyEnd(s) PROVE UNCHANGED <<todo, cur>>
      BY <3>5 DEF NotifyEnd
    <3> QED
      BY <3>1, <3>2, <3>3, <3>4, <3>5 DEF Next, ThreadStep
  <2> QED
    BY <1>1, <2>1, MapsStill DEF IteratorsValid
<1>2. CASE tpc[t] = "idle"
  <2>1. PICK e \in Events, u \in Uids : Notify(t, e, u)
    <3>1. ASSUME NEW l \in Listeners, ListenerStep(l) PROVE UNCHANGED tpc
      BY <3>1 DEF ListenerStep, BbilQueueAdd, UpdateListener, UnregisterListener,
                  ProcListenerMaybeQueue, ReleaseQueue, ReleaseMaps, thread
    <3>2. ASSUME NEW s \in Threads, ThreadStep(s) PROVE tpc'[t] = "idle"
      BY <1>2, <3>2 DEF ThreadStep, Visit, Lookup, NotifyEnd, Goto, TypeOK
    <3>3. ASSUME NEW s \in Threads, NEW e \in Events, NEW u \in Uids, Notify(s, e, u), s # t
          PROVE  tpc'[t] = "idle"
      BY <1>2, <3>3 DEF Notify, Goto, TypeOK
    <3> QED
      BY <1>2, <3>1, <3>2, <3>3 DEF Next
  <2> QED
    BY <1>2, <2>1 DEF Notify, TypeOK, LooksAtOne
<1> QED
  BY <1>1, <1>2

-----------------------------------------------------------------------------
\* Only a thread between Visit and Lookup looks at a listener.
LEMMA LooksStay == TypeOK /\ LooksAtOne /\ Next => LooksAtOne'
<1> SUFFICES ASSUME TypeOK, LooksAtOne, Next PROVE LooksAtOne'
  OBVIOUS
<1>1. ASSUME NEW l \in Listeners, ListenerStep(l) PROVE UNCHANGED <<tpc, cur>>
  BY <1>1 DEF ListenerStep, BbilQueueAdd, UpdateListener, UnregisterListener,
              ProcListenerMaybeQueue, ReleaseQueue, ReleaseMaps, thread
<1>2. ASSUME NEW t \in Threads, NEW e \in Events, NEW u \in Uids, Notify(t, e, u)
      PROVE  LooksAtOne'
  BY <1>2 DEF Notify, Goto, LooksAtOne, TypeOK
<1>3. ASSUME NEW t \in Threads, NEW l \in Listeners, Visit(t, l) PROVE LooksAtOne'
  BY <1>3 DEF Visit, Goto, LooksAtOne, TypeOK
<1>4. ASSUME NEW t \in Threads, NEW l \in Listeners, Lookup(t, l) PROVE LooksAtOne'
  BY <1>4 DEF Lookup, Goto, LooksAtOne, TypeOK
<1>5. ASSUME NEW t \in Threads, NotifyEnd(t) PROVE LooksAtOne'
  BY <1>5 DEF NotifyEnd, Goto, LooksAtOne, TypeOK
<1> QED
  BY <1>1, <1>2, <1>3, <1>4, <1>5 DEF Next, ThreadStep, LooksAtOne

\* No change is left in a queue that no event will apply.
LEMMA QueueStays ==
  ASSUME TypeOK, EventsCounted, NothingLeftDeferred, Next
  PROVE  NothingLeftDeferred'
<1> SUFFICES ASSUME NEW k \in Kinds, events'[k] = 0 PROVE deferred'[k] = <<>>
  BY DEF NothingLeftDeferred
<1>1. ASSUME UNCHANGED <<events, deferred>> PROVE deferred'[k] = <<>>
  BY <1>1 DEF NothingLeftDeferred
<1>2. ASSUME NEW l \in Listeners, ListenerStep(l), ~ProcListenerMaybeQueue(l)
      PROVE  UNCHANGED <<events, deferred>>
  BY <1>2 DEF ListenerStep, BbilQueueAdd, UpdateListener, UnregisterListener, ReleaseQueue,
              ReleaseMaps, notifier
<1>3. ASSUME NEW l \in Listeners, ProcListenerMaybeQueue(l) PROVE deferred'[k] = <<>>
  BY <1>3 DEF ProcListenerMaybeQueue, NothingLeftDeferred, TypeOK
<1>4. ASSUME NEW t \in Threads, NEW e \in Events, NEW u \in Uids, Notify(t, e, u)
      PROVE  deferred'[k] = <<>>
  <2>1. events[k] = 0 /\ UNCHANGED deferred
    BY <1>4 DEF Notify, TypeOK
  <2> QED
    BY <2>1 DEF NothingLeftDeferred
<1>5. ASSUME NEW t \in Threads, NEW l \in Listeners, Visit(t, l) \/ Lookup(t, l)
      PROVE  UNCHANGED <<events, deferred>>
  BY <1>5 DEF Visit, Lookup, notifier
<1>6. ASSUME NEW t \in Threads, NotifyEnd(t) PROVE deferred'[k] = <<>>
  <2>1. CASE k = KindOf(ev[t])
    BY <1>6, <2>1 DEF NotifyEnd, MayDrain, TypeOK
  <2>2. CASE k # KindOf(ev[t])
    <3>1. events[k] = 0 /\ deferred'[k] = deferred[k]
      BY <1>6, <2>2 DEF NotifyEnd, TypeOK
    <3> QED
      BY <3>1 DEF NothingLeftDeferred
  <2> QED
    BY <2>1, <2>2
<1> QED
  BY <1>1, <1>2, <1>3, <1>4, <1>5, <1>6 DEF Next, ThreadStep

-----------------------------------------------------------------------------
\* A registration that an event relies on is in force at every step of the event.
LEMMA SteadyStays ==
  ASSUME TypeOK, EventsCounted, SteadyInForce, Next
  PROVE  SteadyInForce'
<1> SUFFICES ASSUME NEW t \in Threads, tpc'[t] # "idle", NEW m \in steady'[t]
             PROVE  InForce(t, m)'
  BY DEF SteadyInForce
<1>1. ASSUME KeepSteady PROVE InForce(t, m)'
  BY <1>1 DEF KeepSteady
<1>2. ASSUME NEW l \in Listeners, ListenerStep(l) PROVE InForce(t, m)'
  <2>1. CASE ProcListenerMaybeQueue(l) \/ ReleaseQueue(l) \/ ReleaseMaps(l)
    BY <1>1, <2>1 DEF ProcListenerMaybeQueue, ReleaseQueue, ReleaseMaps
  <2>2. CASE UNCHANGED <<notifier, bbil_maps, thread, history>>
    BY <2>2 DEF SteadyInForce, InForce, notifier, thread, history
  <2>3. \/ ProcListenerMaybeQueue(l) \/ ReleaseQueue(l) \/ ReleaseMaps(l)
        \/ UNCHANGED <<notifier, bbil_maps, thread, history>>
    BY <1>2 DEF ListenerStep, BbilQueueAdd, UpdateListener, UnregisterListener
  <2> QED
    BY <2>1, <2>2, <2>3
<1>3. ASSUME NEW s \in Threads, NEW e \in Events, NEW u \in Uids, Notify(s, e, u)
      PROVE  InForce(t, m)'
  <2>1. CASE s = t
    BY <1>3, <2>1 DEF Notify, TypeOK
  <2>2. CASE s # t
    <3>1. /\ tpc[t] # "idle" /\ m \in steady[t] /\ ev'[t] = ev[t] /\ uid'[t] = uid[t]
          /\ UNCHANGED <<bbil_map, deferred, bbil_maps>>
      BY <1>3, <2>2 DEF Notify, Goto, TypeOK, listener
    <3> QED
      BY <3>1 DEF SteadyInForce, InForce
  <2> QED
    BY <2>1, <2>2
<1>4. ASSUME NEW s \in Threads, NEW l \in Listeners, Visit(s, l) \/ Lookup(s, l)
      PROVE  InForce(t, m)'
  <2>1. tpc[t] # "idle"
    BY <1>4 DEF Visit, Lookup, Goto, TypeOK
  <2>2. UNCHANGED <<steady, ev, uid, bbil_map, deferred, bbil_maps>>
    BY <1>4 DEF Visit, Lookup, notifier, listener
  <2> QED
    BY <2>1, <2>2 DEF SteadyInForce, InForce
<1>5. ASSUME NEW s \in Threads, NotifyEnd(s) PROVE InForce(t, m)'
  <2> DEFINE k == KindOf(ev[t])
  <2>1. s # t /\ tpc[t] # "idle" /\ m \in steady[t] /\ UNCHANGED <<ev, uid, bbil_maps>>
    BY <1>5 DEF NotifyEnd, Goto, TypeOK, listener
  <2>2. k \in Kinds /\ t \in Underway(k)
    BY <2>1, KindsTyped DEF TypeOK, Underway
  <2>3. bbil_map'[k] = bbil_map[k] /\ deferred'[k] = deferred[k]
    <3>1. CASE KindOf(ev[s]) = k
      <4>1. s \in Underway(k)
        BY <1>5, <3>1 DEF NotifyEnd, Underway
      <4>2. ~(events[k] - 1 = 0)
        BY <2>1, <2>2, <4>1, UnderwayCount
      <4> QED
        BY <1>5, <3>1, <4>2 DEF NotifyEnd, MayDrain
    <3>2. CASE KindOf(ev[s]) # k
      BY <1>5, <2>2, <3>2 DEF NotifyEnd, TypeOK
    <3> QED
      BY <3>1, <3>2
  <2>4. InForce(t, m)
    BY <2>1 DEF SteadyInForce
  <2> QED
    BY <2>1, <2>3, <2>4 DEF InForce
<1> QED
  BY <1>2, <1>3, <1>4, <1>5 DEF Next, ThreadStep

\* An event that consults its own queue passes over nobody it should call.
LEMMA MissedStays ==
  ASSUME TypeOK, SteadyInForce, OwnQueue, NoListenerMissed, Next
  PROVE  NoListenerMissed'
<1> SUFFICES ASSUME NEW t \in Threads PROVE missed'[t] \cap steady'[t] = {}
  BY DEF NoListenerMissed
<1>0. missed[t] \cap steady[t] = {}
  BY DEF NoListenerMissed
<1>1. ASSUME NEW l \in Listeners, ListenerStep(l) PROVE missed'[t] \cap steady'[t] = {}
  <2>1. UNCHANGED missed /\ (KeepSteady \/ UNCHANGED steady)
    BY <1>1 DEF ListenerStep, BbilQueueAdd, UpdateListener, UnregisterListener,
                ProcListenerMaybeQueue, ReleaseQueue, ReleaseMaps, history
  <2>2. CASE KeepSteady
    <3>1. steady'[t] \subseteq steady[t]
      BY <2>2 DEF KeepSteady
    <3> QED
      BY <1>0, <2>1, <3>1
  <2> QED
    BY <1>0, <2>1, <2>2
<1>2. ASSUME NEW s \in Threads, NEW e \in Events, NEW u \in Uids, Notify(s, e, u)
      PROVE  missed'[t] \cap steady'[t] = {}
  BY <1>0, <1>2 DEF Notify, TypeOK
<1>3. ASSUME NEW s \in Threads, NEW l \in Listeners, Visit(s, l)
      PROVE  missed'[t] \cap steady'[t] = {}
  <2>1. UNCHANGED steady
    BY <1>3 DEF Visit
  <2>2. CASE is_in_queue(KindOf(ev[s]), uid[s], l)
    <3>1. ~InForce(s, l)
      BY <2>2 DEF is_in_queue, InForce
    <3>2. l \notin steady[s]
      BY <1>3, <3>1 DEF SteadyInForce, Visit
    <3>3. missed'[t] \subseteq IF s = t THEN missed[t] \cup {l} ELSE missed[t]
      BY <1>3 DEF Visit, TypeOK
    <3> QED
      BY <1>0, <2>1, <3>2, <3>3
  <2>3. CASE ~is_in_queue(KindOf(ev[s]), uid[s], l)
    <3>1. CheckedQueue(ev[s]) = KindOf(ev[s])
      BY DEF OwnQueue, TypeOK
    <3>2. UNCHANGED missed
      BY <1>3, <2>3, <3>1 DEF Visit
    <3> QED
      BY <1>0, <2>1, <3>2
  <2> QED
    BY <2>2, <2>3
<1>4. ASSUME NEW s \in Threads, NEW l \in Listeners, Lookup(s, l)
      PROVE  missed'[t] \cap steady'[t] = {}
  <2>1. UNCHANGED steady
    BY <1>4 DEF Lookup
  <2>2. CASE uid[s] \in bbil_maps[l][KindOf(ev[s])]
    BY <1>0, <1>4, <2>1, <2>2 DEF Lookup
  <2>3. CASE uid[s] \notin bbil_maps[l][KindOf(ev[s])]
    <3>1. l \notin steady[s]
      BY <1>4, <2>3 DEF SteadyInForce, InForce, Lookup
    <3>2. missed'[t] \subseteq IF s = t THEN missed[t] \cup {l} ELSE missed[t]
      BY <1>4 DEF Lookup, TypeOK
    <3> QED
      BY <1>0, <2>1, <3>1, <3>2
  <2> QED
    BY <2>2, <2>3
<1>5. ASSUME NEW s \in Threads, NotifyEnd(s) PROVE missed'[t] \cap steady'[t] = {}
  BY <1>0, <1>5 DEF NotifyEnd, TypeOK
<1> QED
  BY <1>1, <1>2, <1>3, <1>4, <1>5 DEF Next, ThreadStep

-----------------------------------------------------------------------------
\* The invariant holds at the begin and is kept by every registration, by every
\* unregistration and by every step of an event.
THEOREM NotifierInductive == Spec => []NotifierInv
<1>1. Init => NotifierInv
  <2> SUFFICES ASSUME Init PROVE NotifierInv
    OBVIOUS
  <2>1. TypeOK
    <3>1. (CHOOSE e \in Events : TRUE) \in Events /\ (CHOOSE u \in Uids : TRUE) \in Uids
      BY NotifierAssumption
    <3> QED
      BY <3>1 DEF Init, TypeOK
  <2>2. EventsCounted
    <3>1. \A k \in Kinds : Underway(k) = {}
      BY DEF Init, Underway
    <3> QED
      BY <3>1, FS_EmptySet DEF Init, EventsCounted
  <2>3. NothingLeftDeferred /\ LooksAtOne /\ IteratorsValid /\ SteadyInForce /\ NoListenerMissed
    BY DEF Init, NothingLeftDeferred, LooksAtOne, IteratorsValid, SteadyInForce, NoListenerMissed
  <2> QED
    BY <2>1, <2>2, <2>3 DEF NotifierInv
<1>2. NotifierInv /\ [Next]_vars => NotifierInv'
  <2> SUFFICES ASSUME NotifierInv, [Next]_vars PROVE NotifierInv'
    OBVIOUS
  <2>1. TypeOK' /\ EventsCounted'
    BY TypesStay, CountStays DEF NotifierInv
  <2>2. CASE UNCHANGED vars
    BY <2>1, <2>2 DEF NotifierInv, NothingLeftDeferred, LooksAtOne, IteratorsValid, SteadyInForce,
                      InForce, NoListenerMissed, OwnQueue, vars, notifier, listener, thread, history
  <2>3. CASE Next
    <3>1. NothingLeftDeferred' /\ LooksAtOne' /\ IteratorsValid' /\ SteadyInForce'
      BY <2>3, QueueStays, LooksStay, IteratorsStay, SteadyStays DEF NotifierInv
    <3>2. OwnQueue => NoListenerMissed'
      BY <2>3, MissedStays DEF NotifierInv
    <3> QED
      BY <2>1, <3>1, <3>2 DEF NotifierInv, OwnQueue
  <2> QED
    BY <2>2, <2>3
<1> QED
  BY <1>1, <1>2, PTL DEF Spec

\* The iterators of an event into a multimap stay valid although it holds no lock while
\* it calls the listeners.
THEOREM IteratorsSafe == Spec => []IteratorsValid
<1>1. NotifierInv => IteratorsValid
  BY DEF NotifierInv
<1> QED
  BY <1>1, NotifierInductive, PTL

\* No registration or unregistration is forgotten in a queue.
THEOREM NothingForgotten == Spec => []NothingLeftDeferred
<1>1. NotifierInv => NothingLeftDeferred
  BY DEF NotifierInv
<1> QED
  BY <1>1, NotifierInductive, PTL

\* If every event consults its own queue (all but notify_of_reader_removed() and
\* notify_of_writer_removed() do), no listener in force is passed over.
THEOREM NobodyMissed == OwnQueue /\ Spec => []NoListenerMissed
<1>1. NotifierInv => (OwnQueue => NoListenerMissed)
  BY DEF NotifierInv
<1>2. OwnQueue => []OwnQueue
  <2>1. OwnQueue => OwnQueue'
    BY DEF OwnQueue
  <2> QED
    BY <2>1, PTL
<1> QED
  BY <1>1, <1>2, NotifierInductive, PTL

-----------------------------------------------------------------------------
(* process_*_queue()                                                       *)

Maps == SUBSET (Uids \X Listeners)

\* add_listener() and remove_listener() keep a map a map.
LEMMA AppliedTyped ==
  ASSUME NEW m \in Maps, NEW c \in Registrations
  PROVE  Applied(m, c) \in Maps
BY DEF Maps, Registrations, Applied

\* f holds the maps that the loop goes through.
DrainRuns(f, m, q) ==
  /\ f \in [0..Len(q) -> Maps]
  /\ f[0] = m
  /\ \A i \in 1..Len(q) : f[i] = Applied(f[i - 1], q[i])
  /\ Drain(m, q) = f[Len(q)]

\* The loop is well defined.
LEMMA DrainRounds ==
  ASSUME NEW m \in Maps, NEW q \in Seq(Registrations)
  PROVE  \E f : DrainRuns(f, m, q)
<1> DEFINE n == Len(q)
           g == [i \in 1..n |-> [r \in Maps |-> Applied(r, q[i])]]
           Loop(h) == [i \in 0..n |-> IF i = 0 THEN m ELSE Applied(h[i - 1], q[i])]
<1>1. n \in Nat /\ \A i \in 1..n : q[i] \in Registrations
  OBVIOUS
<1>2. ASSUME NEW i \in 1..n, NEW r \in Maps PROVE Applied(r, q[i]) \in Maps
  BY <1>1, AppliedTyped
<1>3. g \in [1..n -> [Maps -> Maps]]
  BY <1>2
<1>4. \A i \in 1..n, r \in Maps : g[i][r] = Applied(r, q[i])
  OBVIOUS
<1> HIDE DEF n, g
<1>5. PICK f \in [0..n -> Maps] : f[0] = m /\ \A i \in 1..n : f[i] = g[i][f[i - 1]]
  <2>1. PICK f : Runs(f, Maps, m, n, g)
    BY <1>1, <1>3, RoundsExist
  <2> QED
    BY <2>1 DEF Runs
<1>6. \A i \in 0..n : i # 0 => i \in 1..n /\ i - 1 \in 0..n
  BY <1>1
<1>7. f = Loop(f)
  BY <1>4, <1>5, <1>6
<1> DEFINE c == CHOOSE h : h = Loop(h)
<1>8. c = Loop(c)
  BY <1>7
<1>9. Drain(m, q) = c[n]
  BY DEF Drain, Iterated, n
<1> HIDE DEF c
<1>10. c[0] = m /\ \A i \in 1..n : c[i] = Applied(c[i - 1], q[i])
  <2>1. \A i \in 0..n : Loop(c)[i] = IF i = 0 THEN m ELSE Applied(c[i - 1], q[i])
    OBVIOUS
  <2> HIDE DEF Loop
  <2> QED
    BY <1>1, <1>8, <2>1
<1>11. c \in [0..n -> Maps]
  <2> DEFINE A == {i \in 0..n : c[i] \in Maps}
  <2>1. 0 \in A /\ \A i \in 1..n : i - 1 \in A => i \in A
    BY <1>1, <1>2, <1>10
  <2>2. 0..n \subseteq A
    <3> HIDE DEF A
    <3> QED
      BY <1>1, <2>1, CountUp
  <2> QED
    BY <1>8, <2>2
<1>12. DrainRuns(c, m, q)
  BY <1>9, <1>10, <1>11 DEF n, DrainRuns
<1> QED
  BY <1>12

\* An empty queue changes nothing.
LEMMA DrainEmpty ==
  ASSUME NEW m \in Maps
  PROVE  Drain(m, <<>>) = m
<1>1. <<>> \in Seq(Registrations) /\ Len(<<>>) = 0
  OBVIOUS
<1>2. PICK f : DrainRuns(f, m, <<>>)
  BY <1>1, DrainRounds
<1> QED
  BY <1>1, <1>2 DEF DrainRuns

\* The changes are applied in the order in which they were queued.
LEMMA DrainAppend ==
  ASSUME NEW m \in Maps, NEW q \in Seq(Registrations), NEW c \in Registrations
  PROVE  Drain(m, q) \in Maps /\ Drain(m, Append(q, c)) = Applied(Drain(m, q), c)
<1>1. PICK n \in Nat : n = Len(q)
  OBVIOUS
<1>2. PICK p \in Seq(Registrations) : p = Append(q, c)
  BY AppendProperties
<1>3. Len(p) = n + 1 /\ p[n + 1] = c /\ \A i \in 1..n : p[i] = q[i]
  BY <1>1, <1>2
<1>4. PICK f : DrainRuns(f, m, q)
  BY DrainRounds
<1>5. PICK h : DrainRuns(h, m, p)
  BY DrainRounds
<1>6. /\ f \in [0..n -> Maps] /\ f[0] = m /\ Drain(m, q) = f[n]
      /\ \A i \in 1..n : f[i] = Applied(f[i - 1], q[i])
  BY <1>1, <1>4 DEF DrainRuns
<1>7. /\ h[0] = m /\ Drain(m, p) = h[n + 1]
      /\ \A i \in 1..(n + 1) : h[i] = Applied(h[i - 1], p[i])
  BY <1>3, <1>5 DEF DrainRuns
<1> DEFINE A == {i \in 0..n : h[i] = f[i]}
<1>8. 0 \in A
  BY <1>6, <1>7
<1>9. ASSUME NEW i \in 1..n, i - 1 \in A PROVE i \in A
  <2>1. i \in 0..n /\ i \in 1..(n + 1)
    OBVIOUS
  <2>2. h[i] = Applied(h[i - 1], q[i]) /\ f[i] = Applied(f[i - 1], q[i])
    BY <1>3, <1>6, <1>7, <2>1
  <2> QED
    BY <1>9, <2>1, <2>2
<1>10. 0..n \subseteq A
  <2> HIDE DEF A
  <2> QED
    BY <1>8, <1>9, CountUp
<1>11. n \in 0..n /\ n + 1 \in 1..(n + 1) /\ (n + 1) - 1 = n
  OBVIOUS
<1>12. h[n] = f[n]
  BY <1>10, <1>11
<1>13. h[n + 1] = Applied(f[n], c)
  BY <1>3, <1>7, <1>11, <1>12
<1> QED
  BY <1>2, <1>6, <1>7, <1>11, <1>13

-----------------------------------------------------------------------------
(* The last change in a queue                                              *)

\* the changes of the registration for (k, u)
About(k, u) == {c \in Changes : c.kind = k /\ c.uid = u}

\* the last change for (k, u) in q registers; there is none
Says(q, k, u) == \E c : LastOf(q, Len(q), About(k, u), c) /\ c.op
Silent(q, k, u) == \A c : ~LastOf(q, Len(q), About(k, u), c)

\* The outcome of a queue for a registration that was or was not in the set X.
Outcome(q, k, u, X) == Says(q, k, u) \/ (Silent(q, k, u) /\ u \in X)

\* Decided looks at the last change.
LEMMA DecidedLast ==
  ASSUME NEW q \in Seq(Changes), NEW k \in Kinds, NEW u \in Uids,
         NEW J, J = {j \in DOMAIN q : q[j].kind = k /\ q[j].uid = u}
  PROVE  /\ J = {} <=> Silent(q, k, u)
         /\ J = {} => ~Says(q, k, u)
         /\ J # {} => (q[Max(J)].op <=> Says(q, k, u))
<1>1. PICK n \in Nat : n = Len(q)
  OBVIOUS
<1>2. DOMAIN q = 1..n /\ \A j \in 1..n : q[j] \in Changes
  BY <1>1
<1>3. \A j \in 1..n : j \in J <=> q[j] \in About(k, u)
  BY <1>2 DEF About
<1>4. J \in SUBSET (1..n)
  BY <1>2
<1>5. J = {} => \A c : ~LastOf(q, n, About(k, u), c)
  BY <1>3 DEF LastOf
<1>6. ASSUME J # {} PROVE LastOf(q, n, About(k, u), q[Max(J)])
  <2>1. Max(J) \in J /\ \A x \in J : Max(J) >= x
    BY <1>4, <1>6, LargestOf
  <2>2. PICK j \in 1..n : j = Max(J)
    BY <1>4, <2>1
  <2>3. q[j] \in About(k, u)
    BY <1>3, <2>1, <2>2
  <2>4. ASSUME NEW i \in (j + 1)..n PROVE q[i] \notin About(k, u)
    <3>1. i \in 1..n /\ ~(j >= i)
      OBVIOUS
    <3> QED
      BY <1>3, <2>1, <2>2, <3>1
  <2> QED
    BY <2>2, <2>3, <2>4 DEF LastOf
<1>7. \A c, d : LastOf(q, n, About(k, u), c) /\ LastOf(q, n, About(k, u), d) => c = d
  BY LastUnique
<1> QED
  BY <1>1, <1>5, <1>6, <1>7 DEF Says, Silent

\* A queue that is reduced to the changes of some kinds decides about those.
LEMMA OutcomeOnly ==
  ASSUME NEW q \in Seq(Changes), NEW k \in Kinds, NEW u \in Uids, NEW F, NEW X
  PROVE  LET p == Only(q, {c \in Changes : c.kind \in F}) IN
         Outcome(p, k, u, X) <=> IF k \in F THEN Outcome(q, k, u, X) ELSE u \in X
<1>1. PICK T : T = {c \in Changes : c.kind \in F}
  OBVIOUS
<1>2. PICK p \in Seq(Changes) : p = Only(q, T)
  BY OnlyLast
<1>3. \A c : LastOf(p, Len(p), About(k, u), c) <=> LastOf(q, Len(q), About(k, u) \cap T, c)
  BY <1>2, OnlyLast
<1>4. CASE k \in F
  <2>1. About(k, u) \cap T = About(k, u)
    BY <1>1, <1>4 DEF About
  <2>2. Outcome(p, k, u, X) <=> Outcome(q, k, u, X)
    BY <1>3, <2>1 DEF Outcome, Says, Silent
  <2> QED
    BY <1>1, <1>2, <1>4, <2>2
<1>5. CASE k \notin F
  <2>1. About(k, u) \cap T = {}
    BY <1>1, <1>5 DEF About
  <2>2. \A c : ~LastOf(p, Len(p), About(k, u), c)
    BY <1>3, <2>1 DEF LastOf
  <2>3. Outcome(p, k, u, X) <=> u \in X
    BY <2>2 DEF Outcome, Says, Silent
  <2> QED
    BY <1>1, <1>2, <1>5, <2>3
<1> QED
  BY <1>4, <1>5

\* The first change is made: the rest of the queue has the same outcome.
LEMMA OutcomeTail ==
  ASSUME NEW q \in Seq(Changes), q # <<>>, NEW k \in Kinds, NEW u \in Uids, NEW X, NEW Y,
         u \in Y <=> IF Head(q).kind = k /\ Head(q).uid = u THEN Head(q).op ELSE u \in X
  PROVE  Outcome(Tail(q), k, u, Y) <=> Outcome(q, k, u, X)
<1>1. PICK p \in Seq(Changes) : p = Tail(q)
  BY HeadTailProperties
<1>2. PICK c \in Changes : c = Head(q)
  BY HeadTailProperties
<1>3. \A e : LastOf(q, Len(q), About(k, u), e) <=>
               \/ LastOf(p, Len(p), About(k, u), e)
               \/ e = c /\ e \in About(k, u) /\ \A d : ~LastOf(p, Len(p), About(k, u), d)
  BY <1>1, <1>2, LastTail
<1>4. c \in About(k, u) <=> c.kind = k /\ c.uid = u
  BY DEF About
<1>5. Says(q, k, u) <=> Says(p, k, u) \/ (c \in About(k, u) /\ c.op /\ Silent(p, k, u))
  BY <1>3 DEF Says, Silent
<1>6. Silent(q, k, u) <=> Silent(p, k, u) /\ c \notin About(k, u)
  BY <1>3 DEF Silent
<1>7. Outcome(p, k, u, Y) <=> Outcome(q, k, u, X)
  BY <1>2, <1>4, <1>5, <1>6 DEF Outcome
<1> QED
  BY <1>1, <1>7

\* Nothing left in the queue: nothing changes.
LEMMA OutcomeEmpty ==
  ASSUME NEW k, NEW u, NEW X
  PROVE  Outcome(<<>>, k, u, X) <=> u \in X
<1>1. \A c : ~LastOf(<<>>, Len(<<>>), About(k, u), c)
  BY DEF LastOf
<1> QED
  BY <1>1 DEF Outcome, Says, Silent
-----------------------------------------------------------------------------
(* A listener's process: where it is, the changes left, the kinds          *)
(* considered, its queue, its watch lists, and what the notifier has or    *)
(* will have for it                                                        *)

Agree(pc, w, F, q, m, W) ==
  /\ pc = "idle" => w = <<>> /\ \A k \in Kinds : W[k] = m[k]
  /\ pc = "update" => \A k \in Kinds, u \in Uids :
       Outcome(w, k, u, W[k]) <=> IF k \in F THEN Outcome(q, k, u, m[k]) ELSE u \in m[k]
  /\ pc = "unregister" =>
       /\ RemovesOnly(w)
       /\ \A k \in Kinds, u \in Uids : u \in W[k] => Mentions(w, k, u)

Wanted(l) == [k \in Kinds |-> {u \in Uids : <<u, l>> \in want[k]}]

\* The agreement of all listeners, as one formula for each.
AllAgree == \A l \in Listeners :
              Agree(lpc[l], work[l], flag[l], bbil_queue[l], bbil_maps[l], Wanted(l))

Agreement == ListenerAgrees /\ IdleDone /\ UpdateAgrees /\ UnregisterAgrees

\* What a listener is going to watch is the outcome of its queue.
LEMMA WatchesIs ==
  ASSUME QueuesTyped, NEW l \in Listeners, NEW k \in Kinds, NEW u \in Uids
  PROVE  Watches(l, k, u) <=> Outcome(bbil_queue[l], k, u, bbil_maps[l][k])
<1>1. PICK q \in Seq(Changes) : q = bbil_queue[l]
  BY DEF QueuesTyped
<1>2. PICK I : I = {j \in DOMAIN q : q[j].kind = k /\ q[j].uid = u}
  OBVIOUS
<1>3. Outcome(q, k, u, bbil_maps[l][k]) <=> IF I = {} THEN u \in bbil_maps[l][k] ELSE q[Max(I)].op
  <2>1. /\ I = {} <=> Silent(q, k, u)
        /\ I = {} => ~Says(q, k, u)
        /\ I # {} => (q[Max(I)].op <=> Says(q, k, u))
    BY <1>2, DecidedLast
  <2> QED
    BY <2>1 DEF Outcome
<1> QED
  BY <1>1, <1>2, <1>3 DEF Decided, Watches

\* The two forms of the agreement are equivalent.
LEMMA AgreementIs == TypeOK /\ QueuesTyped => (Agreement <=> AllAgree)
<1> SUFFICES ASSUME TypeOK, QueuesTyped PROVE Agreement <=> AllAgree
  OBVIOUS
<1>1. ASSUME NEW l \in Listeners, NEW k \in Kinds, NEW u \in Uids
      PROVE  /\ Decided(work[l], k, u, <<u, l>> \in want[k]) <=> Outcome(work[l], k, u, Wanted(l)[k])
             /\ Watches(l, k, u) <=> Outcome(bbil_queue[l], k, u, bbil_maps[l][k])
  <2>1. PICK p \in Seq(Changes) : p = work[l]
    BY DEF QueuesTyped
  <2>2. PICK J : J = {j \in DOMAIN p : p[j].kind = k /\ p[j].uid = u}
    OBVIOUS
  <2>3. Outcome(p, k, u, Wanted(l)[k]) <=> IF J = {} THEN <<u, l>> \in want[k] ELSE p[Max(J)].op
    <3>1. /\ J = {} <=> Silent(p, k, u)
          /\ J = {} => ~Says(p, k, u)
          /\ J # {} => (p[Max(J)].op <=> Says(p, k, u))
      BY <2>2, DecidedLast
    <3>2. u \in Wanted(l)[k] <=> <<u, l>> \in want[k]
      BY DEF Wanted
    <3> QED
      BY <3>1, <3>2 DEF Outcome
  <2>4. Decided(work[l], k, u, <<u, l>> \in want[k]) <=> Outcome(work[l], k, u, Wanted(l)[k])
    BY <2>1, <2>2, <2>3 DEF Decided
  <2> QED
    BY <2>4, WatchesIs
<1>2. ASSUME NEW l \in Listeners
      PROVE  /\ \A k \in Kinds : Wanted(l)[k] = {u \in Uids : <<u, l>> \in want[k]}
             /\ \A k \in Kinds, u \in Uids : u \in Wanted(l)[k] <=> <<u, l>> \in want[k]
  BY DEF QueuesTyped, Wanted
<1>3. (ListenerAgrees /\ IdleDone) <=>
        \A l \in Listeners : lpc[l] = "idle" =>
          work[l] = <<>> /\ \A k \in Kinds : Wanted(l)[k] = bbil_maps[l][k]
  <2>1. ListenerAgrees <=>
          \A l \in Listeners : lpc[l] = "idle" => \A k \in Kinds : Wanted(l)[k] = bbil_maps[l][k]
    BY <1>2 DEF ListenerAgrees
  <2> QED
    BY <2>1 DEF IdleDone
<1>4. UpdateAgrees <=>
        \A l \in Listeners : lpc[l] = "update" => \A k \in Kinds, u \in Uids :
          Outcome(work[l], k, u, Wanted(l)[k])
            <=> IF k \in flag[l] THEN Outcome(bbil_queue[l], k, u, bbil_maps[l][k]) ELSE u \in bbil_maps[l][k]
  BY <1>1 DEF UpdateAgrees
<1>5. UnregisterAgrees <=>
        \A l \in Listeners : lpc[l] = "unregister" =>
          /\ RemovesOnly(work[l])
          /\ \A k \in Kinds, u \in Uids : u \in Wanted(l)[k] => Mentions(work[l], k, u)
  BY <1>2 DEF UnregisterAgrees
<1> QED
  BY <1>3, <1>4, <1>5 DEF Agreement, AllAgree, Agree

\* update_listener() begins.
LEMMA UpdateBegins ==
  ASSUME NEW q \in Seq(Changes), NEW F, NEW G, NEW m, NEW W, NEW w, Agree("idle", w, G, q, m, W)
  PROVE  Agree("update", Only(q, {c \in Changes : c.kind \in F}), F, q, m, W)
<1>1. \A k \in Kinds : W[k] = m[k]
  BY DEF Agree
<1>2. PICK p : p = Only(q, {c \in Changes : c.kind \in F})
  OBVIOUS
<1>3. ASSUME NEW k \in Kinds, NEW u \in Uids, NEW X
      PROVE  Outcome(p, k, u, X) <=> IF k \in F THEN Outcome(q, k, u, X) ELSE u \in X
  BY <1>2, OutcomeOnly
<1>4. Agree("update", p, F, q, m, W)
  BY <1>1, <1>3 DEF Agree
<1> QED
  BY <1>2, <1>4

\* unregister_listener() begins, with a removal for all that is watched.
LEMMA UnregisterBegins ==
  ASSUME NEW q, NEW F, NEW m, NEW W, NEW v, NEW w, Agree("idle", v, F, q, m, W),
         RemovesOnly(w), \A k \in Kinds, u \in Uids : u \in m[k] => Mentions(w, k, u)
  PROVE  Agree("unregister", w, F, q, m, W)
BY DEF Agree

\* The next change is passed to the notifier.
LEMMA ChangePassed ==
  ASSUME NEW pc, NEW w \in Seq(Changes), w # <<>>, NEW F, NEW q, NEW m,
         NEW W \in [Kinds -> SUBSET Uids], NEW V, Agree(pc, w, F, q, m, W),
         \A k \in Kinds, u \in Uids :
           u \in V[k] <=> IF Head(w).kind = k /\ Head(w).uid = u THEN Head(w).op ELSE u \in W[k]
  PROVE  Agree(pc, Tail(w), F, q, m, V)
<1>1. PICK p \in Seq(Changes) : p = Tail(w)
  BY HeadTailProperties
<1>2. /\ Len(p) \in Nat /\ Len(w) = Len(p) + 1 /\ Head(w) = w[1]
      /\ \A j \in 1..Len(p) : p[j] = w[j + 1]
  BY <1>1, HeadTailProperties
<1>3. pc # "idle"
  BY DEF Agree
<1>4. CASE pc = "update"
  <2>1. ASSUME NEW k \in Kinds, NEW u \in Uids PROVE Outcome(p, k, u, V[k]) <=> Outcome(w, k, u, W[k])
    <3>1. PICK X, Y : X = W[k] /\ Y = V[k]
      OBVIOUS
    <3>2. u \in Y <=> IF Head(w).kind = k /\ Head(w).uid = u THEN Head(w).op ELSE u \in X
      BY <3>1
    <3>3. Outcome(Tail(w), k, u, Y) <=> Outcome(w, k, u, X)
      BY <3>2, OutcomeTail
    <3> QED
      BY <1>1, <3>1, <3>3
  <2>2. \A k \in Kinds, u \in Uids :
          Outcome(w, k, u, W[k]) <=> IF k \in F THEN Outcome(q, k, u, m[k]) ELSE u \in m[k]
    BY <1>4 DEF Agree
  <2>3. Agree("update", p, F, q, m, V)
    BY <2>1, <2>2 DEF Agree
  <2> QED
    BY <1>1, <1>4, <2>3
<1>5. CASE pc = "unregister"
  <2>1. /\ \A j \in 1..Len(w) : ~w[j].op
        /\ \A k \in Kinds, u \in Uids : u \in W[k] => \E j \in 1..Len(w) : w[j].kind = k /\ w[j].uid = u
    BY <1>5 DEF Agree, RemovesOnly, Mentions
  <2>2. \A j \in 1..Len(p) : j + 1 \in 1..Len(w)
    BY <1>2
  <2>3. \A j \in 1..Len(p) : ~p[j].op
    BY <1>2, <2>1, <2>2
  <2>4. ASSUME NEW k \in Kinds, NEW u \in Uids, u \in V[k]
        PROVE  \E j \in 1..Len(p) : p[j].kind = k /\ p[j].uid = u
    <3>1. ~Head(w).op
      BY <1>2, <2>1
    <3>2. u \in W[k] /\ ~(w[1].kind = k /\ w[1].uid = u)
      BY <1>2, <2>4, <3>1
    <3>3. PICK j \in 1..Len(w) : w[j].kind = k /\ w[j].uid = u
      BY <2>1, <3>2
    <3>4. j # 1
      BY <3>2, <3>3
    <3>5. j - 1 \in 1..Len(p) /\ (j - 1) + 1 = j
      BY <1>2, <3>4
    <3>6. p[j - 1] = w[j]
      BY <1>2, <3>5
    <3> QED
      BY <3>3, <3>5, <3>6
  <2>5. Agree("unregister", p, F, q, m, V)
    BY <2>3, <2>4 DEF Agree, RemovesOnly, Mentions
  <2> QED
    BY <1>1, <1>5, <2>5
<1>6. CASE pc \notin {"idle", "update", "unregister"}
  BY <1>6 DEF Agree
<1> QED
  BY <1>3, <1>4, <1>5, <1>6

\* The watch lists n are the lists m with the changes in q for the kinds F.
TakenOver(n, F, q, m) ==
  \A k \in Kinds : n[k] = IF k \in F THEN {u \in Uids : Outcome(q, k, u, m[k])} ELSE m[k]

\* update_listener() ends: the listener takes over the changes.
LEMMA UpdateEnds ==
  ASSUME NEW F, NEW G, NEW q, NEW p, NEW m \in [Kinds -> SUBSET Uids], NEW n,
         NEW W \in [Kinds -> SUBSET Uids], Agree("update", <<>>, F, q, m, W), TakenOver(n, F, q, m)
  PROVE  Agree("idle", <<>>, G, p, n, W)
<1>1. ASSUME NEW k \in Kinds PROVE W[k] = n[k]
  <2>0. n[k] = IF k \in F THEN {u \in Uids : Outcome(q, k, u, m[k])} ELSE m[k]
    BY DEF TakenOver
  <2>1. ASSUME NEW u \in Uids PROVE u \in W[k] <=> u \in n[k]
    <3>1. Outcome(<<>>, k, u, W[k]) <=> u \in W[k]
      BY OutcomeEmpty
    <3>2. Outcome(<<>>, k, u, W[k]) <=> IF k \in F THEN Outcome(q, k, u, m[k]) ELSE u \in m[k]
      BY DEF Agree
    <3> QED
      BY <2>0, <3>1, <3>2
  <2>2. W[k] \subseteq Uids /\ n[k] \subseteq Uids
    BY <2>0
  <2> QED
    BY <2>1, <2>2
<1> QED
  BY <1>1 DEF Agree

\* unregister_listener() ends: nothing is watched, nothing registered.
LEMMA UnregisterEnds ==
  ASSUME NEW F, NEW q, NEW p, NEW m, NEW n, NEW W \in [Kinds -> SUBSET Uids],
         Agree("unregister", <<>>, F, q, m, W), \A k \in Kinds : n[k] = {}
  PROVE  Agree("idle", <<>>, F, p, n, W)
<1>1. ASSUME NEW k \in Kinds PROVE W[k] = {}
  <2>1. \A u \in Uids : u \notin W[k]
    BY DEF Agree, Mentions
  <2> QED
    BY <2>1
<1> QED
  BY <1>1 DEF Agree
-----------------------------------------------------------------------------
(* The queues of changes                                                   *)

\* A finite set written as a sequence loses nothing.
LEMMA Listed ==
  ASSUME NEW S, IsFiniteSet(S)
  PROVE  SetToSeq(S) \in Seq(S) /\ \A x \in S : Occurs(x, SetToSeq(S))
<1>1. PICK n \in Nat : n = Cardinality(S)
  BY FS_CardinalityType
<1>2. PICK g \in [1..n -> S] : IsInjective(g)
  <2>1. ExistsBijection(1..n, S)
    BY <1>1, FS_CardinalityType
  <2> QED
    BY <2>1 DEF ExistsBijection, Bijection, Injection
<1>3. PICK f \in [1..n -> S] : f = SetToSeq(S) /\ IsInjective(f)
  BY <1>1, <1>2 DEF SetToSeq
<1>4. f \in Injection(1..n, S)
  BY <1>3 DEF Injection
<1>5. Cardinality(1..n) = Cardinality(S)
  <2>1. 1 \in Int /\ n \in Int
    OBVIOUS
  <2>2. Cardinality(1..n) = IF 1 > n THEN 0 ELSE n - 1 + 1
    BY <2>1, FS_Interval
  <2> QED
    BY <1>1, <2>2
<1>6. f \in Surjection(1..n, S)
  BY <1>4, <1>5, FS_Injection
<1>7. f \in Seq(S) /\ Len(f) = n
  OBVIOUS
<1>8. \A x \in S : Occurs(x, f)
  BY <1>6, <1>7 DEF Surjection, Occurs
<1> QED
  BY <1>3, <1>7, <1>8

\* unregister_listener() and bbil_release_maps() go through all that is watched.
LEMMA AllWatched ==
  ASSUME TypeOK, NEW l \in Listeners, NEW op \in BOOLEAN
  PROVE  /\ ForAllWatched(l, op) \in Seq(Changes)
         /\ \A j \in 1..Len(ForAllWatched(l, op)) : ForAllWatched(l, op)[j].op = op
         /\ \A k \in Kinds, u \in Uids : u \in bbil_maps[l][k] => Mentions(ForAllWatched(l, op), k, u)
<1>1. PICK P \in SUBSET (Kinds \X Uids) : P = {y \in Kinds \X Uids : y[2] \in bbil_maps[l][y[1]]}
  OBVIOUS
<1>2. PICK C \in SUBSET Changes : C = {[op |-> op, kind |-> x[1], uid |-> x[2]] : x \in P}
  <2>1. ASSUME NEW x \in P PROVE [op |-> op, kind |-> x[1], uid |-> x[2]] \in Changes
    <3>1. x[1] \in Kinds /\ x[2] \in Uids
      OBVIOUS
    <3> QED
      BY <3>1 DEF Changes
  <2> QED
    BY <2>1
<1>3. IsFiniteSet(C)
  <2>1. IsFiniteSet(Kinds)
    <3>1. IsFiniteSet({"data"})
      BY FS_Singleton
    <3>2. IsFiniteSet({"data"} \cup {"messages"})
      BY <3>1, FS_AddElement
    <3>3. IsFiniteSet(({"data"} \cup {"messages"}) \cup {"reader"})
      BY <3>2, FS_AddElement
    <3>4. IsFiniteSet((({"data"} \cup {"messages"}) \cup {"reader"}) \cup {"writer"})
      BY <3>3, FS_AddElement
    <3>5. Kinds = (({"data"} \cup {"messages"}) \cup {"reader"}) \cup {"writer"}
      BY DEF Kinds
    <3> QED
      BY <3>4, <3>5
  <2>2. IsFiniteSet(P)
    BY <2>1, NotifierAssumption, FS_Product, FS_Subset
  <2>3. [x \in P |-> [op |-> op, kind |-> x[1], uid |-> x[2]]] \in Surjection(P, C)
    BY <1>2 DEF Surjection
  <2> QED
    BY <2>2, <2>3, FS_Surjection
<1>4. ForAllWatched(l, op) = SetToSeq(C)
  BY <1>1, <1>2 DEF ForAllWatched
<1>5. PICK w \in Seq(C) : w = SetToSeq(C) /\ \A x \in C : Occurs(x, w)
  BY <1>3, Listed
<1>6. w \in Seq(Changes) /\ \A j \in 1..Len(w) : w[j] \in C
  BY <1>5
<1>7. \A c \in C : c.op = op
  BY <1>2
<1>8. ASSUME NEW k \in Kinds, NEW u \in Uids, u \in bbil_maps[l][k] PROVE Mentions(w, k, u)
  <2>1. <<k, u>> \in P
    BY <1>1, <1>8
  <2>2. PICK c \in C : c = [op |-> op, kind |-> k, uid |-> u]
    <3>1. <<k, u>>[1] = k /\ <<k, u>>[2] = u
      OBVIOUS
    <3>2. \A x \in P : [op |-> op, kind |-> x[1], uid |-> x[2]] \in C
      BY <1>2
    <3>3. [op |-> op, kind |-> <<k, u>>[1], uid |-> <<k, u>>[2]] \in C
      BY <2>1, <3>2
    <3> QED
      BY <3>1, <3>3
  <2>3. Occurs(c, w)
    BY <1>5
  <2> QED
    BY <2>2, <2>3 DEF Occurs, Mentions
<1> QED
  BY <1>4, <1>5, <1>6, <1>7, <1>8

\* bbil_queue_add_interface() takes a pending change out of the queue.
LEMMA MatchRemoved ==
  ASSUME NEW q \in Seq(Changes), NEW c
  PROVE  Without(q, c) \in Seq(Changes)
<1>1. PICK J \in SUBSET (1..Len(q)) : J = {i \in 1..Len(q) : q[i].kind = c.kind /\ q[i].uid = c.uid}
  OBVIOUS
<1>2. CASE J = {}
  <2>1. ~\E i \in 1..Len(q) : q[i].kind = c.kind /\ q[i].uid = c.uid
    BY <1>1, <1>2
  <2>2. Without(q, c) = q
    BY <2>1 DEF Without, RemoveFirstMatch
  <2> QED
    BY <2>2
<1>3. CASE J # {}
  <2>1. \E i \in 1..Len(q) : q[i].kind = c.kind /\ q[i].uid = c.uid
    BY <1>1, <1>3
  <2>2. Without(q, c) = RemoveAt(q, Min(J))
    BY <1>1, <1>3, <2>1 DEF Without, RemoveFirstMatch, SelectInSeq
  <2>3. PICK r \in 1..Len(q) : r = Min(J)
    <3>1. PICK m \in J : \A y \in J : m <= y
      <4>1. J \in SUBSET Nat
        OBVIOUS
      <4> QED
        BY <1>3, <4>1, SmallestExists
    <3>2. Min(J) \in J
      BY <3>1 DEF Min
    <3> QED
      BY <3>2
  <2>4. RemoveAt(q, r) \in Seq(Changes)
    BY RemoveAtIs
  <2> QED
    BY <2>2, <2>3, <2>4
<1> QED
  BY <1>2, <1>3

\* The registration that a change of listener l stands for.
Asked(l, c) == [op |-> c.op, uid |-> c.uid, listener |-> l]

\* A change passed on to the notifier is a registration of the listener.
LEMMA ChangeTyped ==
  ASSUME QueuesTyped, NEW l \in Listeners, work[l] # <<>>
  PROVE  /\ Head(work[l]) \in Changes
         /\ Head(work[l]).kind \in Kinds /\ Head(work[l]).uid \in Uids
         /\ Head(work[l]).op \in BOOLEAN
         /\ Asked(l, Head(work[l])) \in Registrations
<1>1. PICK w \in Seq(Changes) : w = work[l]
  BY DEF QueuesTyped
<1>2. PICK c \in Changes : c = Head(w)
  BY <1>1, HeadTailProperties
<1>3. c.kind \in Kinds /\ c.uid \in Uids /\ c.op \in BOOLEAN
  BY DEF Changes
<1>4. Asked(l, c) \in Registrations
  BY <1>3 DEF Asked, Registrations
<1> QED
  BY <1>1, <1>2, <1>3, <1>4

\* Every action keeps the types of the queues.
LEMMA QTypesStay == TypeOK /\ QueuesTyped /\ [Next]_vars => QueuesTyped'
<1> SUFFICES ASSUME TypeOK, QueuesTyped, [Next]_vars PROVE QueuesTyped'
  OBVIOUS
<1>1. CASE UNCHANGED vars
  BY <1>1 DEF vars, notifier, listener, history, QueuesTyped
<1>2. ASSUME NEW l \in Listeners, NEW k \in UsedKinds, NEW u \in Uids, NEW op \in BOOLEAN,
             BbilQueueAdd(l, [op |-> op, kind |-> k, uid |-> u])
      PROVE  QueuesTyped'
  <2>1. k \in Kinds
    BY KindsTyped DEF UsedKinds
  <2>2. PICK c \in Changes : c = [op |-> op, kind |-> k, uid |-> u]
    BY <2>1 DEF Changes
  <2>3. PICK q \in Seq(Changes) : q = bbil_queue[l]
    BY DEF QueuesTyped
  <2>4. PICK p \in Seq(Changes) : p = Without(q, c)
    BY MatchRemoved
  <2>5. Append(p, c) \in Seq(Changes)
    BY AppendProperties
  <2>6. bbil_queue' = [bbil_queue EXCEPT ![l] = Append(p, c)]
    BY <1>2, <2>2, <2>3, <2>4 DEF BbilQueueAdd, QueuesTyped
  <2>7. bbil_queue' \in [Listeners -> Seq(Changes)]
    BY <2>5, <2>6 DEF QueuesTyped
  <2> QED
    BY <1>2, <2>7 DEF BbilQueueAdd, QueuesTyped, notifier, history
<1>3. ASSUME NEW l \in Listeners, NEW F \in SUBSET UsedKinds, UpdateListener(l, F) PROVE QueuesTyped'
  <2>1. PICK q \in Seq(Changes) : q = bbil_queue[l]
    BY DEF QueuesTyped
  <2>2. PICK p \in Seq(Changes) : p = Only(q, {c \in Changes : c.kind \in F})
    BY OnlyLast
  <2>3. work' = [work EXCEPT ![l] = p]
    BY <1>3, <2>1, <2>2 DEF UpdateListener
  <2>4. work' \in [Listeners -> Seq(Changes)]
    BY <2>3 DEF QueuesTyped
  <2> QED
    BY <1>3, <2>4 DEF UpdateListener, QueuesTyped, notifier, history
<1>4. ASSUME NEW l \in Listeners, UnregisterListener(l) PROVE QueuesTyped'
  <2>1. PICK p \in Seq(Changes) : p = ForAllWatched(l, FALSE)
    BY AllWatched
  <2>2. work' \in [Listeners -> Seq(Changes)]
    BY <1>4, <2>1 DEF UnregisterListener, QueuesTyped
  <2> QED
    BY <1>4, <2>2 DEF UnregisterListener, QueuesTyped, notifier, history
<1>5. ASSUME NEW l \in Listeners, ProcListenerMaybeQueue(l) PROVE QueuesTyped'
  <2>1. work[l] # <<>>
    BY <1>5 DEF ProcListenerMaybeQueue
  <2>2. PICK w \in Seq(Changes) : w = work[l] /\ Tail(w) \in Seq(Changes)
    BY <2>1, HeadTailProperties DEF QueuesTyped
  <2>3. PICK k \in Kinds, c \in Registrations : k = Head(w).kind /\ c = Asked(l, Head(w))
    BY <2>1, <2>2, ChangeTyped
  <2>4. work' \in [Listeners -> Seq(Changes)]
    BY <1>5, <2>2 DEF ProcListenerMaybeQueue, QueuesTyped
  <2>5. /\ IF events[k] > 0
           THEN deferred' = [deferred EXCEPT ![k] = Append(@, c)] /\ UNCHANGED bbil_map
           ELSE bbil_map' = [bbil_map EXCEPT ![k] = Applied(@, c)] /\ UNCHANGED deferred
        /\ want' = [want EXCEPT ![k] = Applied(@, c)]
        /\ UNCHANGED bbil_queue
    BY <1>5, <2>2, <2>3 DEF ProcListenerMaybeQueue, Asked
  <2>6. bbil_map[k] \in Maps /\ want[k] \in Maps /\ deferred[k] \in Seq(Registrations)
    BY DEF QueuesTyped, Maps
  <2>7. Applied(bbil_map[k], c) \in Maps /\ Applied(want[k], c) \in Maps
    BY <2>6, AppliedTyped
  <2>8. Append(deferred[k], c) \in Seq(Registrations)
    BY <2>6, AppendProperties
  <2> QED
    BY <2>4, <2>5, <2>7, <2>8 DEF QueuesTyped, Maps
<1>6. ASSUME NEW l \in Listeners, ReleaseQueue(l) PROVE QueuesTyped'
  <2>1. PICK q \in Seq(Changes), F \in SUBSET Kinds : q = bbil_queue[l] /\ F = flag[l]
    BY DEF QueuesTyped, TypeOK
  <2>2. PICK p \in Seq(Changes) : p = Only(q, {c \in Changes : c.kind \notin F})
    BY OnlyLast
  <2>3. bbil_queue' = [bbil_queue EXCEPT ![l] = p]
    BY <1>6, <2>1, <2>2 DEF ReleaseQueue, QueuesTyped
  <2>4. bbil_queue' \in [Listeners -> Seq(Changes)]
    BY <2>3 DEF QueuesTyped
  <2> QED
    BY <1>6, <2>4 DEF ReleaseQueue, QueuesTyped, notifier
<1>7. ASSUME NEW l \in Listeners, ReleaseMaps(l) PROVE QueuesTyped'
  <2>1. PICK p \in Seq(Changes) : p = ForAllWatched(l, TRUE)
    BY AllWatched
  <2>2. PICK q \in Seq(Changes) : q = bbil_queue[l]
    BY DEF QueuesTyped
  <2>3. q \o p \in Seq(Changes)
    BY ConcatProperties
  <2>4. bbil_queue' \in [Listeners -> Seq(Changes)]
    BY <1>7, <2>1, <2>2, <2>3 DEF ReleaseMaps, QueuesTyped
  <2> QED
    BY <1>7, <2>4 DEF ReleaseMaps, QueuesTyped, notifier
<1>8. ASSUME NEW t \in Threads,
             \/ \E e \in Events, u \in Uids : Notify(t, e, u)
             \/ \E l \in Listeners : Visit(t, l) \/ Lookup(t, l)
      PROVE  QueuesTyped'
  BY <1>8 DEF Notify, Visit, Lookup, notifier, listener, QueuesTyped
<1>9. ASSUME NEW t \in Threads, NotifyEnd(t) PROVE QueuesTyped'
  <2>1. PICK k \in Kinds : k = KindOf(ev[t])
    BY KindsTyped DEF TypeOK
  <2>2. bbil_map[k] \in Maps /\ deferred[k] \in Seq(Registrations)
    BY DEF QueuesTyped, Maps
  <2>3. Drained(k) \in Maps
    <3>1. PICK f : DrainRuns(f, bbil_map[k], deferred[k])
      BY <2>2, DrainRounds
    <3>2. Len(deferred[k]) \in 0..Len(deferred[k])
      BY <2>2
    <3> QED
      BY <3>1, <3>2 DEF DrainRuns, Drained
  <2>4. bbil_map' \in [Kinds -> Maps] /\ deferred' \in [Kinds -> Seq(Registrations)]
    <3>1. <<>> \in Seq(Registrations)
      OBVIOUS
    <3>2. \/ /\ bbil_map' = [bbil_map EXCEPT ![k] = Drained(k)]
             /\ deferred' = [deferred EXCEPT ![k] = <<>>]
          \/ UNCHANGED <<bbil_map, deferred>>
      BY <1>9, <2>1 DEF NotifyEnd
    <3> QED
      BY <2>3, <3>1, <3>2 DEF QueuesTyped, Maps
  <2> QED
    BY <1>9, <2>4 DEF NotifyEnd, QueuesTyped, listener, Maps
<1> QED
  BY <1>1, <1>2, <1>3, <1>4, <1>5, <1>6, <1>7, <1>8, <1>9 DEF Next, ListenerStep, ThreadStep

\* A deferred change has the effect it would have had at once.
LEMMA DeferredStays ==
  ASSUME TypeOK, NothingLeftDeferred, QueuesTyped, DeferredAsImmediate, Next
  PROVE  DeferredAsImmediate'
<1> SUFFICES ASSUME NEW k \in Kinds PROVE Drain(bbil_map'[k], deferred'[k]) = want'[k]
  BY DEF DeferredAsImmediate, Drained
<1>1. PICK m \in Maps, q \in Seq(Registrations) : m = bbil_map[k] /\ q = deferred[k]
  BY DEF QueuesTyped, Maps
<1>2. Drain(m, q) = want[k]
  BY <1>1 DEF DeferredAsImmediate, Drained
<1>3. ASSUME bbil_map'[k] = m, deferred'[k] = q, want'[k] = want[k]
      PROVE  Drain(bbil_map'[k], deferred'[k]) = want'[k]
  BY <1>2, <1>3
<1>4. ASSUME NEW l \in Listeners, ListenerStep(l), ~ProcListenerMaybeQueue(l)
      PROVE  UNCHANGED <<bbil_map, deferred, want>>
  BY <1>4 DEF ListenerStep, BbilQueueAdd, UpdateListener, UnregisterListener, ReleaseQueue,
              ReleaseMaps, notifier, history
<1>5. ASSUME NEW l \in Listeners, ProcListenerMaybeQueue(l)
      PROVE  Drain(bbil_map'[k], deferred'[k]) = want'[k]
  <2>1. work[l] # <<>>
    BY <1>5 DEF ProcListenerMaybeQueue
  <2>2. PICK h \in Kinds, c \in Registrations : h = Head(work[l]).kind /\ c = Asked(l, Head(work[l]))
    BY <2>1, ChangeTyped
  <2>3. /\ IF events[h] > 0
           THEN deferred' = [deferred EXCEPT ![h] = Append(@, c)] /\ UNCHANGED bbil_map
           ELSE bbil_map' = [bbil_map EXCEPT ![h] = Applied(@, c)] /\ UNCHANGED deferred
        /\ want' = [want EXCEPT ![h] = Applied(@, c)]
    BY <1>5, <2>2 DEF ProcListenerMaybeQueue, Asked
  <2>4. CASE k # h
    <3>1. bbil_map'[k] = m /\ deferred'[k] = q /\ want'[k] = want[k]
      BY <1>1, <2>3, <2>4 DEF QueuesTyped
    <3> QED
      BY <1>3, <3>1
  <2>5. CASE k = h
    <3>1. want'[k] = Applied(Drain(m, q), c)
      BY <1>2, <2>3, <2>5 DEF QueuesTyped
    <3>2. CASE events[h] > 0
      <4>1. bbil_map'[k] = m /\ deferred'[k] = Append(q, c)
        BY <1>1, <2>3, <2>5, <3>2 DEF QueuesTyped
      <4>2. Drain(m, Append(q, c)) = Applied(Drain(m, q), c)
        BY DrainAppend
      <4> QED
        BY <3>1, <4>1, <4>2
    <3>3. CASE ~(events[h] > 0)
      <4>1. events[k] = 0
        BY <2>5, <3>3 DEF TypeOK
      <4>2. q = <<>>
        BY <1>1, <4>1 DEF NothingLeftDeferred
      <4>3. bbil_map'[k] = Applied(m, c) /\ deferred'[k] = <<>>
        BY <1>1, <2>3, <2>5, <3>3, <4>2 DEF QueuesTyped
      <4>4. Drain(m, q) = m /\ Drain(Applied(m, c), <<>>) = Applied(m, c)
        BY <4>2, AppliedTyped, DrainEmpty
      <4> QED
        BY <3>1, <4>3, <4>4
    <3> QED
      BY <3>2, <3>3
  <2> QED
    BY <2>4, <2>5
<1>6. ASSUME NEW t \in Threads,
             \/ \E e \in Events, u \in Uids : Notify(t, e, u)
             \/ \E l \in Listeners : Visit(t, l) \/ Lookup(t, l)
      PROVE  UNCHANGED <<bbil_map, deferred, want>>
  BY <1>6 DEF Notify, Visit, Lookup, notifier
<1>7. ASSUME NEW t \in Threads, NotifyEnd(t) PROVE Drain(bbil_map'[k], deferred'[k]) = want'[k]
  <2>1. PICK h : h = KindOf(ev[t])
    OBVIOUS
  <2>2. /\ UNCHANGED want
        /\ \/ /\ bbil_map' = [bbil_map EXCEPT ![h] = Drained(h)]
              /\ deferred' = [deferred EXCEPT ![h] = <<>>]
           \/ UNCHANGED <<bbil_map, deferred>>
    BY <1>7, <2>1 DEF NotifyEnd
  <2>3. CASE /\ k = h
             /\ bbil_map' = [bbil_map EXCEPT ![h] = Drained(h)]
             /\ deferred' = [deferred EXCEPT ![h] = <<>>]
    <3>1. bbil_map'[k] = want[k] /\ deferred'[k] = <<>>
      BY <1>1, <1>2, <2>3 DEF Drained, QueuesTyped
    <3>2. Drain(want[k], <<>>) = want[k]
      BY DrainEmpty DEF QueuesTyped, Maps
    <3> QED
      BY <2>2, <3>1, <3>2
  <2>4. CASE k # h \/ UNCHANGED <<bbil_map, deferred>>
    <3>1. bbil_map'[k] = m /\ deferred'[k] = q
      BY <1>1, <2>2, <2>4 DEF QueuesTyped
    <3> QED
      BY <1>3, <2>2, <3>1
  <2> QED
    BY <2>2, <2>3, <2>4
<1> QED
  BY <1>1, <1>3, <1>4, <1>5, <1>6, <1>7 DEF Next, ThreadStep

-----------------------------------------------------------------------------
\* A listener's process keeps the notifier and the listener in agreement.
LEMMA OwnStep ==
  ASSUME TypeOK, QueuesTyped, NEW l \in Listeners, ListenerStep(l),
         Agree(lpc[l], work[l], flag[l], bbil_queue[l], bbil_maps[l], Wanted(l))
  PROVE  Agree(lpc'[l], work'[l], flag'[l], bbil_queue'[l], bbil_maps'[l], Wanted(l)')
<1>1. PICK w \in Seq(Changes), q \in Seq(Changes), m \in [Kinds -> SUBSET Uids],
           W \in [Kinds -> SUBSET Uids] :
        w = work[l] /\ q = bbil_queue[l] /\ m = bbil_maps[l] /\ W = Wanted(l)
  BY DEF QueuesTyped, TypeOK, Wanted
<1>2. PICK pc, F : pc = lpc[l] /\ F = flag[l]
  OBVIOUS
<1>3. Agree(pc, w, F, q, m, W)
  BY <1>1, <1>2
<1>4. ASSUME UNCHANGED want PROVE Wanted(l)' = W
  BY <1>1, <1>4 DEF Wanted
<1>5. ASSUME NEW c, BbilQueueAdd(l, c)
      PROVE  Agree(lpc'[l], work'[l], flag'[l], bbil_queue'[l], bbil_maps'[l], Wanted(l)')
  <2>1. pc = "idle" /\ lpc'[l] = pc /\ work'[l] = w /\ flag'[l] = F /\ bbil_maps'[l] = m /\ Wanted(l)' = W
    BY <1>1, <1>2, <1>4, <1>5 DEF BbilQueueAdd, history
  <2>2. PICK p : p = bbil_queue'[l]
    OBVIOUS
  <2>3. Agree(pc, w, F, p, m, W)
    BY <1>3, <2>1 DEF Agree
  <2> QED
    BY <2>1, <2>2, <2>3
<1>6. ASSUME NEW G, UpdateListener(l, G)
      PROVE  Agree(lpc'[l], work'[l], flag'[l], bbil_queue'[l], bbil_maps'[l], Wanted(l)')
  <2>1. /\ pc = "idle" /\ lpc'[l] = "update" /\ work'[l] = Only(q, {c \in Changes : c.kind \in G})
        /\ flag'[l] = G /\ bbil_queue'[l] = q /\ bbil_maps'[l] = m /\ Wanted(l)' = W
    BY <1>1, <1>2, <1>4, <1>6 DEF UpdateListener, history, TypeOK, QueuesTyped
  <2>2. Agree("update", Only(q, {c \in Changes : c.kind \in G}), G, q, m, W)
    BY <1>3, <2>1, UpdateBegins
  <2> QED
    BY <2>1, <2>2
<1>7. ASSUME UnregisterListener(l)
      PROVE  Agree(lpc'[l], work'[l], flag'[l], bbil_queue'[l], bbil_maps'[l], Wanted(l)')
  <2>1. PICK v : v = ForAllWatched(l, FALSE)
    OBVIOUS
  <2>2. RemovesOnly(v) /\ \A k \in Kinds, u \in Uids : u \in m[k] => Mentions(v, k, u)
    BY <1>1, <2>1, AllWatched DEF RemovesOnly
  <2>3. /\ pc = "idle" /\ lpc'[l] = "unregister" /\ work'[l] = v /\ flag'[l] = F
        /\ bbil_queue'[l] = q /\ bbil_maps'[l] = m /\ Wanted(l)' = W
    BY <1>1, <1>2, <1>4, <1>7, <2>1 DEF UnregisterListener, history, TypeOK, QueuesTyped
  <2>4. Agree("unregister", v, F, q, m, W)
    BY <1>3, <2>2, <2>3, UnregisterBegins
  <2> QED
    BY <2>3, <2>4
<1>8. ASSUME ProcListenerMaybeQueue(l)
      PROVE  Agree(lpc'[l], work'[l], flag'[l], bbil_queue'[l], bbil_maps'[l], Wanted(l)')
  <2>1. /\ w # <<>> /\ work'[l] = Tail(w) /\ lpc'[l] = pc /\ flag'[l] = F
        /\ bbil_queue'[l] = q /\ bbil_maps'[l] = m
    BY <1>1, <1>2, <1>8 DEF ProcListenerMaybeQueue, QueuesTyped
  <2>2. PICK h \in Kinds, x \in Uids, op \in BOOLEAN : h = Head(w).kind /\ x = Head(w).uid /\ op = Head(w).op
    BY <1>1, <2>1, ChangeTyped
  <2>3. want' = [want EXCEPT ![h] = Applied(@, [op |-> op, uid |-> x, listener |-> l])]
    BY <1>1, <1>8, <2>2 DEF ProcListenerMaybeQueue
  <2>4. PICK V : V = Wanted(l)'
    OBVIOUS
  <2>5. ASSUME NEW k \in Kinds, NEW u \in Uids
        PROVE  u \in V[k] <=> IF Head(w).kind = k /\ Head(w).uid = u THEN Head(w).op ELSE u \in W[k]
    <3>1. (u \in V[k] <=> <<u, l>> \in want'[k]) /\ (u \in W[k] <=> <<u, l>> \in want[k])
      BY <1>1, <2>4 DEF Wanted
    <3>2. CASE k # h
      BY <2>2, <2>3, <3>1, <3>2
    <3>3. CASE k = h
      <4>1. want'[k] = IF op THEN want[k] \cup {<<x, l>>} ELSE want[k] \ {<<x, l>>}
        BY <2>3, <3>3 DEF Applied, QueuesTyped
      <4>2. <<u, l>> = <<x, l>> <=> u = x
        OBVIOUS
      <4> QED
        BY <2>2, <3>1, <3>3, <4>1, <4>2
    <3> QED
      BY <3>2, <3>3
  <2>6. Agree(pc, Tail(w), F, q, m, V)
    BY <1>3, <2>1, <2>5, ChangePassed
  <2> QED
    BY <2>1, <2>4, <2>6
<1>9. ASSUME ReleaseQueue(l)
      PROVE  Agree(lpc'[l], work'[l], flag'[l], bbil_queue'[l], bbil_maps'[l], Wanted(l)')
  <2>1. /\ pc = "update" /\ w = <<>> /\ lpc'[l] = "idle" /\ work'[l] = <<>>
        /\ flag'[l] = {} /\ Wanted(l)' = W
    BY <1>1, <1>2, <1>4, <1>9 DEF ReleaseQueue, TypeOK
  <2>2. PICK n, p : n = bbil_maps'[l] /\ p = bbil_queue'[l]
    OBVIOUS
  <2>3. ASSUME NEW k \in Kinds
        PROVE  n[k] = IF k \in F THEN {u \in Uids : Outcome(q, k, u, m[k])} ELSE m[k]
    <3>1. n[k] = IF k \in F THEN {u \in Uids : Watches(l, k, u)} ELSE m[k]
      BY <1>1, <1>2, <1>9, <2>2 DEF ReleaseQueue, TypeOK
    <3>2. \A u \in Uids : Watches(l, k, u) <=> Outcome(q, k, u, m[k])
      BY <1>1, WatchesIs
    <3> QED
      BY <3>1, <3>2
  <2>4. Agree("idle", <<>>, {}, p, n, W)
    <3>1. Agree("update", <<>>, F, q, m, W)
      BY <1>3, <2>1
    <3>2. TakenOver(n, F, q, m)
      BY <2>3 DEF TakenOver
    <3> QED
      BY <3>1, <3>2, UpdateEnds
  <2> QED
    BY <2>1, <2>2, <2>4
<1>10. ASSUME ReleaseMaps(l)
      PROVE  Agree(lpc'[l], work'[l], flag'[l], bbil_queue'[l], bbil_maps'[l], Wanted(l)')
  <2>1. /\ pc = "unregister" /\ w = <<>> /\ lpc'[l] = "idle" /\ work'[l] = <<>>
        /\ flag'[l] = F /\ Wanted(l)' = W
    BY <1>1, <1>2, <1>4, <1>10 DEF ReleaseMaps, TypeOK
  <2>2. PICK n, p : n = bbil_maps'[l] /\ p = bbil_queue'[l]
    OBVIOUS
  <2>3. \A k \in Kinds : n[k] = {}
    BY <1>10, <2>2 DEF ReleaseMaps, TypeOK
  <2>4. Agree("idle", <<>>, F, p, n, W)
    BY <1>3, <2>1, <2>3, UnregisterEnds
  <2> QED
    BY <2>1, <2>2, <2>4
<1> QED
  BY <1>5, <1>6, <1>7, <1>8, <1>9, <1>10 DEF ListenerStep

\* No step disturbs the agreement of any listener.
LEMMA AgreeStays ==
  ASSUME TypeOK, QueuesTyped, AllAgree, [Next]_vars
  PROVE  AllAgree'
<1> SUFFICES ASSUME NEW m \in Listeners
             PROVE  Agree(lpc'[m], work'[m], flag'[m], bbil_queue'[m], bbil_maps'[m], Wanted(m)')
  BY DEF AllAgree
<1>1. Agree(lpc[m], work[m], flag[m], bbil_queue[m], bbil_maps[m], Wanted(m))
  BY DEF AllAgree
<1>2. CASE UNCHANGED vars \/ \E t \in Threads : ThreadStep(t) \/ \E e \in Events, u \in Uids : Notify(t, e, u)
  <2>1. UNCHANGED <<listener, want>>
    BY <1>2 DEF ThreadStep, Notify, Visit, Lookup, NotifyEnd, vars, history
  <2> QED
    BY <1>1, <2>1 DEF listener, Wanted
<1>3. ASSUME NEW l \in Listeners, ListenerStep(l), l # m
      PROVE  Agree(lpc'[m], work'[m], flag'[m], bbil_queue'[m], bbil_maps'[m], Wanted(m)')
  <2>1. /\ lpc'[m] = lpc[m] /\ work'[m] = work[m] /\ flag'[m] = flag[m]
        /\ bbil_queue'[m] = bbil_queue[m] /\ bbil_maps'[m] = bbil_maps[m]
    <3>1. CASE (\E k \in UsedKinds, u \in Uids, op \in BOOLEAN : BbilQueueAdd(l, [op |-> op, kind |-> k, uid |-> u]))
      BY <1>3, <3>1 DEF BbilQueueAdd, TypeOK, QueuesTyped
    <3>2. CASE (\E F \in SUBSET UsedKinds : UpdateListener(l, F)) \/ UnregisterListener(l)
      BY <1>3, <3>2 DEF UpdateListener, UnregisterListener, TypeOK, QueuesTyped
    <3>3. CASE ProcListenerMaybeQueue(l)
      BY <1>3, <3>3 DEF ProcListenerMaybeQueue, TypeOK, QueuesTyped
    <3>4. CASE ReleaseQueue(l) \/ ReleaseMaps(l)
      BY <1>3, <3>4 DEF ReleaseQueue, ReleaseMaps, TypeOK, QueuesTyped
    <3> QED
      BY <1>3, <3>1, <3>2, <3>3, <3>4 DEF ListenerStep
  <2>2. Wanted(m)' = Wanted(m)
    <3>1. CASE ProcListenerMaybeQueue(l)
      <4>1. work[l] # <<>>
        BY <3>1 DEF ProcListenerMaybeQueue
      <4>2. PICK h \in Kinds, x \in Uids, op \in BOOLEAN :
              h = Head(work[l]).kind /\ x = Head(work[l]).uid /\ op = Head(work[l]).op
        BY <4>1, ChangeTyped
      <4>3. want' = [want EXCEPT ![h] = Applied(@, [op |-> op, uid |-> x, listener |-> l])]
        BY <3>1, <4>2 DEF ProcListenerMaybeQueue
      <4>4. ASSUME NEW k \in Kinds, NEW u \in Uids PROVE <<u, m>> \in want'[k] <=> <<u, m>> \in want[k]
        <5>1. want'[k] = want[k] \/ want'[k] = want[k] \cup {<<x, l>>} \/ want'[k] = want[k] \ {<<x, l>>}
          BY <4>3 DEF Applied, QueuesTyped
        <5>2. <<u, m>> # <<x, l>>
          BY <1>3
        <5> QED
          BY <5>1, <5>2
      <4> QED
        BY <4>4 DEF Wanted
    <3>2. CASE ~ProcListenerMaybeQueue(l)
      <4>1. UNCHANGED want
        BY <1>3, <3>2 DEF ListenerStep, BbilQueueAdd, UpdateListener, UnregisterListener, ReleaseQueue,
                          ReleaseMaps, history
      <4> QED
        BY <4>1 DEF Wanted
    <3> QED
      BY <3>1, <3>2
  <2> QED
    BY <1>1, <2>1, <2>2
<1>4. ASSUME ListenerStep(m)
      PROVE  Agree(lpc'[m], work'[m], flag'[m], bbil_queue'[m], bbil_maps'[m], Wanted(m)')
  BY <1>1, <1>4, OwnStep
<1> QED
  BY <1>2, <1>3, <1>4 DEF Next

-----------------------------------------------------------------------------
\* What is registered, what is deferred and what the listeners watch fit together at
\* every step of every call.
THEOREM RegistrationInductive == Spec => []RegistrationInv
<1>1. Init => TypeOK /\ QueuesTyped /\ DeferredAsImmediate /\ Agreement
  <2> SUFFICES ASSUME Init PROVE TypeOK /\ QueuesTyped /\ DeferredAsImmediate /\ Agreement
    OBVIOUS
  <2>1. TypeOK
    <3>1. (CHOOSE e \in Events : TRUE) \in Events /\ (CHOOSE u \in Uids : TRUE) \in Uids
      BY NotifierAssumption
    <3> QED
      BY <3>1 DEF Init, TypeOK
  <2>2. QueuesTyped
    BY DEF Init, QueuesTyped
  <2>3. DeferredAsImmediate
    <3>1. {} \in Maps
      BY DEF Maps
    <3>2. Drain({}, <<>>) = {}
      BY <3>1, DrainEmpty
    <3> QED
      BY <3>2 DEF Init, DeferredAsImmediate, Drained
  <2>4. Agreement
    BY DEF Init, Agreement, ListenerAgrees, IdleDone, UpdateAgrees, UnregisterAgrees
  <2> QED
    BY <2>1, <2>2, <2>3, <2>4
<1>2. TypeOK /\ QueuesTyped /\ Agreement => AllAgree
  BY AgreementIs
<1>3. NotifierInv /\ QueuesTyped /\ DeferredAsImmediate /\ AllAgree /\ [Next]_vars
        => QueuesTyped' /\ DeferredAsImmediate' /\ AllAgree'
  <2> SUFFICES ASSUME NotifierInv, QueuesTyped, DeferredAsImmediate, AllAgree, [Next]_vars
               PROVE  QueuesTyped' /\ DeferredAsImmediate' /\ AllAgree'
    OBVIOUS
  <2>1. TypeOK /\ NothingLeftDeferred
    BY DEF NotifierInv
  <2>2. QueuesTyped' /\ AllAgree'
    BY <2>1, QTypesStay, AgreeStays
  <2>3. DeferredAsImmediate'
    <3>1. CASE UNCHANGED vars
      BY <3>1 DEF DeferredAsImmediate, Drained, vars, notifier, history
    <3> QED
      BY <2>1, <3>1, DeferredStays
  <2> QED
    BY <2>2, <2>3
<1>4. NotifierInv => TypeOK
  BY DEF NotifierInv
<1>5. TypeOK /\ QueuesTyped /\ AllAgree => Agreement
  BY AgreementIs
<1>6. QueuesTyped /\ DeferredAsImmediate /\ Agreement => RegistrationInv
  BY DEF Agreement, RegistrationInv
<1> QED
  BY <1>1, <1>2, <1>3, <1>4, <1>5, <1>6, NotifierInductive, PTL DEF Spec

\* Deferring registrations while events are under way has no effect of its own.
THEOREM DeferralInvisible == Spec => []DeferredAsImmediate
<1>1. RegistrationInv => DeferredAsImmediate
  BY DEF RegistrationInv
<1> QED
  BY <1>1, RegistrationInductive, PTL

\* Between its calls a listener is registered for exactly what it watches.
THEOREM ListenersAgree == Spec => []ListenerAgrees
<1>1. RegistrationInv => ListenerAgrees
  BY DEF RegistrationInv
<1> QED
  BY <1>1, RegistrationInductive, PTL
=============================================================================
