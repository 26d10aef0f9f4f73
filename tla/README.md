# Formal models of the Fawkes core

Fawkes is a component framework for robots: plugins are threads that share data and
send messages through the *BlackBoard*, in step with a main loop. This directory holds
TLA+ models of the BlackBoard, of its messages and memory, of the thread lists with their
barrier, and of the SyncPoints that drive the main loop (`src/src/libs`), the TLC
instances that check them, and TLAPS proofs. Paths below are relative to `src/src/libs/`.

## 1. The system

### Inventory

| Component | State | Operations | What makes it correct |
|---|---|---|---|
| **Interface manager** `blackboard/internal/interface_manager.cpp` | chunk headers (`refcount`, `num_readers`, `flag_writer_active`, `serial`), `writer_interfaces`, `rwlocks`, `owner_info_`, two mutexes | open for reading / writing / by pattern, close, list | one writer per interface; memory lives as long as its instances; counters, maps and locks agree with the instances; every way out gives the mutexes back |
| **Notifier, listeners** `blackboard/internal/notifier.cpp`, `interface_listener.cpp` | per kind of event: multimap, event counter, queue of deferred changes; per listener: watch lists, pending changes, two mutexes | register, update, unregister; six notifications | iterating without a lock is safe; deferring is invisible; nobody in force is passed over; deferred changes are applied |
| **Notifier, observers** same file, `interface_observer.cpp` | lists of observers per event, counter, queue, mutex | register, unregister; created / destroyed | walking without a lock is safe; the last call decides; calls return |
| **Memory manager** `blackboard/internal/memory_manager.cpp` | lists of free and allocated chunks in one segment | alloc, free, check | chunks cover the segment without overlap, free memory is merged, areas in use stay |
| **Message manager and queues** `blackboard/internal/message_manager.cpp`, `interface/message_queue.cpp`, `blackboard/utils/on_message_waker.cpp` | per writer a linked list, reference counts, wakeups of the writer's thread | enqueue, transmit, append, first, pop, remove, flush | messages arrive once and in order, are not leaked or freed early, and are handled |
| **Interruptible barrier, threads, thread lists** `core/threading/` | per barrier: threads left, timeout, threads inside; per thread: pending wakeups, barrier, flags; per list: barrier, bad barriers | wait with timeout; wakeup, loop, cancel; wakeup_and_wait, try_recover, add, remove | the coordinator waits for all but late threads, always returns, late threads come back, no barrier is deleted in use |
| **SyncPoints** `syncpoint/` | watchers, waiters, emitters, pending emitters, timer, predecessor | emit, wait for one / all, timeout, register, unregister, release | waiters are released when all pending emitters emitted or left; nobody waits for who has left |
| **Thread manager, main loop, SyncPointAspect** `baseapp/`, `aspect/syncpoint.cpp` | hooks, threads and how far their removal is | the hooks of a cycle, add, remove | hooks in order, the loop goes round, every thread gets its turn |
| Plugin manager `plugin/manager.cpp` | loaded plugins, meta plugins, listeners | load, unload | a meta plugin is loaded if and only if its parts are; not modelled, section 7 |
| Remote BlackBoard, netcomm, other aspects, configuration, navgraph, logging, tf, vision, plugins, tools | | | not modelled, section 7 |

### How the parts interact

`LocalBlackBoard` forwards to the interface manager, the message manager and the
notifier. The interface manager gets chunks from the memory manager under that
manager's mutex, and after it has given back its mutexes it calls the notifier:
`notify_of_interface_created`, `..._reader_added`, `..._writer_added` at the end of an
open; `..._writer_removed` or `..._reader_removed` and `..._interface_destroyed`
*in the middle* of a close, between the release of the chunk and the deletion of the
instance. `Interface::write()` causes `notify_of_data_refresh`; the message manager
causes `notify_of_message_received`, whose listeners may veto the message. The callbacks
run in the thread that caused the event and may register, unregister, open and close.
An `OnMessageWaker` is such a listener: it appends the message itself, wakes the writer's
thread and vetoes the rest of `transmit()`.

`FawkesMainThread::loop()` emits the start SyncPoint of each hook and waits for all
emitters of its end SyncPoint. A thread with a `SyncPointAspect` (every thread with
`BlockedTimingAspect` has one) waits for its input point in `pre_loop()` and emits its
output point in `post_loop()`, both called by `Thread::run()`. A plugin may replace this
main loop and drive the hooks by `ThreadManager::wakeup_and_wait()`, which wakes the
`ThreadList` of a hook and waits at its barrier; `try_recover()` follows in every cycle.

### What is hard

Two mutexes with error paths that cross them; sections that give up the mutex and go on
with what they know; iterating over shared maps with only a counter to protect them;
deferred changes applied by another thread; searching under a mutex; timeouts that race
with the last arrival, and what the late ones find; barriers deleted while a thread may
still be inside; threads removed in the middle of a round; a wakeup that comes while the
thread goes to sleep. `PROJECT.json` lists the hazards, each at its line, with the
properties that cover it or the reason why none does.

## 2. Modules

| Module | Content |
|---|---|
| `InterfaceManager` | the interface manager, one action per section between lock operations |
| `BlackBoard` | abstract specification: an atomic single-writer, multiple-reader registry |
| `InterfaceManagerProofs` | TLAPS: inductive invariant, `OneWriter`, `NoUseAfterFree`; the manager's books: locks, writers, owners, counters, mutexes; `InterfaceManager` implements `BlackBoard` |
| `Notifier` | the four listener multimaps, events, registration, the listeners' watch lists |
| `NotifierProofs` | TLAPS: inductive invariants for events and for registrations, and what follows |
| `Observers` | observers of creation and destruction |
| `ObserversProofs` | TLAPS: inductive invariant, `ListsWalked`, `CallsInOrder` |
| `Iteration`, `IterationProofs` | loops over lists by their indices, and what a proof needs about them |
| `MemoryManager` | the two chunk lists: best fit, splitting, overhang, merging |
| `Allocator` | abstract specification: disjoint regions that stay where they are |
| `MemoryManagerProofs` | TLAPS: chunk lists, the merging loop, inductive invariant, `CheckHolds`, `MaxInOneChunkHolds`, `MemoryManager` implements `Allocator` |
| `Messages` | senders, `transmit()`, wakers and vetoes, linked queues, reference counts, writers that are opened and closed |
| `Mailbox` | abstract specification: what `msgq_enqueue()` promises, boxes in which messages stay in order until they are taken out |
| `MessagesProofs` | TLAPS: linked lists, inductive invariant, `ReferencesExact`, `PopsCurrent`, `Mailboxes`: `Messages` implements `Mailbox` but for torn queues |
| `SyncPoint` | operators for the SyncPoints and the calls that wait at them |
| `MainLoop` | the main loop and the threads of its hooks, on top of `SyncPoint` |
| `MainLoopProofs` | TLAPS: paths of points, what the operations do, inductive invariant, `NoPointThrows`, `WaitersAreWaiting`, `HooksInOrder` |
| `ThreadList` | `wakeup_and_wait()` with `InterruptibleBarrier`, `Thread::run()` and recovery |
| `ThreadListProofs` | TLAPS: inductive invariant, `NeverThrows`, `BarriersLive`, `CycleComplete`, `FlaggedKnown` |
| `MC...` | symmetry sets and constants for TLC |

Definitions named `...Un...`, `...AtOnce`, `...Always` and so on under a comment
"Mutant:" are plausible mistakes; each takes the place of the definition after it to see
that the property would notice. They take no part in the specifications.

### InterfaceManager

`mutex` and `memlock` (the memory manager's) hold a thread or `None`. Unlocking sets
them to `None` whoever holds them, which is what `Mutex::unlock()` does with a normal
pthread mutex. `chunk[p]` is the `interface_header_t` at `p`; `inst[i]` the fields that
`set_memory()` and `set_readwrite()` give an instance, `st[i]` its stage of life.
`lockref` counts the references of each `RefCountRWLock`.

An open call is `Open` (lock), `OpenLockMemory`, then one of `OpenRefused`,
`OpenMismatch`, `OpenExisting`, `OpenCreate`, `OpenOutOfMemory`, and `OpenCommit` or
`OpenFail` (the catch block). `open_multiple_for_reading()` holds both mutexes
throughout and is one action per outcome. `close()` is `Close`, `CloseRelease` and,
after the notifications, `CloseDelete`, with `mutex` free in between. Types,
identifiers and hashes are abstracted: a *uid* stands for a type/identifier pair,
`HashMayDiffer` are the uids whose library may disagree with the chunk, `UnknownTypes`
those without factory. `oom` and `miscounted` are history variables: a call ran out of
memory, and the chunks that a failed `open_multiple_for_reading()` had counted readers
for. Properties that the double unlock breaks are stated up to the first `oom`
(`...UnlessOom`, and a conjunct of the others).

### Notifier

`events[k]`, `bbil_map[k]` and `deferred[k]` are `bbil_<k>_events_`, `bbil_<k>_` and
`bbil_<k>_queue_`. The kind mutexes are held for single sections, each of which is one
action. A registration is `UpdateListener`, one `ProcListenerMaybeQueue` per change and
`ReleaseQueue`; unregistering is `UnregisterListener` (which keeps `bbil_maps_mutex_`),
`ProcListenerMaybeQueue` per watched interface and `ReleaseMaps`. An event is `Notify`,
for every listener `Visit` (look into the queue) and `Lookup` (get the interface, call
back), and `NotifyEnd`. The look into the queue is not synchronized in the code; the
model makes it one step, so it sees the queue before or after a change. `want`, `steady`
and `missed` are history.

### Observers

`bbio`, `bbio_events`, `bbio_queue` as in the code. `unregister_observer()` during an
event is `UnregisterObserver`, one `SearchQueue` per iteration of its loop, and
`QueueRemoval`, with `bbio_mutex` held; an iteration that removes nothing changes
nothing. Whether a pattern of an observer matches an event decides about the callback only,
which is no step of the notifier; the model leaves it open.

### MemoryManager

`mem` holds the headers by address; the chains from `free_list_head` and
`alloc_list_head` are the lists. `alloc(n)` and `free(ac)` are one action each, as both
hold `mutex_`, and follow the code through `list_remove`, `list_add` and the merging
passes of `cleanup_free_chunks`, whose inner loop goes on from a chunk it has merged
away; it is a loop over the chain as it was before the pass (`Iterated`).
`CheckFindsNothing` is the code's `check()`. `Allocator` is what `InterfaceManager`
assumes of its chunks.

### Messages

A sender is in `msgq_enqueue()`: `Enqueue` (look up the writer, without a lock), `Notify`
(listeners), `Ref` and `append` or `AppendRejected`, `Wake` if the waker appended, and
`Unref`. A writer's thread is asleep, in its loop (`First`, `Pop`, `Flush`,
`msgq_remove`), iterating with the queue locked, or leaving. `list_`, `end_el_` and
`next` are the pointers of the linked list; `remove()` does not update `end_el_`, so the
queue may be *torn*. Appending to a torn queue writes to freed memory: if that is unused,
the message is lost (`append`, where `leaked` accounts for its reference), and if it
serves somebody else by then, anything may happen (`Undefined`). Instances are opened and
closed while senders hold the pointer they looked up; a sender that uses a deleted
instance is also `Undefined`. After that step nothing is claimed: the variable `undefined`
stops the model. `next` of elements that were freed is forgotten. `wakeup()` of a
waker cannot throw: it does so for a thread that was woken with a barrier and still runs
(`thread.cpp:1000`), and the threads that the repository gives an `OnMessageWaker` (those of
the pcl_db plugins and the protoboard) have no `BlockedTimingAspect`, so no
thread list ever sets their barrier.

### SyncPoint and MainLoop

`emit()`, `register_emitter()` and `unregister_emitter()` keep the mutex of a point
while they go on to its predecessor, so each is one step for the whole path up (`Up`: the
least set with the point that has the predecessors of its points); the sets
`Reached`, `Notified`, `Counted`, `Completed` say how far the effects get.
`unregister_emitter()` gives up the mutex to emit, so it is two steps. A wait is `wait`
(up to the condition variable), `timeout`, and `WaitReturn`, with everything possible in
between. `newer` stands for the comparison of the `last_emitter_reset_` times. `MainLoop`
adds the main thread (`MainStart`, and per hook `MainEmit`, `MainWait`, `MainTimeout`,
`MainReturn`), threads in `Thread::run()` (`LoopTop`, `PreLoopReturn`, `PostLoop`,
`SkipLoop`, `TestCancel`) and their removal (`PrepareFinalize`, `CancelFinalize`, `Stop`,
`CancelledInWait`, `Finalize`). A thread with `BlockedTimingAspect` is woken once per
`post_loop()`, by itself; if it comes to the top of the loop prepared for finalization it
does without (`SkipLoop`) and sleeps. `defaulted` is history.

### ThreadList

`barriers` are objects that are created and deleted; a deleted one is not used again at
once, so that a stale pointer shows. `at` and `bar` say where a process is in `wait()`:
`Enter` or `EnterLate`, `Pass` or `TimeOut`, the hard synchronisation inside `Leave`, and
`Out`. The coordinator is `StartCycle`, `wakeup` per thread, `AllWoken`, the wait,
`FlagLate` after a timeout, and `try_recover` before the next cycle. Threads are
`Awake`, `LoopReturns`, `Done` (take the barrier), the wait, `Presleep`. The manager's
`Add` and the steps of a removal hold the thread list's mutex, so they come between the
cycles. `try_recover` is one step: what threads do meanwhile comes before or after.

## 3. Runs

| Run | Shows | Instance |
|---|---|---|
| `im_calls` | memory, counters, locks, writer map, owners and mutexes agree, through unknown types, version mismatches (also inside `open_multiple_for_reading()`) and full memory; the inductive invariant `IInv`; refinement of `BlackBoard` until a call runs out of memory | 2 threads, 4 uids (one with mismatches, one without factory), 3 instances, 2 chunks, 3 locks, serials to 2 |
| `im_two_writers` | *violation* of `SingleWriter` | 2 threads, 1 chunk too few |
| `notifier_events` | `NotifierInv`, iterators, deferring, agreement of notifier and listener, nobody in force passed over | 2 listeners, 2 threads, message events with veto |
| `notifier_wrong_queue` | *violation* of `NoListenerMissed` | 1 listener, 2 threads, data and writer-removed events |
| `observers_register` | walking is safe, the last call decides | 2 observers, 2 threads |
| `observers_spin` | *violation* of `UnregisterReturns` | 2 observers, 1 thread, fairness |
| `mainloop` | no exception, hooks in order, waiting sets, the loop goes round, turns come | 2 hooks, one thread each, the first one comes and goes; an observer of the predecessor; fairness |
| `mainloop_removed` | *violation* of `WaitsForEmitters` | 1 hook, 1 thread that is removed |
| `memory` | `check()` finds nothing, merging is complete; refinement of `Allocator` | 21 bytes, headers of 2, requests of 1, 2 and 5 |
| `messages` | references balance, current is first, mailboxes unless torn, delivery | 2 senders, 3 messages (one kept by its sender), 2 instances (one woken, one with veto); fairness |
| `messages_removed` | *violation* of `ImplementsMailbox` | 2 senders, 3 messages, 1 instance |
| `threads` | no exception, barriers alive, all finished, late threads in the books; the coordinator comes round, late threads come back | 2 threads, one added and removed, 5 barriers, fairness |

**Bounds.** Two threads suffice for every pair of sections to interleave; three
instances for a writer, a second candidate and a reader of one interface, or for a close
that overlaps the next open and a third party; `MaxSerial` = 2 lets a serial be handed
out again after its chunk was freed; a third one while two chunks exist (the first freed
and allocated again) is left to the theorems, which have no such bound. `Room` and
`SerialLeft` in `Open` are the bounds' guards. `MaxRefs` bounds what failing pattern opens
leave behind. After a call has run out of memory `im_calls` starts no further open
(`OpenAfterOom`), as little is claimed from there on; calls under way and closes go on.
`im_two_writers` has no such restriction.
`MaxQueue` keeps listeners and observers from starting another call while that many
changes wait; two or three are enough to queue an addition, a removal and an addition of
the same listener, and of two. Listeners, threads and addresses are interchangeable, so
the safety runs use symmetry; the runs with liveness do not. `MemSize` lets five chunks
exist, so that three neighbours are merged and rests too small to split occur. Three
messages are enough to tear a queue, lose a message and send another; `MaxRejected`
bounds how often a message that was queued before is sent again. `MaxPending` bounds the
registrations that a thread leaves pending when it is removed and added again (the
disagreement below lets them pile up). `MaxBad` bad barriers may exist before the next
cycle is left out (`SkipCycle`) until some are cleared: two, so that a thread is late
while another barrier is still waiting for one. The root SyncPoint and the predecessor
of the second hook have no waiters and are left out of `mainloop`. `messages` and
`messages_removed` do not check for deadlock: senders stop when every message is sent.

**Fairness.** Always that of the kernel's scheduler and of time passing; that application
code returns is assumed only in `Messages`. `Observers`: a thread that can continue inside a call does, and
one that waits for a mutex that is free again and again gets it (strong fairness of the
step that takes it). `MainLoop`: the main thread runs and its time limits pass, threads
get into `pre_loop()` and out of it; nobody's `loop()` has to return, nobody has to be
removed. `Messages`: a sender inside `msgq_enqueue()` goes on, a writer's thread that has
a wakeup takes it and, in its `loop()`, empties its queue, as the plugins do, an instance that
is being closed is deleted; nobody has to send or close. `ThreadList`: the coordinator,
threads outside `loop()` and a removal under way go on, the coordinator's time limit
passes; `loop()` need not return.

## 4. Disagreements with the documentation

1. **Two writers** (`im_two_writers`). On `OutOfMemoryException` `create_interface()`
   unlocks both mutexes (`interface_manager.cpp:202`) and its caller's catch block does so
   again. Between the two another thread may have locked them, and its section is opened
   to a third call. "There can be only one writer at a time for any given interface"
   (`blackboard.cpp:63`) then fails.
2. **Wrong queue** (`notifier_wrong_queue`). `notify_of_writer_removed()` and
   `notify_of_reader_removed()` consult `bbil_data_queue_` (`notifier.cpp:542`, `:636`).
3. **Endless loop** (`observers_spin`). `unregister_observer()` (`notifier.cpp:379`) never
   gets past the queued entry of another observer, and keeps `bbio_mutex_`.
4. **Waiting for who has left** (`mainloop_removed`). `unregister_emitter()`
   (`syncpoint.cpp:465`) emits for a pending component before it erases it. If it is the
   last pending one, the emission starts the next round with the component still among
   the emitters, and the erase leaves `pending_emitters_` alone: although "other components
   will not wait for it anymore" (`syncpoint.cpp:450`), the main loop waits for it until
   the timeout. `MainCycles` shows that it does get on.
5. **Lost message** (`messages_removed`). `MessageQueue::remove()` of the last of several
   messages (`message_queue.cpp:207`) leaves `end_el_` at a freed element, and the next
   message is linked behind that one: it is marked, keeps its reference and is in no queue,
   although msgq_enqueue() "appends the given message to the queue", from where it is
   "freed as soon as it has been processed" (`interface.cpp:901`). `MailboxUnlessTorn`
   shows that this is the only way to lose one, up to the `Undefined` step. Of the code in
   the repository only the Lua binding calls `msgq_remove()`.

The models also show what no document rules out. The catch block of
`open_multiple_for_reading()` does not take back the counters of instances it deletes;
`RefcountCovers`, a part of `IInv`, shows that the error is on the safe side: memory is
kept, not freed early. `msgq_append()` of a message that was queued before loses a
reference. `transmit()` may use an instance that was deleted meanwhile.

One more disagreement is in the model without a run of its own. "The thread is expected
to run after the finalization has been canceled as if the finalization was never tried"
(`thread.cpp:471`), but `cancel_finalize()` wakes nobody, and a thread that has done
`SkipLoop` sleeps until it is removed; the main loop waits for it until the
time limit in every cycle. The properties of `mainloop` hold with such threads.

Two limitations of deferring are no disagreement. Events for observers do not look for
queued removals, so an observer can be called after `unregister_observer()` has returned.
A listener that unregisters and
registers again during an event is passed over by further events of the kind until the
queue is applied. `NoListenerMissed` therefore speaks of registrations *in force*: in the
map, in the listener's own list, and without a queued change.

## 5. Proofs

All proofs are for arbitrary constants under named assumptions, which every run evaluates:

| Assumption | Says | Because |
|---|---|---|
| `ConstantsAssumption` | instances and chunks are finite, bounds are numbers, `None` is no value | |
| `NotifierAssumption`, `ObserversAssumption` | threads (and interfaces) are finite, there is some event | the counters count threads |
| `ThreadsAssumption` | threads and barriers are finite; at least `MaxBad + 2` barriers | the code allocates a barrier when it needs one; the model needs one to be free |
| `MemoryAssumption` | headers have a positive size, the segment is larger than one header, requests are for at least one byte | `sizeof` of a structure; the constructor puts a first chunk into the segment; the interface manager asks for a header and the interface's data |
| `PredAssumption` | predecessors form a tree | an identifier is longer than its predecessor's |
| `MessagesAssumption` | every message has one sender; senders, messages and instances are finite, `Null` is none of them, the bound is a number; an instance with a waker has no vetoing listener | the counts count them; a message object belongs to who created it; see section 7 for two threads with one message |
| `AspectAssumption` | only the main thread waits for all at the end of a hook; input and output point of a thread are not on one path | so are the aspects of the repository: siblings such as `/preloop/start` and `/preloop/end` |

**InterfaceManagerProofs.** `SingleWriter` is not inductive: that a second writer is
refused depends on the flag in the header (`WritersFlagged`), on the header belonging to
the instance (`MemoryAlive`, `ChunksDistinct`), on the count not reaching zero too early
(`RefcountCovers`), and on one thread at a time being between find and commit
(`SectionsGuarded`, `StagesMatch`, `CommitReady`). `IInv` is their conjunction, under
`~oom` because the double unlock breaks `SectionsGuarded`; types hold regardless. Per
action the lemmas first establish types (`OpenTypes`, `CloseTypes`), then the effect on
memory (`CreateMemory`, `CommitMemory`, `MultipleMemory`, `MismatchMemory`,
`ReleaseMemory`), then the stages of the threads (`OpenThreads`, `CloseThreads`).
Theorems: `Inductive`, `TypeCorrect`, `OneWriter`, `NoUseAfterFree`.

The second half of the module is about the books. `BInv` is what the manager writes down: blank fields of unused
instances, lock references counted exactly, mutexes given back (all these hold even after a
failed allocation); and, under `~oom`, distinct serials, the maps of locks and of writers,
the owners, and exact counters in the headers (`HeadersCount`). Those of the chunks in
`miscounted` are excepted, because the catch block of `open_multiple_for_reading()` does
not take counts back; such a chunk is never freed. `BInv` is inductive relative to `IInv`.

`Refinement` is the step simulation of `BlackBoard`, by `IInv` and
`BInv`: commits, deletions and pattern opens are the abstract steps, everything else
stutters. It speaks of the steps up to the one that sets `oom`; `im_two_writers` shows that this
is needed.

**MemoryManagerProofs.** `CheckFindsNothing` speaks about the two lists, `alloc()` and
`free()` write links. Links lead to higher addresses (`LinksAscend`), so following them
ends and the recursive definition of a chain has a solution; a list is then a set of
chunks, each linked to the next higher one (`ListOf`, `After`), and `list_remove` and
`list_add` take an element out of the set or put it in and leave the other list alone.
`HInv` adds that the chunks of both lists follow one another through the whole segment
(`Tiled`), that no free chunk is in front of another one (`FreeMerged`), and that an
overhang is smaller than its chunk (`OverhangFits`), which the size that a client holds
needs. `FreeMerged` holds between the calls only: `free()` breaks it and
`cleanup_free_chunks()` must restore it. A pass goes on from chunks that it has just
merged away; `Live` says what is then still a list, `MergeDead` that what such a chunk
does with its own header is not seen, and `PassDoes` that a pass leaves the list alone
only if no two neighbours are left, and shortens it otherwise. So as many passes as there
were chunks are enough, which is where the code's `modified` ends (`CleanupDoes`). That the
sizes add up to the segment is proved by counting the bytes that the chunks cover
(`CoverAdds`, `SumTiles`), and a run of bytes outside the allocated chunks lies in one free chunk
because what follows a free chunk is allocated or the end (`HoleInChunk`). Theorems:
`MemoryInductive`, `MemoryTyped`, `CheckHolds`, `MaxInOneChunkHolds`, and
`MemoryImplementsAllocator`: `alloc()` is the abstract `Alloc` of an area that overlaps no
other, `free()` is `Free` of one, and a request that cannot be met stutters.

**NotifierProofs.** The argument is that of the code: an event counts itself before it
looks at the map, so as long as it is under way the counter is not zero
(`UnderwayCount`), changes are queued, and only an event that is alone may apply them
(`MapsStill`). `NotifierInv` adds that nothing is queued when the counter is zero, that
what an event has still to visit is in the map, and that the registrations an event
relies on stay in force (`SteadyInForce`). Theorems: `NotifierInductive`,
`IteratorsSafe`, `NothingForgotten`, and `NobodyMissed`, which has the hypothesis
`OwnQueue` that each event consults its own queue: true of four of the six
notifications. `RegistrationInv` is about what is registered: the map with its queue
applied is what applying every change at once would have given, and for each listener,
interface and kind this is what the listener's own map and the changes it has still to
pass on say. Of a queue only the last change of a pair counts, which is the lemma that
everything rests on. Theorems: `RegistrationInductive`, `DeferralInvisible`,
`ListenersAgree`.

**ObserversProofs.** `ObserversInv`: the counter counts the events under way, nothing is
queued without one, an observer that searches the queue holds the mutex, and the last
call decides. `CallsInOrder` needs what a loop over the queue makes of the lists, and
what taking entries out of the queue leaves of that.

**IterationProofs.** Loops are defined along the indices (`Iterated`), so that a proof by
induction is a proof about the smallest index at which the claim fails; the induction
theorems of the library take an operator, which the provers cannot instantiate.

**ThreadListProofs.** `TInv` relates who is in a barrier's `wait()` or on the way to it, who
was woken, who is flagged and what the barrier's counters say: `BarriersAgree` (the
barriers that exist are the list's and the bad ones, and who is in them), `PendingKnown`
(whoever is going to wait at a barrier is a party of the cycle or late at a bad one),
`BarriersBounded` (there is room for one more), `Round` (who has still to enter),
`InTime` (no timeout means that all have entered), `Counted` (the barrier is for the
unflagged threads and the coordinator) and `FlaggedIsListed`. `BarrierAlive` and
`AllFinished` follow from it.

**MainLoopProofs.** `MInv` has the types, `LivesAgree` and `CallsAgree` (places, removals
and calls fit), `RegistrationsAgree` (who got a point watches its path until the release,
and is registered as emitter of the output path exactly until the erase), `PendingKept`
(where there are emitters some are pending, which is why a timeout always finds somebody
late and does not throw), `WaitingSetsAgree`, `WaitersByType` and `NoException`. A release
takes only the part of a path that no other watched point needs; that the input point is
in it and the output path is not (`InReleasable`) is where the tree and the assumption
on aspects are needed. The assumption on waits for all is needed where the main thread
times out and wakes those who wait for all at the same point, but leaves them in the
waiting set: a second owner of an end point could be refused its next wait.

`HooksInOrder` proves `HookOrder` from `MInv` and `HooksAgree`, as long as no wait timed
out: only threads of the hook the main thread is in are busy; a thread that is busy, or
alive while its hook is not on, is pending at the end point of its hook; and the main
thread leaves the hook by a wait for all that completes, that is when nobody is pending. Its hypothesis `BlockedTiming` says that the threads with an output point are
those of the `BlockedTimingAspect` and that nothing is below a hook's points; it is a
formula about constants, and `MCMainLoop` evaluates it for both instances.

**MessagesProofs.** A queue is what comes from `list_` on along the links, a recursive
function that is only known to be a solution of its definition once some solution is
given; `Follows` says by positions that a function is one, and the lemmas on linked lists
give the solution after every operation from the one before it: an element put behind the
last one, one cut out, a whole list freed. `QueuesAgree` has what makes this work for
several queues over one set of elements: all links lead to an end (`Linked`), only queued
elements have a link, no message is in two queues or in one without being marked, and an
end pointer that points into its queue points to its end, so that a dangling one is the
only way to lose a message. `SendersAgree` makes the references countable: a message has
one sender, so at most one queue and one `msgq_append()` hold it. `LeaksBounded` and
`WakeupsCovered` (every wakeup is for a marked message of its own) bound the counters.
That `msgq_pop()` takes what `msgq_first()` returned holds because others only append and
the instance is not deleted while its thread is in its loop (`WritersAgree`). Theorems:
`MessagesInductive`, `MessagesTyped`, `ReferencesExact`, `PopsCurrent`, and `Mailboxes`,
which is `MailboxUnlessTorn`: `append()` is the abstract `Post`, or the loss of the message
if the queue is torn, `msgq_pop()` and `msgq_remove()` are `Take` at the message's
position, `flush()` and the destructor are `Clear`, and all else stutters.

**Only model-checked.** Liveness (`UnregisterReturns`, `MainCycles`, `TurnComes`,
`Delivered`, `Cycles`, `Reintegrated`), which needs fairness and is out of the prover's
reach. Every invariant and every action property that a passing run checks is also proved.

## 6. Plan

1. Done: all modules of section 2, and the proofs of section 5.
2. `PluginManager`: loading and unloading of meta plugins under its mutexes.

## 7. Not modelled

Character data (types, identifiers, patterns) and the contents of interfaces; 16 and 32
bit wrap-around of `num_readers`, `refcount` and serials, which the memory of the
BlackBoard keeps out of reach; deletion of listener, observer and thread objects;
concurrent registration calls for one listener; two threads that send one message object
at a time. The shared-memory variant of the memory manager, which adds address
translation and a lock. `lock_until_next_wait()` of a SyncPoint (only tests call it),
call statistics, `interrupt()` and `reset()` of the barrier (no list's barrier is
interrupted), and cancellation of a thread inside the barrier's condition wait.
`insert_after()` of the message queue, which `Interface` does not offer. `free()` of a
pointer that is not allocated, which throws with `mutex_` held (`memory_manager.cpp:357`):
the interface manager frees only chunks it has.

Spurious wakeups: the waits of a SyncPoint (`syncpoint.cpp:306`, `:317`, `:329`) have no
loop around them that tests a predicate, so that a wakeup without emission, which POSIX
allows, would let a component go on while it is in the waiting set. `NoException`,
`HookOrder` and `WaitingSetsAgree` hold under the assumption that there is none.

Of the thread manager: `force_remove()`, which goes on after a veto and only stops by
at the mutex of the thread list (`thread_manager.cpp:484`); that the list of a hook is
erased when its last thread leaves (`:211`) and made anew; and in `ThreadList` the veto of
`prepare_finalize()`, after which the thread stays (in `MainLoop` it is `CancelFinalize`).

The plugin manager loads shared objects and keeps lists of what it has loaded; its
threads are added and removed as in `MainLoop` and `ThreadList`. Remote BlackBoard and
netcomm are socket I/O around the same operations; the other aspects hand out pointers;
configuration, logging, transforms, navgraph and vision are data processing; plugins and
tools are applications of the framework, most of them bound to hardware or to engines
outside the repository. They make up most of its 400000 lines.
