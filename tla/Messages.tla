------------------------------ MODULE Messages ------------------------------
(***************************************************************************)
(* Messages from readers to the writing instance of an interface:          *)
(* Interface::msgq_enqueue(), BlackBoardMessageManager::transmit(), the    *)
(* OnMessageWaker listener, the reference counts of the messages and the   *)
(* linked list of MessageQueue.                                            *)
(*                                                                         *)
(* A queue element is known by its message, as no message is queued twice. *)
(* Writing instances of one interface are opened and closed one after the  *)
(* other, while senders may still hold the pointer that transmit() looked  *)
(* up.  What the program does once it has used memory that was given back  *)
(* is not defined: `undefined' tells that, and no step follows.            *)
(***************************************************************************)
EXTENDS Integers, FiniteSets, SequencesExt

CONSTANTS Senders, Messages, Instances,
          From,            \* the sender of a message
          Kept,            \* the messages whose sender keeps a reference, to read their status
          Woken,           \* the instances whose thread an OnMessageWaker wakes
          MayVeto,         \* the instances with a listener that may refuse messages
          MaxRejected,     \* bound on the references lost to rejected appends
          Null

ASSUME MessagesAssumption ==
  /\ From \in [Messages -> Senders] /\ Kept \subseteq Messages
  /\ Woken \subseteq Instances /\ MayVeto \subseteq Instances \ Woken
  /\ Null \notin Messages \cup Instances \cup Senders
  /\ IsFiniteSet(Senders) /\ IsFiniteSet(Messages) /\ IsFiniteSet(Instances)
  /\ MaxRejected \in Nat

VARIABLES
  list_, end_el_, next,       \* the queues; the end pointer may dangle
  enqueued, refc,             \* Message::enqueued_, RefCount::refc
  hold,                       \* the references that the senders have
  leaked,                     \* references nobody gives back
  pc, msg, at,                \* a sender in msgq_enqueue(), its message and the writer found
  caller,                     \* who calls msgq_append(): "transmit" or the "waker"
  instance,                   \* "unopened", "open", "closing" or "deleted"
  wpc, cur, wakeups,          \* the writer's thread, the message it works on, pending_wakeups
  undefined                   \* memory that was given back has been used

queues == <<list_, end_el_, next>>
refs == <<enqueued, refc, hold, leaked>>
sender == <<pc, msg, at, caller>>
writer == <<wpc, cur, wakeups>>
vars == <<queues, refs, sender, instance, writer, undefined>>

\* what comes from each element on, if the elements have the links nx
Along(nx) ==
  LET from[m \in Messages \cup {Null}] == IF m = Null THEN <<>> ELSE <<m>> \o from[nx[m]]
  IN  from

\* the messages of a queue, from list_ on
Chain(i) == Along(next)[list_[i]]

Queued(i, m) == m \in ToSet(Chain(i))

\* end_el_ is not the end of the queue
Torn(i) == list_[i] # Null /\ end_el_[i] # Last(Chain(i))

TypeOK ==
  /\ list_ \in [Instances -> Messages \cup {Null}]
  /\ end_el_ \in [Instances -> Messages \cup {Null}]
  /\ next \in [Messages -> Messages \cup {Null}]
  /\ enqueued \in [Messages -> BOOLEAN]
  /\ refc \in [Messages -> 0..MaxRejected + 5] /\ leaked \in [Messages -> 0..MaxRejected + 2]
  /\ hold \in [Messages -> 0..2]
  /\ pc \in [Senders -> {"idle", "notify", "ref", "append", "wake", "unref"}]
  /\ msg \in [Senders -> Messages \cup {Null}]
  /\ at \in [Senders -> Instances \cup {Null}]
  /\ caller \in [Senders -> {"transmit", "waker"}]
  /\ instance \in [Instances -> {"unopened", "open", "closing", "deleted"}]
  /\ wpc \in [Instances -> {"asleep", "loop", "locked", "leaving"}]
  /\ cur \in [Instances -> Messages \cup {Null}]
  /\ wakeups \in [Instances -> 0..Cardinality(Messages)]
  /\ undefined \in BOOLEAN

Init ==
  /\ list_ = [i \in Instances |-> Null] /\ end_el_ = [i \in Instances |-> Null]
  /\ next = [m \in Messages |-> Null]
  /\ enqueued = [m \in Messages |-> FALSE]
  /\ hold = [m \in Messages |-> IF m \in Kept THEN 2 ELSE 1] /\ refc = hold
  /\ leaked = [m \in Messages |-> 0]
  /\ pc = [s \in Senders |-> "idle"] /\ msg = [s \in Senders |-> Null]
  /\ at = [s \in Senders |-> Null] /\ caller = [s \in Senders |-> "transmit"]
  /\ instance = [i \in Instances |-> "unopened"]
  /\ wpc = [i \in Instances |-> "asleep"] /\ cur = [i \in Instances |-> Null]
  /\ wakeups = [i \in Instances |-> 0]
  /\ undefined = FALSE

\* every step but the one that leaves the defined behaviour
Defined == ~undefined /\ UNCHANGED undefined
-----------------------------------------------------------------------------
(* Senders                                                                 *)

\* message->unref() by the sender: after msgq_enqueue() has thrown, as there is no
\* writer, or of the reference that it kept
Drop(s, m) ==
  /\ Defined
  /\ pc[s] = "idle" /\ From[m] = s /\ hold[m] > 0
  /\ (\A i \in Instances : instance[i] # "open") \/ (m \in Kept /\ hold[m] = 1)
  /\ hold' = [hold EXCEPT ![m] = @ - 1] /\ refc' = [refc EXCEPT ![m] = @ - 1]
  /\ UNCHANGED <<queues, enqueued, leaked, sender, instance, writer>>

\* msgq_enqueue() up to writer_for_mem_serial(), which has no lock.  Without a writer
\* it throws, and nothing has changed.  MaxRejected bounds the rejected attempts.
Enqueue(s, m, i) ==
  /\ Defined
  /\ pc[s] = "idle" /\ From[m] = s /\ hold[m] > 0 /\ leaked[m] < MaxRejected
  /\ instance[i] = "open"
  /\ pc' = [pc EXCEPT ![s] = "notify"]
  /\ msg' = [msg EXCEPT ![s] = m] /\ at' = [at EXCEPT ![s] = i]
  /\ UNCHANGED <<queues, refs, caller, instance, writer>>

\* the step touches the instance, if it is still there
At(s, step) ==
  /\ pc[s] = step
  /\ instance[at[s]] # "deleted"

\* The instance that transmit() looked up is deleted, or msgq_append() writes to an
\* element behind which nothing is queued any more and whose memory serves somebody
\* else by now.  (That write may also be in vain, see Link.)
Undefined(s) ==
  /\ ~undefined
  /\ \/ pc[s] \in {"notify", "ref", "append"} /\ instance[at[s]] = "deleted"
     \/ /\ At(s, "append") /\ ~enqueued[msg[s]] /\ wpc[at[s]] # "locked"
        /\ Torn(at[s])
  /\ undefined' = TRUE
  /\ UNCHANGED <<queues, refs, sender, instance, writer>>

\* msgq_enqueue() returns or throws
Return(s) ==
  /\ pc' = [pc EXCEPT ![s] = "idle"] /\ msg' = [msg EXCEPT ![s] = Null]
  /\ at' = [at EXCEPT ![s] = Null] /\ caller' = [caller EXCEPT ![s] = "transmit"]

\* notify_of_message_received(): the waker appends the message itself, another
\* listener may refuse it
Notify(s) ==
  /\ Defined
  /\ At(s, "notify")
  /\ LET waker == at[s] \in Woken /\ instance[at[s]] = "open" IN
     /\ caller' = [caller EXCEPT ![s] = IF waker THEN "waker" ELSE "transmit"]
     /\ pc' \in {[pc EXCEPT ![s] = p] : p \in {"ref"} \cup
                 (IF at[s] \in MayVeto THEN {"unref"} ELSE {})}
  /\ UNCHANGED <<queues, refs, msg, at, instance, writer>>

\* msgq_append(): first the reference for the queue
Ref(s) ==
  /\ Defined
  /\ At(s, "ref")
  /\ refc' = [refc EXCEPT ![msg[s]] = @ + 1]
  /\ pc' = [pc EXCEPT ![s] = "append"]
  /\ UNCHANGED <<queues, enqueued, hold, leaked, msg, at, caller, instance, writer>>

\* MessageQueue::append() throws MessageAlreadyQueuedException: the reference stays.
\* The waker swallows the exception and lets transmit() try again.
AppendRejected(s) ==
  /\ Defined
  /\ At(s, "append") /\ enqueued[msg[s]]
  /\ leaked' = [leaked EXCEPT ![msg[s]] = @ + 1]
  /\ IF caller[s] = "waker"
       THEN /\ pc' = [pc EXCEPT ![s] = "ref"] /\ caller' = [caller EXCEPT ![s] = "transmit"]
            /\ UNCHANGED <<msg, at>>
       ELSE Return(s)
  /\ UNCHANGED <<queues, enqueued, refc, hold, instance, writer>>

\* Mutant: the new element goes to the front.
LinkFront(i, m) ==
  /\ list_' = [list_ EXCEPT ![i] = m]
  /\ next' = [next EXCEPT ![m] = list_[i]]
  /\ end_el_' = IF list_[i] = Null THEN [end_el_ EXCEPT ![i] = m] ELSE end_el_

\* The new element goes behind end_el_, wherever that points to: if the memory of an
\* element that was freed is not in use again, it is written to in vain.
Link(i, m) ==
  /\ list_' = IF list_[i] = Null THEN [list_ EXCEPT ![i] = m] ELSE list_
  /\ next' = IF list_[i] # Null /\ Queued(i, end_el_[i])
               THEN [next EXCEPT ![end_el_[i]] = m] ELSE next
  /\ end_el_' = [end_el_ EXCEPT ![i] = m]

append(s) ==
  /\ Defined
  /\ At(s, "append") /\ ~enqueued[msg[s]]
  /\ wpc[at[s]] # "locked"
  /\ enqueued' = [enqueued EXCEPT ![msg[s]] = TRUE]
  /\ Link(at[s], msg[s])
  /\ leaked' = [leaked EXCEPT ![msg[s]] = @ + IF Torn(at[s]) THEN 1 ELSE 0]
  /\ pc' = [pc EXCEPT ![s] = IF caller[s] = "waker" THEN "wake" ELSE "unref"]
  /\ UNCHANGED <<refc, hold, msg, at, caller, instance, writer>>

\* Mutant: the wakeup is counted twice.
WakeTwice(s) ==
  /\ Defined
  /\ pc[s] = "wake"
  /\ wakeups' = [wakeups EXCEPT ![at[s]] = @ + 2]
  /\ pc' = [pc EXCEPT ![s] = "unref"]
  /\ UNCHANGED <<queues, refs, msg, at, caller, instance, wpc, cur>>

\* Mutant: a thread that is awake is not woken.
WakeAsleep(s) ==
  /\ Defined
  /\ pc[s] = "wake"
  /\ wakeups' = IF wpc[at[s]] = "asleep" THEN [wakeups EXCEPT ![at[s]] = @ + 1] ELSE wakeups
  /\ pc' = [pc EXCEPT ![s] = "unref"]
  /\ UNCHANGED <<queues, refs, msg, at, caller, instance, wpc, cur>>

\* The waker's thread_->wakeup(), which counts.  It throws only for a thread that runs
\* in a cycle with a barrier, and no thread that a waker wakes is one of these.
Wake(s) ==
  /\ Defined
  /\ pc[s] = "wake"
  /\ wakeups' = [wakeups EXCEPT ![at[s]] = @ + 1]
  /\ pc' = [pc EXCEPT ![s] = "unref"]
  /\ UNCHANGED <<queues, refs, msg, at, caller, instance, wpc, cur>>

\* the end of msgq_enqueue(): the sender's reference is given back
Unref(s) ==
  /\ Defined
  /\ pc[s] = "unref"
  /\ hold' = [hold EXCEPT ![msg[s]] = @ - 1] /\ refc' = [refc EXCEPT ![msg[s]] = @ - 1]
  /\ Return(s)
  /\ UNCHANGED <<queues, enqueued, leaked, instance, writer>>

SenderStep(s) ==
  Undefined(s) \/ Notify(s) \/ Ref(s) \/ AppendRejected(s) \/ append(s) \/ Wake(s) \/ Unref(s)
-----------------------------------------------------------------------------
(* The thread of a writing instance                                        *)

\* Thread::run(): one loop() for every wakeup, or for every cycle of the main loop.
\* Some have the queue locked first, to iterate over it.
Loop(i, start) ==
  /\ Defined
  /\ wpc[i] = "asleep" /\ instance[i] = "open"
  /\ i \in Woken => wakeups[i] > 0
  /\ wakeups' = [wakeups EXCEPT ![i] = IF i \in Woken THEN @ - 1 ELSE @]
  /\ wpc' = [wpc EXCEPT ![i] = start]
  /\ UNCHANGED <<queues, refs, sender, instance, cur>>

\* Mutant: the newest message.
FirstNewest(i) ==
  /\ Defined
  /\ wpc[i] = "loop" /\ cur[i] = Null
  /\ cur' = [cur EXCEPT ![i] = IF list_[i] = Null THEN Null ELSE end_el_[i]]
  /\ wpc' = [wpc EXCEPT ![i] = IF list_[i] = Null THEN "leaving" ELSE "loop"]
  /\ UNCHANGED <<queues, refs, sender, instance, wakeups>>

\* while (! msgq_empty()) { msgq_first() ...
First(i) ==
  /\ Defined
  /\ wpc[i] = "loop" /\ cur[i] = Null
  /\ cur' = [cur EXCEPT ![i] = list_[i]]
  /\ wpc' = [wpc EXCEPT ![i] = IF list_[i] = Null THEN "leaving" ELSE "loop"]
  /\ UNCHANGED <<queues, refs, sender, instance, wakeups>>

Sleep(i) ==
  /\ Defined
  /\ wpc[i] = "leaving"
  /\ wpc' = [wpc EXCEPT ![i] = "asleep"]
  /\ UNCHANGED <<queues, refs, sender, instance, cur, wakeups>>

\* remove(l, p): end_el_ is not looked at
Unlink(i, m) ==
  /\ list_' = IF list_[i] = m THEN [list_ EXCEPT ![i] = next[m]] ELSE list_
  /\ next' = [x \in Messages |-> CASE x = m -> Null
                                   [] x # m /\ next[x] = m /\ Queued(i, x) -> next[m]
                                   [] OTHER -> next[x]]
  /\ refc' = [refc EXCEPT ![m] = @ - 1]
  /\ UNCHANGED <<end_el_, enqueued, hold, leaked>>

\* ... msgq_pop(); }
Pop(i) ==
  /\ Defined
  /\ wpc[i] = "loop" /\ cur[i] # Null
  /\ Unlink(i, list_[i])
  /\ cur' = [cur EXCEPT ![i] = Null]
  /\ UNCHANGED <<sender, instance, wpc, wakeups>>

msgq_remove(i, m) ==
  /\ Defined
  /\ wpc[i] = "loop" /\ cur[i] = Null /\ Queued(i, m)
  /\ Unlink(i, m)
  /\ UNCHANGED <<sender, instance, writer>>

\* Mutant: the messages keep the queue's references.
FlushedKept(i) ==
  /\ list_' = [list_ EXCEPT ![i] = Null]
  /\ next' = [m \in Messages |-> IF Queued(i, m) THEN Null ELSE next[m]]
  /\ UNCHANGED <<end_el_, refs>>

\* MessageQueue::flush()
Flushed(i) ==
  /\ list_' = [list_ EXCEPT ![i] = Null]
  /\ next' = [m \in Messages |-> IF Queued(i, m) THEN Null ELSE next[m]]
  /\ refc' = [m \in Messages |-> IF Queued(i, m) THEN refc[m] - 1 ELSE refc[m]]
  /\ UNCHANGED <<end_el_, enqueued, hold, leaked>>

Flush(i) ==
  /\ Defined
  /\ wpc[i] = "loop" /\ cur[i] = Null /\ list_[i] # Null
  /\ Flushed(i)
  /\ UNCHANGED <<sender, instance, writer>>

\* msgq_unlock(), after an iteration
Unlock(i) ==
  /\ Defined
  /\ wpc[i] = "locked"
  /\ wpc' = [wpc EXCEPT ![i] = "loop"]
  /\ UNCHANGED <<queues, refs, sender, instance, cur, wakeups>>

\* open_for_writing(): one writer at a time
Open(i) ==
  /\ Defined
  /\ instance[i] = "unopened" /\ \A j \in Instances : instance[j] # "open"
  /\ instance' = [instance EXCEPT ![i] = "open"]
  /\ UNCHANGED <<queues, refs, sender, writer>>

\* close(): the instance leaves writer_interfaces, the listeners hear of it, and the
\* destructor flushes the queue
Close(i) ==
  /\ Defined
  /\ instance[i] = "open" /\ wpc[i] = "asleep"
  /\ instance' = [instance EXCEPT ![i] = "closing"]
  /\ UNCHANGED <<queues, refs, sender, writer>>

Delete(i) ==
  /\ Defined
  /\ instance[i] = "closing"
  /\ Flushed(i)
  /\ instance' = [instance EXCEPT ![i] = "deleted"]
  /\ UNCHANGED <<sender, writer>>

WriterStep(i) ==
  Loop(i, "loop") \/ Loop(i, "locked") \/ First(i) \/ Pop(i) \/ Sleep(i) \/ Unlock(i) \/ Delete(i)

Next ==
  \/ \E s \in Senders :
       \/ SenderStep(s)
       \/ \E m \in Messages : Drop(s, m)
       \/ \E m \in Messages, i \in Instances : Enqueue(s, m, i)
  \/ \E i \in Instances :
       \/ WriterStep(i) \/ Flush(i) \/ Open(i) \/ Close(i)
       \/ \E m \in Messages : msgq_remove(i, m)

\* The threads run: a message that is being sent gets on, an awake writer empties its
\* queue, and close() goes through.
Fairness == /\ \A s \in Senders : WF_vars(SenderStep(s))
            /\ \A i \in Instances : WF_vars(WriterStep(i))

Spec == Init /\ [][Next]_vars /\ Fairness
-----------------------------------------------------------------------------
(* Properties                                                              *)

\* refc counts exactly the references that the sender, the queue, a msgq_append() under
\* way and the rejected or lost appends account for, so that nobody's message is deleted
\* and no other stays behind.
RefsAccounted ==
  \A m \in Messages :
    refc[m] = hold[m] + leaked[m] + Cardinality({i \in Instances : Queued(i, m)})
              + Cardinality({s \in Senders : pc[s] = "append" /\ msg[s] = m})

\* The message that msgq_first() returned is the one that msgq_pop() takes, although
\* the queue was not locked in between.
CurrentIsFirst == \A i \in Instances : cur[i] # Null => cur[i] = list_[i] /\ refc[cur[i]] > 0

\* All links lead to the end of a list.
Linked(nx) ==
  /\ Along(nx) \in [Messages \cup {Null} -> Seq(Messages)]
  /\ Along(nx)[Null] = <<>>
  /\ \A m \in Messages : Along(nx)[m] = <<m>> \o Along(nx)[nx[m]]

\* Only elements of a queue have a link, no message is in two queues or in one that it
\* was not marked for, and an end pointer into its queue points to the end.
QueuesAgree ==
  /\ Linked(next)
  /\ \A m \in Messages : next[m] # Null => \E i \in Instances : Queued(i, m)
  /\ \A i, j \in Instances, m \in Messages : Queued(i, m) /\ Queued(j, m) => i = j
  /\ \A i \in Instances, m \in Messages : Queued(i, m) => enqueued[m]
  /\ \A i \in Instances : Queued(i, end_el_[i]) => end_el_[i] = Last(Chain(i))

\* Who sends has a message of its own and still holds a reference to it.
SendersAgree ==
  \A s \in Senders : pc[s] # "idle" =>
    /\ msg[s] \in Messages /\ From[msg[s]] = s /\ hold[msg[s]] > 0
    /\ at[s] \in Instances

\* A call loses at most two references: the waker's and the one of transmit().
LeaksBounded ==
  /\ \A m \in Messages : leaked[m] <= MaxRejected + 1
  /\ \A s \in Senders :
       /\ pc[s] = "notify" => leaked[msg[s]] < MaxRejected
       /\ pc[s] \in {"ref", "append"} =>
            leaked[msg[s]] < IF caller[s] = "waker" THEN MaxRejected ELSE MaxRejected + 1

\* A thread works only for an open instance, and on a message only in its loop.
WritersAgree ==
  \A i \in Instances : /\ wpc[i] # "asleep" => instance[i] = "open"
                       /\ cur[i] # Null => wpc[i] = "loop"

\* Every wakeup is for a message of its own.
WakeupsCovered ==
  \A i \in Instances :
    wakeups[i] + Cardinality({s \in Senders : pc[s] = "wake"})
      <= Cardinality({m \in Messages : enqueued[m]})

\* the inductive invariant
QInv == /\ TypeOK /\ QueuesAgree /\ SendersAgree /\ LeaksBounded /\ WritersAgree
        /\ WakeupsCovered /\ RefsAccounted /\ CurrentIsFirst

\* the messages in the queues, and those that were appended
Boxes == [i \in Instances |-> Chain(i)]
Posted == {m \in Messages : enqueued[m]}

MB == INSTANCE Mailbox WITH box <- Boxes, posted <- Posted

\* msgq_enqueue() promises: "This appends the given message to the queue", where it
\* stays "owned by the other side" until "it has been processed".
ImplementsMailbox == MB!Spec

\* The only message of a mailbox that gets lost is one that is appended to a queue whose
\* end msgq_remove() has taken out; whoever looks into the queues sees nothing of it.
MailboxUnlessTorn ==
  /\ MB!Init
  /\ [][\/ MB!Next
        \/ \E i \in Instances, m \in Messages :
             Torn(i) /\ ~enqueued[m] /\ Boxes' = Boxes /\ Posted' = Posted \cup {m}
       ]_<<Boxes, Posted>>

\* No message is stranded: a queue does not stay filled, but its messages are handled, or
\* discarded when the instance is closed, also if one comes in just before the writer's
\* thread goes to sleep.
Delivered == \A i \in Instances : (list_[i] # Null) ~> (list_[i] = Null \/ undefined)
=============================================================================
