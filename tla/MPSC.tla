-------------------------------- MODULE MPSC --------------------------------
(***************************************************************************)
(* The mpsc_t channel of src/src/mpsc.c: one consumer thread, up to        *)
(* n_max_producers producer threads and the creating ("main") thread that  *)
(* registers producers and calls mpsc_join, all synchronised by a single   *)
(* mutex, the channel's condition variable (consumer) and one condition    *)
(* variable per producer.                                                  *)
(*                                                                         *)
(* Every critical section of the code (from a lock or a wake-up out of     *)
(* pthread_cond_wait to the next unlock or wait) is one atomic action.     *)
(* Condition variables are explicit: a thread blocked in                   *)
(* pthread_cond_wait is in pc "waiting"; pthread_cond_signal moves it to   *)
(* "signalled" (and is lost if nobody waits); the woken thread re-runs     *)
(* its while-loop test when it re-acquires the mutex.  Spurious wake-ups,  *)
(* which POSIX allows, are an unfair action of their own.                  *)
(*                                                                         *)
(* Payload bytes are abstracted to the identity of the message (producer,  *)
(* ordinal of its send call) and its length n.  User code (producer tasks, *)
(* consumer callback) is a nondeterministic choice among the library calls *)
(* it may make.                                                            *)
(***************************************************************************)
EXTENDS Integers, Sequences, Functions

CONSTANTS
    NMaxProducers,        \* params.n_max_producers
    BufferSize,           \* params.buffer_size
    ErrorHandlingEnabled, \* params.error_handling_enabled (Report policy)
    MaxSends              \* bound: send calls per producer task

ASSUME NMaxProducersAssumption == NMaxProducers \in Nat \ {0}
ASSUME BufferSizeAssumption == BufferSize \in Nat
ASSUME ErrorHandlingAssumption == ErrorHandlingEnabled \in BOOLEAN
ASSUME MaxSendsAssumption == MaxSends \in Nat

\* Producer slots: indices into self->producers, as the code numbers them.
Producers == 0 .. NMaxProducers - 1

\* next_waiting_producer_id == -1: no producer elected.
None == -1

\* A message: who sent it, which of its send calls, and its length n.
\* seq = 0 is never sent; NoMsg stands for the uninitialised slot.
Msgs == [from : Producers, seq : 0 .. MaxSends, len : 0 .. BufferSize]
NoMsg == [from |-> 0, seq |-> 0, len |-> 0]

\* Thread program counters.
PStates == {"unregistered", "task", "waiting", "signalled", "exited"}
CStates == {"top", "waiting", "signalled", "callback", "error_callback",
            "final_callback", "exited"}
MStates == {"running", "joining_consumer", "joining_producers", "destroyed"}

VARIABLES
    buffer,                     \* self->buffer (the slot's contents)
    n,                          \* self->n
    pending_message,            \* self->pending_message
    closed,                     \* self->closed
    joined,                     \* self->joined
    n_producers_closed,         \* self->n_producers_closed
    producer_count,             \* self->producer_count
    producer_waiting_ids_queue, \* queue[0 .. n_producers_waiting - 1]
    next_waiting_producer_id,   \* self->next_waiting_producer_id
    ppc,                        \* producer thread pcs
    send_msg,                   \* (data, n) argument of a blocked send
    cpc,                        \* consumer thread pc
    mpc,                        \* main thread pc
    \* history variables, not program state:
    nsent,                      \* send calls made by each producer task
    accepted,                   \* messages whose send returned true
    delivered,                  \* non-terminal consumer callback arguments
    dropped,                    \* messages dropped on a consumer malloc failure
    subscribed                  \* messages in the order they joined the wait queue

chan == <<buffer, n, pending_message, closed, joined, n_producers_closed,
          producer_count, producer_waiting_ids_queue, next_waiting_producer_id>>
threads == <<ppc, send_msg, cpc, mpc>>
history == <<nsent, accepted, delivered, dropped, subscribed>>
vars == <<chan, threads, history>>

-----------------------------------------------------------------------------
(* pthread_cond_signal: wakes the thread blocked on that variable, if any. *)

SignalConsumer == IF cpc = "waiting" THEN "signalled" ELSE cpc

SignalProducers(S) ==
    [q \in Producers |-> IF q \in S /\ ppc[q] = "waiting" THEN "signalled" ELSE ppc[q]]

\* Threads that may call mpsc_register_producer: main before joining,
\* a running producer task, the consumer callback.
CanRegister ==
    \/ mpc = "running"
    \/ \E q \in Producers : ppc[q] = "task"
    \/ cpc = "callback"

-----------------------------------------------------------------------------
(* Plausible bugs of the code, one per mapped definition below, used by    *)
(* the mutation runs (each replaces the definition it is named after).     *)

\* mpsc_register_producer without the n_max_producers check.
RegisterAllowed_NoMaxCheck == ~closed
\* registration without the closed check.
RegisterAllowed_NoClosedCheck == producer_count # NMaxProducers
\* send entering the slot whenever it is free, ignoring an elected waiter:
\* the race the NOTE at mpsc.c:309 warns about.
MustWait_PendingOnly == pending_message
\* The wait queue pushed at the front instead of the back.
Subscribe_AtFront(p, m) ==
    /\ producer_waiting_ids_queue' = <<p>> \o producer_waiting_ids_queue
    /\ ppc' = [ppc EXCEPT ![p] = "waiting"]
    /\ send_msg' = [send_msg EXCEPT ![p] = m]
    /\ subscribed' = Append(subscribed, m)
\* The shift that forgets to decrement n_producers_waiting.
ShiftWaitQueue_NoRemove ==
    /\ producer_waiting_ids_queue' = producer_waiting_ids_queue
    /\ next_waiting_producer_id' = None
\* send without its first closed check.
SendRejected_Never == FALSE
\* The election written with n_producers_waiting > 1.
MayElect_OffByOne ==
    Len(producer_waiting_ids_queue) > 1 /\ ~closed
\* The old exit test `if (mpsc->closed)` (commented out at mpsc.c:416 of
\* the earlier revision): a pending message is lost at close.
ConsumerMustExit_ClosedOnly == closed
\* mpsc_consumer_close that signals only the consumer.
CloseWakes_None == {}
\* The malloc-failure branch that resets n but not pending_message.
DropPending_KeepPending ==
    /\ n' = 0
    /\ pending_message' = pending_message
    /\ dropped' = dropped \cup {buffer}

-----------------------------------------------------------------------------
(* mpsc_create: the channel as it is returned to the application.          *)
Init ==
    /\ buffer = NoMsg
    /\ n = 0
    /\ pending_message = FALSE
    /\ closed = FALSE
    /\ joined = FALSE
    /\ n_producers_closed = 0
    /\ producer_count = 0
    /\ producer_waiting_ids_queue = <<>>
    /\ next_waiting_producer_id = None
    /\ ppc = [p \in Producers |-> "unregistered"]
    /\ send_msg = [p \in Producers |-> NoMsg]
    /\ cpc = "top"
    /\ mpc = "running"
    /\ nsent = [p \in Producers |-> 0]
    /\ accepted = {}
    /\ delivered = <<>>
    /\ dropped = {}
    /\ subscribed = <<>>

-----------------------------------------------------------------------------
(* The checks of mpsc_register_producer that return an error.             *)
RegisterAllowed == producer_count # NMaxProducers /\ ~closed

(* mpsc_register_producer (and its consumer/producer aliases): a thread is *)
(* created for slot producer_count.  A failed pthread_create (EAGAIN)      *)
(* returns an error and changes no state.                                  *)
mpsc_register_producer ==
    /\ CanRegister
    /\ RegisterAllowed
    /\ ppc' = [ppc EXCEPT ![producer_count] = "task"]
    /\ producer_count' = producer_count + 1
    /\ UNCHANGED <<buffer, n, pending_message, closed, joined, n_producers_closed,
                   producer_waiting_ids_queue, next_waiting_producer_id,
                   send_msg, cpc, mpc, history>>

(* The producers mpsc_consumer_close signals: queue[0 .. n_waiting - 1].   *)
CloseWakes == Range(producer_waiting_ids_queue)

(* mpsc_consumer_close, called from the consumer callback.  It signals the *)
(* channel's condition variable too, on which nobody waits: the consumer   *)
(* is the caller.                                                          *)
mpsc_consumer_close ==
    /\ cpc = "callback"
    /\ closed' = TRUE
    /\ ppc' = SignalProducers(CloseWakes)
    /\ UNCHANGED <<buffer, n, pending_message, joined, n_producers_closed,
                   producer_count, producer_waiting_ids_queue,
                   next_waiting_producer_id, send_msg, cpc, mpc, history>>

(* The tail of mpsc_producer_send: copy into the slot, mark it pending,    *)
(* signal the consumer.  The send returns true.                            *)
Deposit(p, m) ==
    /\ buffer' = m
    /\ n' = m.len
    /\ pending_message' = TRUE
    /\ cpc' = SignalConsumer
    /\ accepted' = accepted \cup {m}

(* mpsc_producer_subscribe_to_wait_queue, then the first wait.  Its two    *)
(* aborts (producer not found, queue full) are unreachable: see           *)
(* WaitQueueConsistent.                                                    *)
Subscribe(p, m) ==
    /\ producer_waiting_ids_queue' = Append(producer_waiting_ids_queue, p)
    /\ ppc' = [ppc EXCEPT ![p] = "waiting"]
    /\ send_msg' = [send_msg EXCEPT ![p] = m]
    /\ subscribed' = Append(subscribed, m)

(* The first test of mpsc_producer_send: the channel is closed.            *)
SendRejected == closed

(* The second test: the slot is busy or a waiter has been elected.         *)
MustWait == pending_message \/ next_waiting_producer_id # None

(* mpsc_producer_send(p, data, n), from the lock to the first unlock or    *)
(* wait.  n > buffer_size aborts and is not a choice.                      *)
mpsc_producer_send(p, len) ==
    LET m == [from |-> p, seq |-> nsent[p] + 1, len |-> len] IN
    /\ ppc[p] = "task"
    /\ nsent[p] < MaxSends
    /\ nsent' = [nsent EXCEPT ![p] = @ + 1]
    /\ \/ /\ SendRejected
          /\ UNCHANGED <<chan, threads, accepted, delivered, dropped, subscribed>>
       \/ /\ ~SendRejected
          /\ MustWait
          /\ Subscribe(p, m)
          /\ UNCHANGED <<buffer, n, pending_message, closed, joined, n_producers_closed,
                         producer_count, next_waiting_producer_id,
                         accepted, delivered, dropped, cpc, mpc>>
       \/ /\ ~SendRejected
          /\ ~MustWait
          /\ Deposit(p, m)
          /\ UNCHANGED <<closed, joined, n_producers_closed, producer_count,
                         producer_waiting_ids_queue, next_waiting_producer_id,
                         ppc, send_msg, mpc, delivered, dropped, subscribed>>

(* mpsc_shift_producer_wait_queue.  Its abort (empty queue) is             *)
(* unreachable: see WaitQueueConsistent.                                   *)
ShiftWaitQueue ==
    /\ producer_waiting_ids_queue' = Tail(producer_waiting_ids_queue)
    /\ next_waiting_producer_id' = None

(* The rest of mpsc_producer_send after a wake-up: the while-loop test,    *)
(* then return false on close, or shift the queue and deposit.            *)
SendAfterWait(p) ==
    /\ ppc[p] = "signalled"
    /\ \/ /\ ~closed /\ next_waiting_producer_id # p
          /\ ppc' = [ppc EXCEPT ![p] = "waiting"]
          /\ UNCHANGED <<chan, send_msg, cpc, mpc, history>>
       \/ /\ closed
          /\ ppc' = [ppc EXCEPT ![p] = "task"]
          /\ UNCHANGED <<chan, send_msg, cpc, mpc, history>>
       \/ /\ ~closed /\ next_waiting_producer_id = p
          /\ ShiftWaitQueue
          /\ Deposit(p, send_msg[p])
          /\ ppc' = [ppc EXCEPT ![p] = "task"]
          /\ UNCHANGED <<closed, joined, n_producers_closed, producer_count,
                         send_msg, mpc, nsent, delivered, dropped, subscribed>>

(* The task returned: my_producer_thread_callback calls mpsc_producer_done *)
(* and the thread exits.                                                   *)
mpsc_producer_done(p) ==
    /\ ppc[p] = "task"
    /\ ppc' = [ppc EXCEPT ![p] = "exited"]
    /\ n_producers_closed' = n_producers_closed + 1
    /\ IF n_producers_closed' = producer_count /\ joined
          THEN closed' = TRUE /\ cpc' = SignalConsumer
          ELSE UNCHANGED <<closed, cpc>>
    /\ UNCHANGED <<buffer, n, pending_message, joined, producer_count,
                   producer_waiting_ids_queue, next_waiting_producer_id,
                   send_msg, mpc, history>>

-----------------------------------------------------------------------------
(* The consumer's exit test: closed and nothing pending.                   *)
ConsumerMustExit == closed /\ ~pending_message

(* The malloc-failure branch: the pending message is dropped.              *)
DropPending ==
    /\ n' = 0
    /\ pending_message' = FALSE
    /\ dropped' = dropped \cup {buffer}

(* The election test: n_producers_waiting > 0 and not closed.              *)
MayElect == Len(producer_waiting_ids_queue) > 0 /\ ~closed

(* my_consumer_thread_callback, one pass of the loop body under the lock, *)
(* from the top of the loop or from a wake-up in the while loop, is one of *)
(* the four following steps.                                               *)

(* The while-loop test holds: wait on the channel's condition variable.    *)
ConsumerWaits ==
    /\ ~pending_message /\ ~closed
    /\ cpc' = "waiting"
    /\ UNCHANGED <<chan, ppc, send_msg, mpc, history>>

(* The exit test holds: unlock and break to the terminal callback.         *)
ConsumerBreaks ==
    /\ ~(~pending_message /\ ~closed)
    /\ ConsumerMustExit
    /\ cpc' = "final_callback"
    /\ UNCHANGED <<chan, ppc, send_msg, mpc, history>>

(* n > 0 and my_malloc returns NULL (Report policy only): the message is   *)
(* dropped and consumer_error_callback is called.                          *)
MallocFails ==
    /\ ~(~pending_message /\ ~closed) /\ ~ConsumerMustExit
    /\ n > 0 /\ ErrorHandlingEnabled
    /\ DropPending
    /\ cpc' = "error_callback"
    /\ UNCHANGED <<buffer, closed, joined, n_producers_closed, producer_count,
                   producer_waiting_ids_queue, next_waiting_producer_id,
                   ppc, send_msg, mpc, nsent, accepted, delivered, subscribed>>

(* The slot is copied out and freed, the head of the wait queue is         *)
(* elected and signalled, and the consumer callback is called unlocked.    *)
ConsumerDelivers ==
    /\ ~(~pending_message /\ ~closed) /\ ~ConsumerMustExit
    /\ delivered' = Append(delivered,
                      [from |-> buffer.from, seq |-> buffer.seq, len |-> n])
    /\ n' = 0
    /\ pending_message' = FALSE
    /\ IF MayElect
          THEN LET id == Head(producer_waiting_ids_queue) IN
               /\ next_waiting_producer_id' = id
               /\ ppc' = SignalProducers({id})
          ELSE UNCHANGED <<next_waiting_producer_id, ppc>>
    /\ cpc' = "callback"
    /\ UNCHANGED <<buffer, closed, joined, n_producers_closed, producer_count,
                   producer_waiting_ids_queue, send_msg, mpc,
                   nsent, accepted, dropped, subscribed>>

ConsumerLoop ==
    /\ cpc \in {"top", "signalled"}
    /\ \/ ConsumerWaits
       \/ ConsumerBreaks
       \/ MallocFails
       \/ ConsumerDelivers

(* The consumer callback (closed = false) returns.                         *)
ConsumerCallbackReturn ==
    /\ cpc = "callback"
    /\ cpc' = "top"
    /\ UNCHANGED <<chan, ppc, send_msg, mpc, history>>

(* consumer_error_callback returns; the loop continues.                    *)
ErrorCallbackReturn ==
    /\ cpc = "error_callback"
    /\ cpc' = "top"
    /\ UNCHANGED <<chan, ppc, send_msg, mpc, history>>

(* The terminal callback (closed = true) returns; the thread exits.        *)
FinalCallbackReturn ==
    /\ cpc = "final_callback"
    /\ cpc' = "exited"
    /\ UNCHANGED <<chan, ppc, send_msg, mpc, history>>

-----------------------------------------------------------------------------
(* mpsc_join on the main thread.  First critical section; calling it with  *)
(* no producer, twice, or from another thread aborts and is not a choice.  *)
JoinStart ==
    /\ mpc = "running"
    /\ producer_count # 0
    /\ joined' = TRUE
    /\ IF producer_count = n_producers_closed
          THEN closed' = TRUE /\ cpc' = SignalConsumer
          ELSE UNCHANGED <<closed, cpc>>
    /\ mpc' = "joining_consumer"
    /\ UNCHANGED <<buffer, n, pending_message, n_producers_closed, producer_count,
                   producer_waiting_ids_queue, next_waiting_producer_id,
                   ppc, send_msg, history>>

(* pthread_join(consumer) returned; closed = true under the lock.          *)
JoinConsumer ==
    /\ mpc = "joining_consumer"
    /\ cpc = "exited"
    /\ closed' = TRUE
    /\ mpc' = "joining_producers"
    /\ UNCHANGED <<buffer, n, pending_message, joined, n_producers_closed,
                   producer_count, producer_waiting_ids_queue,
                   next_waiting_producer_id, ppc, send_msg, cpc, history>>

(* Every producer thread joined in turn; mpsc_destroy.                     *)
JoinProducers ==
    /\ mpc = "joining_producers"
    /\ \A i \in 0 .. producer_count - 1 : ppc[i] = "exited"
    /\ mpc' = "destroyed"
    /\ UNCHANGED <<chan, ppc, send_msg, cpc, history>>

-----------------------------------------------------------------------------
(* Spurious wake-ups out of pthread_cond_wait.                             *)
SpuriousWakeupProducer(p) ==
    /\ ppc[p] = "waiting"
    /\ ppc' = [ppc EXCEPT ![p] = "signalled"]
    /\ UNCHANGED <<chan, send_msg, cpc, mpc, history>>

SpuriousWakeupConsumer ==
    /\ cpc = "waiting"
    /\ cpc' = "signalled"
    /\ UNCHANGED <<chan, ppc, send_msg, mpc, history>>

-----------------------------------------------------------------------------
Next ==
    \/ mpsc_register_producer
    \/ mpsc_consumer_close
    \/ \E p \in Producers, len \in 0 .. BufferSize : mpsc_producer_send(p, len)
    \/ \E p \in Producers : SendAfterWait(p)
    \/ \E p \in Producers : mpsc_producer_done(p)
    \/ ConsumerLoop
    \/ ConsumerCallbackReturn
    \/ ErrorCallbackReturn
    \/ FinalCallbackReturn
    \/ JoinStart
    \/ JoinConsumer
    \/ JoinProducers
    \/ \E p \in Producers : SpuriousWakeupProducer(p)
    \/ SpuriousWakeupConsumer

(* The threads are scheduled fairly (weak fairness on every step a thread  *)
(* takes without user choice).  Producer tasks and callbacks return, and   *)
(* main registers a first producer and calls mpsc_join (join aborts with   *)
(* none): the contract the library documents for join to return.  Other    *)
(* sends, closes, registrations and spurious wake-ups are not forced.      *)
MainRegistersFirst ==
    mpc = "running" /\ producer_count = 0 /\ mpsc_register_producer

Fairness ==
    /\ WF_vars(MainRegistersFirst)
    /\ \A p \in Producers : WF_vars(SendAfterWait(p))
    /\ \A p \in Producers : WF_vars(mpsc_producer_done(p))
    /\ WF_vars(ConsumerLoop)
    /\ WF_vars(ConsumerCallbackReturn)
    /\ WF_vars(ErrorCallbackReturn)
    /\ WF_vars(FinalCallbackReturn)
    /\ WF_vars(JoinStart)
    /\ WF_vars(JoinConsumer)
    /\ WF_vars(JoinProducers)

Spec == Init /\ [][Next]_vars
FairSpec == Spec /\ Fairness

-----------------------------------------------------------------------------
(***************************************************************************)
(* Properties.                                                             *)
(***************************************************************************)

\* Every variable has the shape the code's declarations give it; in
\* particular producer_count never exceeds n_max_producers (the check at
\* the top of mpsc_register_producer).
TypeOK ==
    /\ buffer \in Msgs
    /\ n \in 0 .. BufferSize
    /\ pending_message \in BOOLEAN
    /\ closed \in BOOLEAN
    /\ joined \in BOOLEAN
    /\ n_producers_closed \in Nat
    /\ producer_count \in 0 .. NMaxProducers
    /\ producer_waiting_ids_queue \in Seq(Producers)
    /\ next_waiting_producer_id \in Producers \cup {None}
    /\ ppc \in [Producers -> PStates]
    /\ send_msg \in [Producers -> Msgs]
    /\ cpc \in CStates
    /\ mpc \in MStates
    /\ nsent \in [Producers -> 0 .. MaxSends]
    /\ accepted \in SUBSET Msgs
    /\ delivered \in Seq(Msgs)
    /\ dropped \in SUBSET Msgs
    /\ subscribed \in Seq(Msgs)

\* The producers blocked in the wait loop of mpsc_producer_send.
Blocked == {p \in Producers : ppc[p] \in {"waiting", "signalled"}}

\* The wait queue of mpsc_producer_send is exactly the set of producers
\* blocked in send, without duplicates, and an elected producer is its
\* head: so the queue never overflows n_max_producers (the abort in
\* mpsc_producer_subscribe_to_wait_queue), the shift never sees an empty
\* queue (its abort), and the elected producer removes itself.  After
\* close, producers that returned false leave stale entries behind.
WaitQueueConsistent ==
    /\ IsInjective(producer_waiting_ids_queue)
    /\ Blocked \subseteq Range(producer_waiting_ids_queue)
    /\ ~closed => Range(producer_waiting_ids_queue) = Blocked
    /\ next_waiting_producer_id # None =>
          /\ producer_waiting_ids_queue # <<>>
          /\ next_waiting_producer_id = Head(producer_waiting_ids_queue)

\* No lost wake-up: while the channel is open and some producer waits in
\* send, either a message is pending (its consumption elects the head of
\* the queue) or a waiter has already been elected.  Otherwise every
\* waiter sleeps until a send from outside the queue comes along.
NoStrandedWaiter ==
    (~closed /\ producer_waiting_ids_queue # <<>>) =>
        (pending_message \/ next_waiting_producer_id # None)

DeliveredSet == Range(delivered)

\* P1/P2: the consumer callback receives each accepted message exactly
\* once with its length, receives nothing that was not accepted, and an
\* accepted message not yet delivered is still in the slot (or was dropped
\* by a consumer malloc failure): no send overwrites a pending message.
MessageConservation ==
    /\ IsInjective(delivered)
    /\ DeliveredSet \subseteq accepted
    /\ \A m \in accepted :
          \/ m \in DeliveredSet
          \/ m \in dropped
          \/ pending_message /\ buffer = m /\ n = m.len

\* P4: two messages whose sends entered the wait queue in some order are
\* delivered in that order (the election of the queue head).
FifoHandoff ==
    \A i, j \in DOMAIN subscribed :
        (i < j /\ subscribed[i] \in DeliveredSet /\ subscribed[j] \in DeliveredSet) =>
            \E k, l \in DOMAIN delivered :
                k < l /\ delivered[k] = subscribed[i] /\ delivered[l] = subscribed[j]

\* P5: when the consumer thread leaves its loop for the terminal callback
\* (closed = true), no message is pending and every accepted message has
\* been delivered or dropped, even when close came while one was pending.
TerminalAfterDrain ==
    cpc \in {"final_callback", "exited"} =>
        /\ ~pending_message
        /\ accepted \subseteq DeliveredSet \cup dropped

\* Once the channel is closed no send returns true: neither a new send
\* nor a producer woken out of the wait queue deposits a message.
NoAcceptAfterClose == [][closed => accepted' = accepted]_vars

\* mpsc_join returns (the channel is destroyed) when producer tasks and
\* callbacks return: no thread is left blocked in pthread_cond_wait.
JoinReturns == <>(mpc = "destroyed")

\* The spec (section 3): once joined, no producer registration succeeds.
NoRegistrationAfterJoin == [][joined => producer_count' = producer_count]_vars

\* The loop of mpsc_join (line 226) reads producer_count without the lock.
\* The read is harmless only if no registration can change the count once
\* the loop may run: join sets closed before it, and every registration
\* tests closed under the lock.
JoinLoopCountStable ==
    [][(mpc \in {"joining_producers", "destroyed"}) =>
         producer_count' = producer_count]_vars



-----------------------------------------------------------------------------
(* The channel as its users see it (module SlotChannel): the slot holds    *)
(* the pending message, the history variables are what the sends returned, *)
(* what the consumer callback received and what it dropped.                *)
Abs == INSTANCE SlotChannel WITH
    slot <- IF pending_message THEN <<buffer>> ELSE <<>>,
    sent <- accepted,
    out <- delivered,
    lost <- dropped,
    DropAllowed <- ErrorHandlingEnabled

\* The threads of mpsc.c together implement the single-slot channel: a
\* send returns true only into the empty slot of an open channel (so the
\* handoff to an elected waiter never overwrites a pending message, the
\* race of the NOTE at mpsc.c:309), the consumer callback receives exactly
\* the slot's message with its length, a drop happens only under the
\* Report policy, and a pending message is eventually consumed.
ImplementsSlotChannel == Abs!Spec

=============================================================================
