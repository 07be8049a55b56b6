------------------------------- MODULE MPSC010 -------------------------------
(***************************************************************************)
(* The earlier revision 0.1.0 of the channel (src/unnamed/part_003, the    *)
(* mpsc.c that the CHANGELOG of 0.1.1 replaces).  There is no wait queue:  *)
(* a send that finds the slot busy unlocks and calls itself again (lines   *)
(* 260-266), and mpsc_producer_done closes the channel as soon as every    *)
(* registered task has returned, joined or not (line 290).                 *)
(*                                                                         *)
(* As in MPSC, each critical section is one atomic action and the          *)
(* consumer's wait on its condition variable is split into sleeping and    *)
(* signalled.  depth[p] counts the frames of mpsc_producer_send on p's     *)
(* stack.                                                                  *)
(***************************************************************************)
EXTENDS Integers, Sequences, Functions

CONSTANTS
    NMaxProducers,          \* params.n_max_producers
    BufferSize,             \* params.buffer_size
    ErrorHandlingEnabled,   \* params.error_handling_enabled
    MaxSends,               \* bound on the sends of one producer task
    MaxDepth                \* bound on the frames of the recursive send

ASSUME NMaxProducers010Assumption == NMaxProducers \in Nat \ {0}
ASSUME BufferSize010Assumption == BufferSize \in Nat
ASSUME ErrorHandling010Assumption == ErrorHandlingEnabled \in BOOLEAN
ASSUME MaxSends010Assumption == MaxSends \in Nat
ASSUME MaxDepthAssumption == MaxDepth \in Nat \ {0}

Producers == 0 .. NMaxProducers - 1

Msgs == [from : Producers, seq : 0 .. MaxSends, len : 0 .. BufferSize]
NoMsg == [from |-> 0, seq |-> 0, len |-> 0]

VARIABLES
    buffer, n, pending_message, closed, joined, n_producers_closed,
    producer_count,
    ppc,        \* "unregistered", "task", "retrying" (inside the recursion), "exited"
    depth,      \* frames of mpsc_producer_send on each producer's stack
    send_msg,   \* the message a retrying producer is sending
    cpc, mpc,   \* the consumer thread and main, as in MPSC
    nsent, accepted, delivered, dropped,
    consumer_closed     \* mpsc_consumer_close has been called

chan == <<buffer, n, pending_message, closed, joined, n_producers_closed,
          producer_count>>
vars == <<chan, ppc, depth, send_msg, cpc, mpc, nsent, accepted, delivered,
          dropped, consumer_closed>>

SignalConsumer == IF cpc = "waiting" THEN "signalled" ELSE cpc

CanRegister ==
    \/ mpc = "running"
    \/ \E q \in Producers : ppc[q] \in {"task", "retrying"}
    \/ cpc = "callback"

-----------------------------------------------------------------------------
(* Plausible bugs, used by the mutation runs.                              *)

\* Deposit without the pending_message test: the slot is overwritten.
SlotBusy_Never == FALSE
\* mpsc_register_producer without the n_max_producers check.
RegisterAllowed010_NoMaxCheck == ~closed
\* The last-task test written against producer_count + 1: never true.
AllTasksDone_OffByOne == n_producers_closed' = producer_count + 1

-----------------------------------------------------------------------------
Init ==
    /\ buffer = NoMsg
    /\ n = 0
    /\ pending_message = FALSE
    /\ closed = FALSE
    /\ joined = FALSE
    /\ n_producers_closed = 0
    /\ producer_count = 0
    /\ ppc = [p \in Producers |-> "unregistered"]
    /\ depth = [p \in Producers |-> 0]
    /\ send_msg = [p \in Producers |-> NoMsg]
    /\ cpc = "top"
    /\ mpc = "running"
    /\ nsent = [p \in Producers |-> 0]
    /\ accepted = {}
    /\ delivered = <<>>
    /\ dropped = {}
    /\ consumer_closed = FALSE

(* The checks of mpsc_register_producer that return an error.             *)
RegisterAllowed010 == producer_count # NMaxProducers /\ ~closed

mpsc_register_producer ==
    /\ CanRegister
    /\ RegisterAllowed010
    /\ ppc' = [ppc EXCEPT ![producer_count] = "task"]
    /\ producer_count' = producer_count + 1
    /\ UNCHANGED <<buffer, n, pending_message, closed, joined, n_producers_closed,
                   depth, send_msg, cpc, mpc, nsent, accepted, delivered,
                   dropped, consumer_closed>>

mpsc_consumer_close ==
    /\ cpc = "callback"
    /\ closed' = TRUE
    /\ consumer_closed' = TRUE
    /\ UNCHANGED <<buffer, n, pending_message, joined, n_producers_closed,
                   producer_count, ppc, depth, send_msg, cpc, mpc, nsent,
                   accepted, delivered, dropped>>

(* The test at line 260 that sends the producer round the recursion.       *)
SlotBusy == pending_message

(* One call of mpsc_producer_send for message m, under the lock: returns   *)
(* false when closed, recurses (one frame more) when the slot is busy,     *)
(* otherwise deposits, signals the consumer and returns true; the          *)
(* returns unwind every frame.                                             *)
SendCall(p, m) ==
    \/ /\ closed
       /\ ppc' = [ppc EXCEPT ![p] = "task"]
       /\ depth' = [depth EXCEPT ![p] = 0]
       /\ UNCHANGED <<chan, send_msg, cpc, accepted>>
    \/ /\ ~closed /\ SlotBusy
       /\ depth[p] < MaxDepth
       /\ ppc' = [ppc EXCEPT ![p] = "retrying"]
       /\ depth' = [depth EXCEPT ![p] = @ + 1]
       /\ send_msg' = [send_msg EXCEPT ![p] = m]
       /\ UNCHANGED <<chan, cpc, accepted>>
    \/ /\ ~closed /\ ~SlotBusy
       /\ buffer' = m
       /\ n' = m.len
       /\ pending_message' = TRUE
       /\ cpc' = SignalConsumer
       /\ accepted' = accepted \cup {m}
       /\ ppc' = [ppc EXCEPT ![p] = "task"]
       /\ depth' = [depth EXCEPT ![p] = 0]
       /\ UNCHANGED <<closed, joined, n_producers_closed, producer_count, send_msg>>

(* The task calls mpsc_producer_send (or send_empty).                      *)
mpsc_producer_send(p, len) ==
    /\ ppc[p] = "task"
    /\ nsent[p] < MaxSends
    /\ nsent' = [nsent EXCEPT ![p] = @ + 1]
    /\ SendCall(p, [from |-> p, seq |-> nsent[p] + 1, len |-> len])
    /\ UNCHANGED <<mpc, delivered, dropped, consumer_closed>>

(* The recursive call of line 265 re-acquires the lock.                    *)
SendRetry(p) ==
    /\ ppc[p] = "retrying"
    /\ SendCall(p, send_msg[p])
    /\ UNCHANGED <<mpc, nsent, delivered, dropped, consumer_closed>>

(* The test of line 290, on the incremented count: no test of joined.      *)
AllTasksDone == n_producers_closed' = producer_count

(* mpsc_producer_done: the last task to return closes the channel.         *)
mpsc_producer_done(p) ==
    /\ ppc[p] = "task"
    /\ ppc' = [ppc EXCEPT ![p] = "exited"]
    /\ n_producers_closed' = n_producers_closed + 1
    /\ IF AllTasksDone
          THEN closed' = TRUE /\ cpc' = SignalConsumer
          ELSE UNCHANGED <<closed, cpc>>
    /\ UNCHANGED <<buffer, n, pending_message, joined, producer_count, depth,
                   send_msg, mpc, nsent, accepted, delivered, dropped,
                   consumer_closed>>

-----------------------------------------------------------------------------
(* my_consumer_thread_callback (lines 409-447): the same loop as in MPSC   *)
(* without the election.                                                   *)
ConsumerMustExit == closed /\ ~pending_message

DropPending010 ==
    /\ n' = 0
    /\ pending_message' = FALSE
    /\ dropped' = dropped \cup {buffer}

ConsumerLoop ==
    /\ cpc \in {"top", "signalled"}
    /\ \/ /\ ~pending_message /\ ~closed
          /\ cpc' = "waiting"
          /\ UNCHANGED <<chan, delivered, dropped>>
       \/ /\ ~(~pending_message /\ ~closed) /\ ConsumerMustExit
          /\ cpc' = "final_callback"
          /\ UNCHANGED <<chan, delivered, dropped>>
       \/ /\ ~(~pending_message /\ ~closed) /\ ~ConsumerMustExit
          /\ n > 0 /\ ErrorHandlingEnabled
          /\ DropPending010
          /\ cpc' = "error_callback"
          /\ UNCHANGED <<buffer, closed, joined, n_producers_closed,
                         producer_count, delivered>>
       \/ /\ ~(~pending_message /\ ~closed) /\ ~ConsumerMustExit
          /\ delivered' = Append(delivered,
                            [from |-> buffer.from, seq |-> buffer.seq, len |-> n])
          /\ n' = 0
          /\ pending_message' = FALSE
          /\ cpc' = "callback"
          /\ UNCHANGED <<buffer, closed, joined, n_producers_closed,
                         producer_count, dropped>>
    /\ UNCHANGED <<ppc, depth, send_msg, mpc, nsent, accepted, consumer_closed>>

(* A callback returns: to the top of the loop, or the thread exits.        *)
CallbackReturn ==
    /\ \/ cpc \in {"callback", "error_callback"} /\ cpc' = "top"
       \/ cpc = "final_callback" /\ cpc' = "exited"
    /\ UNCHANGED <<chan, ppc, depth, send_msg, mpc, nsent, accepted, delivered,
                   dropped, consumer_closed>>

-----------------------------------------------------------------------------
(* mpsc_join (lines 157-190): it does not close the channel itself before  *)
(* joining the consumer.                                                   *)
JoinStart ==
    /\ mpc = "running"
    /\ producer_count # 0
    /\ joined' = TRUE
    /\ mpc' = "joining_consumer"
    /\ UNCHANGED <<buffer, n, pending_message, closed, n_producers_closed,
                   producer_count, ppc, depth, send_msg, cpc, nsent, accepted,
                   delivered, dropped, consumer_closed>>

JoinConsumer ==
    /\ mpc = "joining_consumer"
    /\ cpc = "exited"
    /\ closed' = TRUE
    /\ mpc' = "joining_producers"
    /\ UNCHANGED <<buffer, n, pending_message, joined, n_producers_closed,
                   producer_count, ppc, depth, send_msg, cpc, nsent, accepted,
                   delivered, dropped, consumer_closed>>

JoinProducers ==
    /\ mpc = "joining_producers"
    /\ \A i \in 0 .. producer_count - 1 : ppc[i] = "exited"
    /\ mpc' = "destroyed"
    /\ UNCHANGED <<chan, ppc, depth, send_msg, cpc, nsent, accepted, delivered,
                   dropped, consumer_closed>>

SpuriousWakeupConsumer ==
    /\ cpc = "waiting"
    /\ cpc' = "signalled"
    /\ UNCHANGED <<chan, ppc, depth, send_msg, mpc, nsent, accepted, delivered,
                   dropped, consumer_closed>>

-----------------------------------------------------------------------------
Next ==
    \/ mpsc_register_producer
    \/ mpsc_consumer_close
    \/ \E p \in Producers, len \in 0 .. BufferSize : mpsc_producer_send(p, len)
    \/ \E p \in Producers : SendRetry(p)
    \/ \E p \in Producers : mpsc_producer_done(p)
    \/ ConsumerLoop
    \/ CallbackReturn
    \/ JoinStart
    \/ JoinConsumer
    \/ JoinProducers
    \/ SpuriousWakeupConsumer

(* As in MPSC: runnable threads are scheduled, tasks and callbacks return, *)
(* main registers a first producer and joins.                              *)
MainRegistersFirst ==
    mpc = "running" /\ producer_count = 0 /\ mpsc_register_producer

Fairness ==
    /\ WF_vars(MainRegistersFirst)
    /\ \A p \in Producers : WF_vars(SendRetry(p))
    /\ \A p \in Producers : WF_vars(mpsc_producer_done(p))
    /\ WF_vars(ConsumerLoop)
    /\ WF_vars(CallbackReturn)
    /\ WF_vars(JoinStart)
    /\ WF_vars(JoinConsumer)
    /\ WF_vars(JoinProducers)

Spec == Init /\ [][Next]_vars
FairSpec == Spec /\ Fairness

-----------------------------------------------------------------------------
\* Every variable keeps its declared shape; producer_count stays within
\* n_max_producers and the recursion within MaxDepth frames.
TypeOK ==
    /\ buffer \in Msgs
    /\ n \in 0 .. BufferSize
    /\ pending_message \in BOOLEAN
    /\ closed \in BOOLEAN
    /\ joined \in BOOLEAN
    /\ n_producers_closed \in Nat
    /\ producer_count \in 0 .. NMaxProducers
    /\ ppc \in [Producers -> {"unregistered", "task", "retrying", "exited"}]
    /\ depth \in [Producers -> 0 .. MaxDepth]
    /\ send_msg \in [Producers -> Msgs]
    /\ cpc \in {"top", "waiting", "signalled", "callback", "error_callback",
                "final_callback", "exited"}
    /\ mpc \in {"running", "joining_consumer", "joining_producers", "destroyed"}
    /\ nsent \in [Producers -> 0 .. MaxSends]
    /\ accepted \in SUBSET Msgs
    /\ delivered \in Seq(Msgs)
    /\ dropped \in SUBSET Msgs
    /\ consumer_closed \in BOOLEAN

Abs == INSTANCE SlotChannel WITH
    slot <- IF pending_message THEN <<buffer>> ELSE <<>>,
    sent <- accepted,
    out <- delivered,
    lost <- dropped,
    DropAllowed <- ErrorHandlingEnabled

\* Revision 0.1.0 implements the single-slot channel too: the busy-retry
\* deposits only into an empty slot, the consumer receives exactly the
\* slot's message, and a pending message is eventually consumed.
ImplementsSlotChannel010 == Abs!Spec

\* mpsc_join returns once producer tasks and callbacks return.
JoinReturns010 == <>(mpc = "destroyed")

\* The spec (section 3, lifecycle): the channel closes only when the
\* consumer callback closes it or, once joined, when every task has
\* finished.
ClosedOnlyByConsumerOrJoin == closed => (consumer_closed \/ joined)

\* The spec (sections 1 and 7): no unbounded stack growth under
\* contention.  A send holds at most one frame beyond its first, however
\* long the consumer callback keeps the slot busy.
NoRecursiveRetry == \A p \in Producers : depth[p] <= 1

=============================================================================
