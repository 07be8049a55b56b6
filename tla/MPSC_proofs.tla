----------------------------- MODULE MPSC_proofs -----------------------------
(***************************************************************************)
(* Proofs about the channel model MPSC, for every value of the constants.  *)
(***************************************************************************)
EXTENDS MPSC, TLAPS

USE NMaxProducersAssumption, BufferSizeAssumption, ErrorHandlingAssumption,
    MaxSendsAssumption

-----------------------------------------------------------------------------
(* Messages are built from and taken apart into their three fields.  The  *)
(* proofs below keep Msgs opaque and use these two facts.                  *)
LEMMA MsgIntro ==
    \A p \in Producers, s \in 0 .. MaxSends, l \in 0 .. BufferSize :
        [from |-> p, seq |-> s, len |-> l] \in Msgs
BY DEF Msgs

LEMMA MsgFields ==
    \A m \in Msgs : m.from \in Producers /\ m.seq \in 0 .. MaxSends /\ m.len \in 0 .. BufferSize
BY DEF Msgs

-----------------------------------------------------------------------------
(* TypeOK is not inductive by itself: the shift in SendAfterWait takes the *)
(* Tail of the wait queue, which is only a sequence when the queue is not  *)
(* empty.  The queue is not empty whenever a producer is elected.          *)
ElectedHasQueue ==
    next_waiting_producer_id # None => producer_waiting_ids_queue # <<>>

TypeInv == TypeOK /\ ElectedHasQueue

LEMMA TypeInvInit == Init => TypeInv
BY MsgIntro DEF Init, TypeInv, TypeOK, ElectedHasQueue, NoMsg, Producers, None,
       PStates, CStates, MStates

LEMMA TypeInvStep == TypeInv /\ [Next]_vars => TypeInv'
<1> SUFFICES ASSUME TypeInv, [Next]_vars PROVE TypeInv'
    OBVIOUS
<1> USE DEF Producers, None, PStates, CStates, MStates
<1>buf. buffer \in Msgs
    BY DEF TypeInv, TypeOK
<1>n. n \in 0 .. BufferSize
    BY DEF TypeInv, TypeOK
<1>closed. closed \in BOOLEAN
    BY DEF TypeInv, TypeOK
<1>npc. n_producers_closed \in Nat
    BY DEF TypeInv, TypeOK
<1>count. producer_count \in 0 .. NMaxProducers
    BY DEF TypeInv, TypeOK
<1>queue. producer_waiting_ids_queue \in Seq(Producers)
    BY DEF TypeInv, TypeOK
<1>next. next_waiting_producer_id \in Producers \cup {None}
    BY DEF TypeInv, TypeOK
<1>elect. ElectedHasQueue
    BY DEF TypeInv, TypeOK
<1>ppc. ppc \in [Producers -> PStates]
    BY DEF TypeInv, TypeOK
<1>send. send_msg \in [Producers -> Msgs]
    BY DEF TypeInv, TypeOK
<1>cpc. cpc \in CStates
    BY DEF TypeInv, TypeOK
<1>nsent. nsent \in [Producers -> 0 .. MaxSends]
    BY DEF TypeInv, TypeOK
<1>acc. accepted \in SUBSET Msgs
    BY DEF TypeInv, TypeOK
<1>del. delivered \in Seq(Msgs)
    BY DEF TypeInv, TypeOK
<1>drop. dropped \in SUBSET Msgs
    BY DEF TypeInv, TypeOK
<1>sub. subscribed \in Seq(Msgs)
    BY DEF TypeInv, TypeOK
<1>1. CASE mpsc_register_producer
    <2>1. producer_count \in 0 .. NMaxProducers - 1
        BY <1>1, <1>count DEF mpsc_register_producer, RegisterAllowed
    <2>2. producer_count' \in 0 .. NMaxProducers
        BY <1>1, <2>1 DEF mpsc_register_producer
    <2>3. ppc' \in [Producers -> PStates]
        BY <1>1, <1>ppc, <2>1 DEF mpsc_register_producer
    <2>4. QED
        BY <1>1, <2>2, <2>3 DEF mpsc_register_producer, TypeInv, TypeOK,
                                 ElectedHasQueue, history
<1>2. CASE mpsc_consumer_close
    <2>1. ppc' \in [Producers -> PStates]
        BY <1>2, <1>ppc DEF mpsc_consumer_close, SignalProducers
    <2>2. QED
        BY <1>2, <2>1 DEF mpsc_consumer_close, TypeInv, TypeOK, ElectedHasQueue,
                          history
<1>3. ASSUME NEW p \in Producers, NEW len \in 0 .. BufferSize,
             mpsc_producer_send(p, len)
      PROVE TypeInv'
    <2> DEFINE m == [from |-> p, seq |-> nsent[p] + 1, len |-> len]
    <2>1. m \in Msgs
        BY <1>3, <1>nsent, MsgIntro DEF mpsc_producer_send
    <2>2. nsent' \in [Producers -> 0 .. MaxSends]
        BY <1>3, <1>nsent DEF mpsc_producer_send
    <2>3. CASE SendRejected
        BY <1>3, <2>2, <2>3 DEF mpsc_producer_send, TypeInv, TypeOK,
                                ElectedHasQueue, chan, threads
    <2>4. CASE ~SendRejected /\ MustWait
        <3>0. /\ producer_waiting_ids_queue' = Append(producer_waiting_ids_queue, p)
              /\ ppc' = [ppc EXCEPT ![p] = "waiting"]
              /\ send_msg' = [send_msg EXCEPT ![p] = m]
              /\ subscribed' = Append(subscribed, m)
            BY <1>3, <2>4 DEF mpsc_producer_send, Subscribe
        <3>1. /\ producer_waiting_ids_queue' \in Seq(Producers)
              /\ producer_waiting_ids_queue' # <<>>
              /\ ppc' \in [Producers -> PStates]
              /\ send_msg' \in [Producers -> Msgs]
              /\ subscribed' \in Seq(Msgs)
            BY <1>3, <1>queue, <1>ppc, <1>send, <1>sub, <2>1, <3>0
        <3>2. QED
            BY <1>3, <2>2, <2>4, <3>1 DEF mpsc_producer_send, TypeInv, TypeOK,
                                          ElectedHasQueue
    <2>5. CASE ~SendRejected /\ ~MustWait
        <3>1. /\ buffer' \in Msgs
              /\ n' \in 0 .. BufferSize
              /\ cpc' \in CStates
              /\ accepted' \in SUBSET Msgs
            BY <1>3, <1>cpc, <1>acc, <2>1, <2>5 DEF mpsc_producer_send, Deposit,
                                               SignalConsumer
        <3>3. /\ pending_message' = TRUE
              /\ UNCHANGED <<closed, joined, n_producers_closed, producer_count,
                             producer_waiting_ids_queue, next_waiting_producer_id,
                             ppc, send_msg, mpc, delivered, dropped, subscribed>>
            BY <1>3, <2>5 DEF mpsc_producer_send, Deposit
        <3>2. QED
            BY Zenon, <2>2, <3>1, <3>3 DEF TypeInv, TypeOK, ElectedHasQueue
    <2>6. QED
        BY <2>3, <2>4, <2>5
<1>4. ASSUME NEW p \in Producers, SendAfterWait(p)
      PROVE TypeInv'
    <2>1. CASE ~closed /\ next_waiting_producer_id = p
        <3>1. producer_waiting_ids_queue # <<>>
            BY <1>elect, <2>1 DEF ElectedHasQueue
        <3>0. /\ producer_waiting_ids_queue' = Tail(producer_waiting_ids_queue)
              /\ next_waiting_producer_id' = None
              /\ buffer' = send_msg[p]
              /\ n' = send_msg[p].len
              /\ pending_message' = TRUE
              /\ cpc' = SignalConsumer
              /\ accepted' = accepted \cup {send_msg[p]}
              /\ ppc' = [ppc EXCEPT ![p] = "task"]
            BY <1>4, <2>1 DEF SendAfterWait, ShiftWaitQueue, Deposit
        <3>2. /\ producer_waiting_ids_queue' \in Seq(Producers)
              /\ next_waiting_producer_id' = None
            BY <1>queue, <3>0, <3>1
        <3>5. send_msg[p] \in Msgs
            BY <1>send
        <3>3. /\ buffer' \in Msgs
              /\ n' \in 0 .. BufferSize
              /\ cpc' \in CStates
              /\ accepted' \in SUBSET Msgs
              /\ ppc' \in [Producers -> PStates]
            BY <1>ppc, <1>cpc, <1>acc, <3>0, <3>5, MsgFields DEF SignalConsumer
        <3>6. /\ pending_message' = TRUE
              /\ UNCHANGED <<closed, joined, n_producers_closed, producer_count,
                             send_msg, mpc, nsent, delivered, dropped, subscribed>>
            BY <1>4, <2>1 DEF SendAfterWait, Deposit
        <3>4. QED
            BY Zenon, <3>2, <3>3, <3>6 DEF TypeInv, TypeOK, ElectedHasQueue
    <2>2. CASE ~(~closed /\ next_waiting_producer_id = p)
        <3>1. ppc' \in [Producers -> PStates]
            BY <1>4, <1>ppc, <2>2 DEF SendAfterWait
        <3>2. UNCHANGED <<chan, send_msg, cpc, mpc, history>>
            BY <1>4, <2>2 DEF SendAfterWait
        <3>3. QED
            BY <3>1, <3>2 DEF TypeInv, TypeOK, ElectedHasQueue, chan, history
    <2>3. QED
        BY <2>1, <2>2
<1>5. ASSUME NEW p \in Producers, mpsc_producer_done(p)
      PROVE TypeInv'
    <2>0. /\ ppc' = [ppc EXCEPT ![p] = "exited"]
          /\ n_producers_closed' = n_producers_closed + 1
          /\ closed' \in {closed, TRUE}
          /\ cpc' \in {cpc, SignalConsumer}
        BY <1>5 DEF mpsc_producer_done
    <2>1. /\ ppc' \in [Producers -> PStates]
          /\ n_producers_closed' \in Nat
          /\ cpc' \in CStates
        BY <1>npc, <1>ppc, <1>cpc, <2>0 DEF SignalConsumer
    <2>3. closed' \in BOOLEAN
        BY Zenon, <1>closed, <2>0
    <2>2. QED
        BY <1>5, <2>1, <2>3 DEF mpsc_producer_done, TypeInv, TypeOK, ElectedHasQueue,
                          history
<1>6. CASE ConsumerLoop
    <2>1. CASE ConsumerWaits \/ ConsumerBreaks
        BY <2>1 DEF ConsumerWaits, ConsumerBreaks, TypeInv, TypeOK, ElectedHasQueue,
                    chan, history
    <2>2. CASE MallocFails
        <3>0. /\ n' = 0
              /\ pending_message' = FALSE
              /\ dropped' = dropped \cup {buffer}
              /\ cpc' = "error_callback"
            BY <2>2 DEF MallocFails, DropPending
        <3>1. /\ n' \in 0 .. BufferSize
              /\ cpc' \in CStates
            BY <3>0
        <3>3. dropped' \in SUBSET Msgs
            BY <1>buf, <1>drop, <3>0
        <3>2. QED
            BY <2>2, <3>1, <3>3 DEF MallocFails, DropPending, TypeInv, TypeOK,
                              ElectedHasQueue
    <2>3. CASE ConsumerDelivers
        <3>1. [from |-> buffer.from, seq |-> buffer.seq, len |-> n] \in Msgs
            BY <1>buf, <1>n, MsgIntro, MsgFields
        <3>2. delivered' \in Seq(Msgs)
            BY <2>3, <1>del, <3>1 DEF ConsumerDelivers
        <3>8. \/ /\ producer_waiting_ids_queue # <<>>
                 /\ next_waiting_producer_id' = Head(producer_waiting_ids_queue)
                 /\ ppc' = SignalProducers({Head(producer_waiting_ids_queue)})
                 /\ producer_waiting_ids_queue' = producer_waiting_ids_queue
              \/ /\ next_waiting_producer_id' = next_waiting_producer_id
                 /\ ppc' = ppc
                 /\ producer_waiting_ids_queue' = producer_waiting_ids_queue
            BY <2>3, <1>queue DEF ConsumerDelivers, MayElect
        <3>3. /\ next_waiting_producer_id' \in Producers \cup {None}
              /\ ppc' \in [Producers -> PStates]
              /\ next_waiting_producer_id' # None => producer_waiting_ids_queue' # <<>>
            <4>1. CASE producer_waiting_ids_queue # <<>>
                       /\ next_waiting_producer_id' = Head(producer_waiting_ids_queue)
                       /\ ppc' = SignalProducers({Head(producer_waiting_ids_queue)})
                       /\ producer_waiting_ids_queue' = producer_waiting_ids_queue
                <5>1. Head(producer_waiting_ids_queue) \in Producers
                    BY <1>queue, <4>1
                <5>2. QED
                    BY <1>ppc, <4>1, <5>1 DEF SignalProducers
            <4>2. CASE /\ next_waiting_producer_id' = next_waiting_producer_id
                       /\ ppc' = ppc
                       /\ producer_waiting_ids_queue' = producer_waiting_ids_queue
                BY <1>next, <1>ppc, <1>elect, <4>2 DEF ElectedHasQueue
            <4>3. QED
                BY <3>8, <4>1, <4>2
        <3>4. n' = 0 /\ pending_message' = FALSE /\ cpc' = "callback"
            BY <2>3 DEF ConsumerDelivers
        <3>6. n' \in 0 .. BufferSize
            BY <3>4
        <3>7. cpc' \in CStates
            BY <3>4
        <3>5. QED
            BY <2>3, <3>2, <3>3, <3>4, <3>6, <3>7 DEF ConsumerDelivers, TypeInv, TypeOK,
                                          ElectedHasQueue
    <2>4. QED
        BY <1>6, <2>1, <2>2, <2>3 DEF ConsumerLoop
<1>7. CASE ConsumerCallbackReturn \/ ErrorCallbackReturn \/ FinalCallbackReturn
    BY <1>7 DEF ConsumerCallbackReturn, ErrorCallbackReturn, FinalCallbackReturn,
                TypeInv, TypeOK, ElectedHasQueue, chan, history
<1>8. CASE JoinStart \/ JoinConsumer \/ JoinProducers
    BY <1>8 DEF JoinStart, JoinConsumer, JoinProducers, SignalConsumer,
                TypeInv, TypeOK, ElectedHasQueue, chan, history
<1>9. ASSUME NEW p \in Producers, SpuriousWakeupProducer(p)
      PROVE TypeInv'
    <2>1. ppc' \in [Producers -> PStates]
        BY <1>9, <1>ppc DEF SpuriousWakeupProducer
    <2>2. QED
        BY <1>9, <2>1 DEF SpuriousWakeupProducer, TypeInv, TypeOK, ElectedHasQueue,
                          chan, history
<1>10. CASE SpuriousWakeupConsumer
    BY <1>10 DEF SpuriousWakeupConsumer, TypeInv, TypeOK, ElectedHasQueue,
                 chan, history
<1>11. CASE UNCHANGED vars
    BY <1>11 DEF vars, chan, threads, history, TypeInv, TypeOK, ElectedHasQueue
<1>12. QED
    BY <1>1, <1>2, <1>3, <1>4, <1>5, <1>6, <1>7, <1>8, <1>9, <1>10, <1>11
       DEF Next

\* The channel model is well typed: every variable keeps the shape of the
\* code's declarations, producer_count stays within n_max_producers, and
\* mpsc_shift_producer_wait_queue never runs on an empty queue.
THEOREM TypeCorrect == Spec => []TypeOK
<1>1. Init => TypeInv
    BY TypeInvInit
<1>2. TypeInv /\ [Next]_vars => TypeInv'
    BY TypeInvStep
<1>3. TypeInv => TypeOK
    BY DEF TypeInv
<1>4. QED
    BY <1>1, <1>2, <1>3, PTL DEF Spec


-----------------------------------------------------------------------------
(* No lost wake-up under the abort policy.  Only the consumer clears       *)
(* pending_message, and in the same critical section it elects the head of *)
(* a non-empty queue while the channel is open; a send only subscribes     *)
(* when a message is pending or a waiter is elected; an elected waiter     *)
(* clears the election only by depositing.  The malloc-failure branch,     *)
(* which clears the slot without electing, exists only under the Report    *)
(* policy (see the run stranded).                                          *)
StrandInv == TypeInv /\ NoStrandedWaiter

LEMMA StrandInvStep ==
    ASSUME ~ErrorHandlingEnabled
    PROVE  StrandInv /\ [Next]_vars => StrandInv'
<1> SUFFICES ASSUME StrandInv, [Next]_vars PROVE StrandInv'
    OBVIOUS
<1>1. TypeInv'
    BY TypeInvStep DEF StrandInv
<1>2. NoStrandedWaiter
    BY DEF StrandInv
<1> DEFINE Open == ~closed /\ producer_waiting_ids_queue # <<>>
           Served == pending_message \/ next_waiting_producer_id # None
<1>3. SUFFICES ASSUME Open', ~Served' PROVE FALSE
    BY <1>1 DEF StrandInv, NoStrandedWaiter
<1>4. CASE \E p \in Producers, len \in 0 .. BufferSize : mpsc_producer_send(p, len)
    BY <1>2, <1>3, <1>4 DEF mpsc_producer_send, Subscribe, Deposit, SendRejected,
                             MustWait, NoStrandedWaiter, chan
<1>5. CASE \E p \in Producers : SendAfterWait(p)
    BY <1>2, <1>3, <1>5 DEF SendAfterWait, Deposit, NoStrandedWaiter, chan
<1>6. CASE ConsumerLoop
    <2>1. CASE ConsumerDelivers
        <3>1. ~closed /\ producer_waiting_ids_queue # <<>>
            BY <1>3, <2>1 DEF ConsumerDelivers
        <3>2. producer_waiting_ids_queue \in Seq(Producers)
            BY DEF StrandInv, TypeInv, TypeOK
        <3>3. Head(producer_waiting_ids_queue) \in Producers
            BY <3>1, <3>2
        <3>4. next_waiting_producer_id' = Head(producer_waiting_ids_queue)
            BY <2>1, <3>1, <3>2 DEF ConsumerDelivers, MayElect
        <3>5. QED
            BY <1>3, <3>3, <3>4 DEF Producers, None
    <2>2. CASE MallocFails
        BY <2>2 DEF MallocFails
    <2>3. CASE ConsumerWaits \/ ConsumerBreaks
        BY <1>2, <1>3, <2>3 DEF ConsumerWaits, ConsumerBreaks, NoStrandedWaiter, chan
    <2>4. QED
        BY <1>6, <2>1, <2>2, <2>3 DEF ConsumerLoop
<1>7. CASE \/ mpsc_register_producer \/ mpsc_consumer_close
           \/ \E p \in Producers : mpsc_producer_done(p)
           \/ JoinStart \/ JoinConsumer
    BY <1>2, <1>3, <1>7 DEF mpsc_register_producer, mpsc_consumer_close,
                            mpsc_producer_done, JoinStart, JoinConsumer, NoStrandedWaiter
<1>8. CASE \/ ConsumerCallbackReturn \/ ErrorCallbackReturn \/ FinalCallbackReturn
           \/ JoinProducers \/ SpuriousWakeupConsumer
           \/ \E p \in Producers : SpuriousWakeupProducer(p)
           \/ UNCHANGED vars
    BY <1>2, <1>3, <1>8 DEF ConsumerCallbackReturn, ErrorCallbackReturn,
                            FinalCallbackReturn, JoinProducers, SpuriousWakeupConsumer,
                            SpuriousWakeupProducer, NoStrandedWaiter, vars, chan
<1>9. QED
    BY <1>4, <1>5, <1>6, <1>7, <1>8 DEF Next

\* Under the abort policy no producer is ever left asleep in the wait queue
\* of mpsc_producer_send while the channel is open and nothing is pending
\* or elected: my_consumer_thread_callback's election (mpsc.c:613-618)
\* follows every consumption.
THEOREM NoLostWakeup ==
    ASSUME ~ErrorHandlingEnabled
    PROVE  Spec => []NoStrandedWaiter
<1>1. Init => StrandInv
    BY TypeInvInit DEF Init, StrandInv, NoStrandedWaiter
<1>2. StrandInv /\ [Next]_vars => StrandInv'
    BY StrandInvStep
<1>3. StrandInv => NoStrandedWaiter
    BY DEF StrandInv
<1>4. QED
    BY <1>1, <1>2, <1>3, PTL DEF Spec

-----------------------------------------------------------------------------
(* Only two steps add to accepted: a fresh send past its closed test and an *)
(* elected waiter past its re-test of closed.  Both happen while the        *)
(* channel is open, and nothing reopens it.                                 *)
LEMMA AcceptStep == [Next]_vars => [closed => accepted' = accepted]_vars
<1> SUFFICES ASSUME [Next]_vars, closed PROVE accepted' = accepted
    BY DEF vars, history
<1>1. CASE \E p \in Producers, len \in 0 .. BufferSize : mpsc_producer_send(p, len)
    BY <1>1 DEF mpsc_producer_send, SendRejected
<1>2. CASE \E p \in Producers : SendAfterWait(p)
    BY <1>2 DEF SendAfterWait, history
<1>3. CASE ~(\E p \in Producers, len \in 0 .. BufferSize : mpsc_producer_send(p, len))
           /\ ~(\E p \in Producers : SendAfterWait(p))
    BY <1>3 DEF Next, vars, history, mpsc_register_producer, mpsc_consumer_close,
                mpsc_producer_done, ConsumerLoop, ConsumerWaits, ConsumerBreaks,
                MallocFails, ConsumerDelivers, ConsumerCallbackReturn,
                ErrorCallbackReturn, FinalCallbackReturn, JoinStart, JoinConsumer,
                JoinProducers, SpuriousWakeupProducer, SpuriousWakeupConsumer
<1>4. QED
    BY <1>1, <1>2, <1>3

\* No send returns true once the channel is closed, whatever the number of
\* producers: mpsc_producer_send tests closed first (mpsc.c:304) and again
\* after every wake-up (mpsc.c:323) before it deposits.
THEOREM AcceptOnlyWhileOpen == Spec => NoAcceptAfterClose
BY AcceptStep, PTL DEF Spec, NoAcceptAfterClose


-----------------------------------------------------------------------------
(* Once mpsc_join is past the consumer join the channel is closed: the     *)
(* consumer exits only when closed, join then sets closed itself, and no   *)
(* step ever clears it.                                                    *)
JoinClosed == mpc \in {"joining_producers", "destroyed"} => closed

LEMMA JoinClosedStep == JoinClosed /\ [Next]_vars => JoinClosed'
<1> SUFFICES ASSUME JoinClosed, [Next]_vars,
                    mpc' \in {"joining_producers", "destroyed"}
             PROVE  closed'
    BY DEF JoinClosed
<1>0. mpc \in {"joining_producers", "destroyed"} => closed
    BY DEF JoinClosed
<1>1. CASE mpsc_register_producer
    BY <1>1, <1>0 DEF mpsc_register_producer, chan
<1>2. CASE mpsc_consumer_close
    BY <1>2, <1>0 DEF mpsc_consumer_close, chan
<1>3. CASE \E p \in Producers, len \in 0 .. BufferSize : mpsc_producer_send(p, len)
    BY <1>3, <1>0 DEF mpsc_producer_send, Subscribe, Deposit, SendRejected, MustWait, chan, threads, history
<1>4. CASE \E p \in Producers : SendAfterWait(p)
    BY <1>4, <1>0 DEF SendAfterWait, Deposit, ShiftWaitQueue, chan
<1>5. CASE \E p \in Producers : mpsc_producer_done(p)
    BY <1>5, <1>0 DEF mpsc_producer_done, chan
<1>6. CASE ConsumerWaits
    BY <1>6, <1>0 DEF ConsumerWaits, chan
<1>7. CASE ConsumerBreaks
    BY <1>7, <1>0 DEF ConsumerBreaks, chan
<1>8. CASE MallocFails
    BY <1>8, <1>0 DEF MallocFails, DropPending, chan
<1>9. CASE ConsumerDelivers
    BY <1>9, <1>0 DEF ConsumerDelivers, chan
<1>10. CASE ConsumerCallbackReturn
    BY <1>10, <1>0 DEF ConsumerCallbackReturn, chan
<1>11. CASE ErrorCallbackReturn
    BY <1>11, <1>0 DEF ErrorCallbackReturn, chan
<1>12. CASE FinalCallbackReturn
    BY <1>12, <1>0 DEF FinalCallbackReturn, chan
<1>13. CASE JoinStart
    BY <1>13, <1>0 DEF JoinStart, chan
<1>14. CASE JoinConsumer
    BY <1>14, <1>0 DEF JoinConsumer, chan
<1>15. CASE JoinProducers
    BY <1>15, <1>0 DEF JoinProducers, chan
<1>16. CASE \E p \in Producers : SpuriousWakeupProducer(p)
    BY <1>16, <1>0 DEF SpuriousWakeupProducer, chan
<1>17. CASE SpuriousWakeupConsumer
    BY <1>17, <1>0 DEF SpuriousWakeupConsumer, chan
<1>18. CASE UNCHANGED vars
    BY <1>18, <1>0 DEF vars, chan, threads, history
<1>19. QED
    BY <1>1, <1>2, <1>3, <1>4, <1>5, <1>6, <1>7, <1>8, <1>9, <1>10, <1>11, <1>12, <1>13, <1>14, <1>15, <1>16, <1>17, <1>18 DEF Next, ConsumerLoop

(* Only a registration changes producer_count, and it needs ~closed.       *)
LEMMA CountStableStep ==
    JoinClosed /\ [Next]_vars =>
        [(mpc \in {"joining_producers", "destroyed"}) =>
            producer_count' = producer_count]_vars
<1> SUFFICES ASSUME JoinClosed, [Next]_vars,
                    mpc \in {"joining_producers", "destroyed"}
             PROVE  producer_count' = producer_count
    BY DEF vars, chan
<1>0. closed
    BY DEF JoinClosed
<1>1. CASE mpsc_register_producer
    BY <1>1, <1>0 DEF mpsc_register_producer, RegisterAllowed, chan
<1>2. CASE mpsc_consumer_close
    BY <1>2, <1>0 DEF mpsc_consumer_close, chan
<1>3. CASE \E p \in Producers, len \in 0 .. BufferSize : mpsc_producer_send(p, len)
    BY <1>3, <1>0 DEF mpsc_producer_send, Subscribe, Deposit, SendRejected, MustWait, chan, threads, history
<1>4. CASE \E p \in Producers : SendAfterWait(p)
    BY <1>4, <1>0 DEF SendAfterWait, Deposit, ShiftWaitQueue, chan
<1>5. CASE \E p \in Producers : mpsc_producer_done(p)
    BY <1>5, <1>0 DEF mpsc_producer_done, chan
<1>6. CASE ConsumerWaits
    BY <1>6, <1>0 DEF ConsumerWaits, chan
<1>7. CASE ConsumerBreaks
    BY <1>7, <1>0 DEF ConsumerBreaks, chan
<1>8. CASE MallocFails
    BY <1>8, <1>0 DEF MallocFails, DropPending, chan
<1>9. CASE ConsumerDelivers
    BY <1>9, <1>0 DEF ConsumerDelivers, chan
<1>10. CASE ConsumerCallbackReturn
    BY <1>10, <1>0 DEF ConsumerCallbackReturn, chan
<1>11. CASE ErrorCallbackReturn
    BY <1>11, <1>0 DEF ErrorCallbackReturn, chan
<1>12. CASE FinalCallbackReturn
    BY <1>12, <1>0 DEF FinalCallbackReturn, chan
<1>13. CASE JoinStart
    BY <1>13, <1>0 DEF JoinStart, chan
<1>14. CASE JoinConsumer
    BY <1>14, <1>0 DEF JoinConsumer, chan
<1>15. CASE JoinProducers
    BY <1>15, <1>0 DEF JoinProducers, chan
<1>16. CASE \E p \in Producers : SpuriousWakeupProducer(p)
    BY <1>16, <1>0 DEF SpuriousWakeupProducer, chan
<1>17. CASE SpuriousWakeupConsumer
    BY <1>17, <1>0 DEF SpuriousWakeupConsumer, chan
<1>18. CASE UNCHANGED vars
    BY <1>18, <1>0 DEF vars, chan, threads, history
<1>19. QED
    BY <1>1, <1>2, <1>3, <1>4, <1>5, <1>6, <1>7, <1>8, <1>9, <1>10, <1>11, <1>12, <1>13, <1>14, <1>15, <1>16, <1>17, <1>18 DEF Next, ConsumerLoop

\* mpsc_join's producer loop (mpsc.c:226) reads producer_count without the
\* lock; for every value of the constants no step changes the count once
\* the loop may run, so the read is of a value no thread writes any more.
THEOREM JoinLoopReadsStableCount == Spec => JoinLoopCountStable
<1>1. Init => JoinClosed
    BY DEF Init, JoinClosed
<1>2. QED
    BY <1>1, JoinClosedStep, CountStableStep, PTL DEF Spec, JoinLoopCountStable

=============================================================================
