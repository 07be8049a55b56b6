------------------------- MODULE MPSC_channel_proofs -------------------------
(***************************************************************************)
(* Proofs of the channel's safety invariants that the runs check: the wait *)
(* queue of mpsc_producer_send (WaitQueueConsistent), message conservation *)
(* through the slot (MessageConservation) and the consumer's drain before  *)
(* its terminal callback (TerminalAfterDrain), for every value of the      *)
(* constants.                                                              *)
(***************************************************************************)
EXTENDS MPSC_refinement_proofs

USE NMaxProducersAssumption, BufferSizeAssumption, ErrorHandlingAssumption,
    MaxSendsAssumption

-----------------------------------------------------------------------------
(* What appending to and shifting the wait queue do to its range and to    *)
(* its injectivity (Range and IsInjective of the Functions module).        *)
LEMMA RangeAppend ==
    ASSUME NEW S, NEW s \in Seq(S), NEW x
    PROVE  Range(Append(s, x)) = Range(s) \cup {x}
<1> DEFINE t == Append(s, x)
<1>1. DOMAIN t = 1 .. Len(s) + 1
    OBVIOUS
<1>2. \A i \in 1 .. Len(s) : t[i] = s[i]
    OBVIOUS
<1>3. t[Len(s) + 1] = x
    OBVIOUS
<1>4. Range(t) \subseteq Range(s) \cup {x}
    <2> SUFFICES ASSUME NEW i \in DOMAIN t PROVE t[i] \in Range(s) \cup {x}
        BY DEF Range
    <2>1. CASE i \in 1 .. Len(s)
        BY <1>2, <2>1 DEF Range
    <2>2. CASE i = Len(s) + 1
        BY <1>3, <2>2
    <2>3. QED
        BY <1>1, <2>1, <2>2
<1>5. Range(s) \cup {x} \subseteq Range(t)
    <2>1. ASSUME NEW i \in DOMAIN s PROVE s[i] \in Range(t)
        BY <1>1, <1>2 DEF Range
    <2>2. x \in Range(t)
        BY <1>1, <1>3 DEF Range
    <2>3. QED
        BY <2>1, <2>2 DEF Range
<1>6. QED
    BY <1>4, <1>5

LEMMA InjectiveAppend ==
    ASSUME NEW S, NEW s \in Seq(S), NEW x, IsInjective(s), x \notin Range(s)
    PROVE  IsInjective(Append(s, x))
BY DEF IsInjective, Range

LEMMA HeadAppend ==
    ASSUME NEW S, NEW s \in Seq(S), NEW x, s # <<>>
    PROVE  Head(Append(s, x)) = Head(s)
OBVIOUS

LEMMA TailShift ==
    ASSUME NEW S, NEW s \in Seq(S), s # <<>>, IsInjective(s)
    PROVE  /\ Range(Tail(s)) = Range(s) \ {Head(s)}
           /\ IsInjective(Tail(s))
           /\ Tail(s) \in Seq(S)
<1>1. ASSUME NEW j \in DOMAIN Tail(s)
      PROVE  /\ j + 1 \in 2 .. Len(s)
             /\ Tail(s)[j] = s[j + 1]
    OBVIOUS
<1>2. ASSUME NEW i \in 1 .. Len(s), s[i] # Head(s)
      PROVE  /\ i - 1 \in DOMAIN Tail(s)
             /\ Tail(s)[i - 1] = s[i]
    <2>1. i # 1
        BY <1>2
    <2>2. QED
        BY <2>1
<1>3. Range(Tail(s)) = Range(s) \ {Head(s)}
    <2>1. ASSUME NEW j \in DOMAIN Tail(s) PROVE Tail(s)[j] \in Range(s) \ {Head(s)}
        <3>1. s[j + 1] # s[1]
            BY <1>1 DEF IsInjective
        <3>2. QED
            BY <1>1, <3>1 DEF Range
    <2>2. ASSUME NEW i \in 1 .. Len(s), s[i] # Head(s) PROVE s[i] \in Range(Tail(s))
        <3>1. i - 1 \in DOMAIN Tail(s) /\ Tail(s)[i - 1] = s[i]
            BY <1>2, <2>2
        <3>2. QED
            BY <3>1 DEF Range
    <2>3. QED
        BY <2>1, <2>2 DEF Range
<1>4. IsInjective(Tail(s))
    BY DEF IsInjective
<1>5. QED
    BY <1>3, <1>4

-----------------------------------------------------------------------------
(* WaitQueueConsistent is not inductive by itself.  mpsc_register_producer *)
(* starts the thread of slot producer_count without looking at it: the     *)
(* queue stays the set of blocked producers only because that slot has     *)
(* never been used.  The registered slots are exactly those below          *)
(* producer_count.                                                         *)
RegisteredPrefix ==
    \A p \in Producers : ppc[p] # "unregistered" <=> p < producer_count

QueueInv == TypeInv /\ WaitQueueConsistent /\ RegisteredPrefix

LEMMA QueueInvInit == Init => QueueInv
<1> SUFFICES ASSUME Init PROVE QueueInv
    OBVIOUS
<1>1. TypeInv
    BY TypeInvInit
<1>2. Blocked = {}
    BY DEF Init, Blocked
<1>3. IsInjective(<<>>) /\ Range(<<>>) = {}
    BY DEF IsInjective, Range
<1>4. QED
    BY <1>1, <1>2, <1>3 DEF Init, QueueInv, WaitQueueConsistent, RegisteredPrefix,
                           None, Producers

(* The steps that leave the queue, the election, producer_count and the    *)
(* set of blocked producers alone, and that never reopen the channel.     *)
LEMMA QueueFrame ==
    ASSUME QueueInv, TypeInv',
           UNCHANGED <<producer_waiting_ids_queue, next_waiting_producer_id,
                       producer_count>>,
           Blocked' = Blocked,
           closed' \in {closed, TRUE},
           \A p \in Producers : (ppc'[p] # "unregistered") = (ppc[p] # "unregistered")
    PROVE  QueueInv'
BY DEF QueueInv, WaitQueueConsistent, RegisteredPrefix


LEMMA QueueInvStep == QueueInv /\ [Next]_vars => QueueInv'
<1> SUFFICES ASSUME QueueInv, [Next]_vars PROVE QueueInv'
    OBVIOUS
<1> DEFINE Q == producer_waiting_ids_queue
<1>ti. TypeInv'
    BY TypeInvStep DEF QueueInv
<1>t. /\ Q \in Seq(Producers)
      /\ ppc \in [Producers -> PStates]
      /\ producer_count \in 0 .. NMaxProducers
      /\ closed \in BOOLEAN
    BY DEF QueueInv, TypeInv, TypeOK
<1>w. /\ IsInjective(Q)
      /\ Blocked \subseteq Range(Q)
      /\ ~closed => Range(Q) = Blocked
      /\ next_waiting_producer_id # None =>
            Q # <<>> /\ next_waiting_producer_id = Head(Q)
      /\ RegisteredPrefix
    BY DEF QueueInv, WaitQueueConsistent
<1>1. CASE mpsc_register_producer
    <2> DEFINE k == producer_count
    <2>1. k \in Producers /\ ppc[k] = "unregistered"
        BY <1>1, <1>t, <1>w DEF mpsc_register_producer, RegisterAllowed,
                                RegisteredPrefix, Producers
    <2>2. ppc' = [ppc EXCEPT ![k] = "task"] /\ producer_count' = k + 1
        BY <1>1 DEF mpsc_register_producer
    <2>3. Blocked' = Blocked
        BY <1>t, <2>1, <2>2 DEF Blocked
    <2>4. RegisteredPrefix'
        BY <1>t, <1>w, <2>1, <2>2 DEF RegisteredPrefix, Producers
    <2>5. QED
        BY <1>1, <1>ti, <1>w, <2>3, <2>4 DEF mpsc_register_producer, QueueInv,
                                           WaitQueueConsistent
<1>2. CASE mpsc_consumer_close
    <2>1. ppc' = SignalProducers(CloseWakes)
        BY <1>2 DEF mpsc_consumer_close
    <2>2. Blocked' = Blocked
        BY <1>t, <2>1 DEF Blocked, SignalProducers
    <2>3. \A q \in Producers : (ppc'[q] # "unregistered") = (ppc[q] # "unregistered")
        BY <2>1 DEF SignalProducers
    <2>4. QED
        BY <1>2, <1>ti, <2>2, <2>3, QueueFrame DEF mpsc_consumer_close
<1>3. ASSUME NEW p \in Producers, NEW len \in 0 .. BufferSize,
             mpsc_producer_send(p, len)
      PROVE QueueInv'
    <2> DEFINE m == [from |-> p, seq |-> nsent[p] + 1, len |-> len]
    <2>0. ppc[p] = "task"
        BY <1>3 DEF mpsc_producer_send
    <2>1. CASE SendRejected
        BY <1>3, <1>ti, <2>1, QueueFrame DEF mpsc_producer_send, chan, threads, Blocked
    <2>2. CASE ~SendRejected /\ MustWait
        <3>1. /\ Q' = Append(Q, p)
              /\ ppc' = [ppc EXCEPT ![p] = "waiting"]
              /\ UNCHANGED <<closed, next_waiting_producer_id, producer_count>>
            BY <1>3, <2>2 DEF mpsc_producer_send, Subscribe
        <3>2. ~closed /\ p \notin Range(Q)
            BY <1>w, <2>0, <2>2 DEF SendRejected, Blocked
        <3>3. Blocked' = Blocked \cup {p}
            BY <1>t, <2>0, <3>1 DEF Blocked
        <3>4. Range(Q') = Range(Q) \cup {p} /\ IsInjective(Q')
            BY <1>t, <1>w, <3>1, <3>2, RangeAppend, InjectiveAppend
        <3>5. next_waiting_producer_id' # None => Q' # <<>> /\ next_waiting_producer_id' = Head(Q')
            BY <1>t, <1>w, <3>1, HeadAppend
        <3>6. RegisteredPrefix'
            BY <1>t, <1>w, <2>0, <3>1 DEF RegisteredPrefix
        <3>7. QED
            BY <1>ti, <1>w, <3>1, <3>2, <3>3, <3>4, <3>5, <3>6
               DEF QueueInv, WaitQueueConsistent
    <2>3. CASE ~SendRejected /\ ~MustWait
        BY <1>3, <1>ti, <2>3, QueueFrame DEF mpsc_producer_send, Deposit, Blocked
    <2>4. QED
        BY <2>1, <2>2, <2>3
<1>4. ASSUME NEW p \in Producers, SendAfterWait(p)
      PROVE QueueInv'
    <2>0. ppc[p] = "signalled"
        BY <1>4 DEF SendAfterWait
    <2>1. CASE ~closed /\ next_waiting_producer_id # p
        <3>1. ppc' = [ppc EXCEPT ![p] = "waiting"] /\ UNCHANGED chan
            BY <1>4, <2>1 DEF SendAfterWait
        <3>2. Blocked' = Blocked
            BY <1>t, <2>0, <3>1 DEF Blocked
        <3>3. QED
            BY <1>ti, <2>0, <3>1, <3>2, QueueFrame DEF chan
    <2>2. CASE closed
        <3>1. ppc' = [ppc EXCEPT ![p] = "task"] /\ UNCHANGED chan
            BY <1>4, <2>2 DEF SendAfterWait
        <3>2. Blocked' = Blocked \ {p}
            BY <1>t, <2>0, <3>1 DEF Blocked
        <3>3. RegisteredPrefix'
            BY <1>t, <1>w, <2>0, <3>1 DEF RegisteredPrefix, chan
        <3>4. QED
            BY <1>ti, <1>w, <2>2, <3>1, <3>2, <3>3 DEF QueueInv, WaitQueueConsistent, chan
    <2>3. CASE ~closed /\ next_waiting_producer_id = p
        <3>1. /\ Q' = Tail(Q)
              /\ next_waiting_producer_id' = None
              /\ ppc' = [ppc EXCEPT ![p] = "task"]
              /\ UNCHANGED <<closed, producer_count>>
            BY <1>4, <2>3 DEF SendAfterWait, ShiftWaitQueue
        <3>2. Q # <<>> /\ p = Head(Q)
            BY <1>w, <2>3 DEF Producers, None
        <3>3. Range(Q') = Range(Q) \ {p} /\ IsInjective(Q')
            BY <1>t, <1>w, <3>1, <3>2, TailShift
        <3>4. Blocked' = Blocked \ {p}
            BY <1>t, <2>0, <3>1 DEF Blocked
        <3>5. RegisteredPrefix'
            BY <1>t, <1>w, <2>0, <3>1 DEF RegisteredPrefix
        <3>6. QED
            BY <1>ti, <1>w, <2>3, <3>1, <3>3, <3>4, <3>5 DEF QueueInv, WaitQueueConsistent
    <2>4. QED
        BY <2>1, <2>2, <2>3
<1>5. ASSUME NEW p \in Producers, mpsc_producer_done(p)
      PROVE QueueInv'
    <2>1. ppc[p] = "task" /\ ppc' = [ppc EXCEPT ![p] = "exited"]
        BY <1>5 DEF mpsc_producer_done
    <2>2. Blocked' = Blocked
        BY <1>t, <2>1 DEF Blocked
    <2>3. closed' \in {closed, TRUE}
        BY <1>5 DEF mpsc_producer_done
    <2>4. QED
        BY <1>5, <1>ti, <1>t, <2>1, <2>2, <2>3, QueueFrame DEF mpsc_producer_done
<1>6. CASE ConsumerDelivers
    <2>1. CASE MayElect
        <3>1. /\ Q # <<>> /\ ~closed
              /\ next_waiting_producer_id' = Head(Q)
              /\ ppc' = SignalProducers({Head(Q)})
              /\ UNCHANGED <<closed, producer_count, producer_waiting_ids_queue>>
            BY <1>6, <2>1 DEF ConsumerDelivers, MayElect
        <3>2. Blocked' = Blocked
            BY <1>t, <3>1 DEF Blocked, SignalProducers
        <3>3. RegisteredPrefix'
            BY <1>w, <3>1 DEF RegisteredPrefix, SignalProducers
        <3>4. QED
            BY <1>ti, <1>w, <3>1, <3>2, <3>3 DEF QueueInv, WaitQueueConsistent
    <2>2. CASE ~MayElect
        BY <1>6, <1>ti, <2>2, QueueFrame DEF ConsumerDelivers, Blocked
    <2>3. QED
        BY <2>1, <2>2
<1>7. CASE ConsumerWaits \/ ConsumerBreaks \/ MallocFails
    BY <1>7, <1>ti, QueueFrame DEF ConsumerWaits, ConsumerBreaks, MallocFails, chan,
                                   Blocked
<1>8. CASE \/ ConsumerCallbackReturn \/ ErrorCallbackReturn \/ FinalCallbackReturn
           \/ SpuriousWakeupConsumer \/ JoinProducers \/ UNCHANGED vars
    BY <1>8, <1>ti, QueueFrame DEF ConsumerCallbackReturn, ErrorCallbackReturn,
                                   FinalCallbackReturn, SpuriousWakeupConsumer,
                                   JoinProducers, vars, chan, threads, Blocked
<1>9. CASE JoinStart \/ JoinConsumer
    BY <1>9, <1>ti, QueueFrame DEF JoinStart, JoinConsumer, chan, Blocked
<1>10. ASSUME NEW p \in Producers, SpuriousWakeupProducer(p)
       PROVE QueueInv'
    <2>1. ppc[p] = "waiting" /\ ppc' = [ppc EXCEPT ![p] = "signalled"]
        BY <1>10 DEF SpuriousWakeupProducer
    <2>2. Blocked' = Blocked
        BY <1>t, <2>1 DEF Blocked
    <2>3. QED
        BY <1>10, <1>ti, <1>t, <2>1, <2>2, QueueFrame DEF SpuriousWakeupProducer, chan
<1>11. QED
    BY <1>1, <1>2, <1>3, <1>4, <1>5, <1>6, <1>7, <1>8, <1>9, <1>10 DEF Next, ConsumerLoop

\* The wait queue of mpsc_producer_send holds the producers blocked in its
\* wait loop, each once, and an elected producer is its head, for every
\* number of producers: so mpsc_producer_subscribe_to_wait_queue never
\* overflows the queue or misses the producer, and
\* mpsc_shift_producer_wait_queue never runs on an empty queue (their
\* aborts at mpsc.c:367-400 are unreachable).
THEOREM WaitQueueSound == Spec => []WaitQueueConsistent
<1>1. Init => QueueInv
    BY QueueInvInit
<1>2. QueueInv /\ [Next]_vars => QueueInv'
    BY QueueInvStep
<1>3. QueueInv => WaitQueueConsistent
    BY DEF QueueInv
<1>4. QED
    BY <1>1, <1>2, <1>3, PTL DEF Spec

-----------------------------------------------------------------------------
(* Message conservation.  A send builds its message with the ordinal       *)
(* nsent[p] + 1 of its call, so it is none of the messages accepted so far;  *)
(* a blocked producer holds its own message, not yet accepted; the         *)
(* pending message is accepted and neither delivered nor dropped; and the   *)
(* consumer passes on or drops only accepted messages.  With these the      *)
(* deposit, the copy out of the slot and the drop each keep every accepted *)
(* message in exactly one place.                                           *)
SentBelowCount == \A m \in accepted : m.seq <= nsent[m.from]

BlockedHoldsOwn ==
    \A p \in Blocked :
        /\ send_msg[p].from = p
        /\ send_msg[p].seq = nsent[p]
        /\ send_msg[p] \notin accepted

PendingFresh ==
    pending_message =>
        buffer \in accepted /\ buffer \notin DeliveredSet /\ buffer \notin dropped

ConsumedAccepted == DeliveredSet \subseteq accepted /\ dropped \subseteq accepted

(* The consumer reaches its terminal callback only closed and drained, and *)
(* nothing deposits into a closed channel.                                 *)
ExitedDrained ==
    cpc \in {"final_callback", "exited"} => closed /\ ~pending_message

ConsInv ==
    /\ RefInv
    /\ SentBelowCount
    /\ BlockedHoldsOwn
    /\ PendingFresh
    /\ ConsumedAccepted
    /\ MessageConservation
    /\ ExitedDrained

LEMMA ConsInvInit == Init => ConsInv
<1> SUFFICES ASSUME Init PROVE ConsInv
    OBVIOUS
<1>1. RefInv
    BY RefInvInit
<1>2. Blocked = {} /\ DeliveredSet = {} /\ IsInjective(delivered)
    BY DEF Init, Blocked, DeliveredSet, Range, IsInjective
<1>3. QED
    BY <1>1, <1>2 DEF Init, ConsInv, SentBelowCount, BlockedHoldsOwn, PendingFresh,
                      ConsumedAccepted, MessageConservation, ExitedDrained

(* A step that moves no message and leaves nsent and the messages of the   *)
(* blocked producers alone, blocks nobody new, never reopens the channel   *)
(* and never brings the consumer to its terminal callback.                 *)
LEMMA ConsFrame ==
    ASSUME ConsInv, RefInv',
           UNCHANGED <<buffer, n, pending_message, nsent, send_msg,
                       accepted, delivered, dropped>>,
           Blocked' \subseteq Blocked,
           closed' \in {closed, TRUE},
           cpc' \in {"final_callback", "exited"} => cpc \in {"final_callback", "exited"}
    PROVE  ConsInv'
BY DEF ConsInv, SentBelowCount, BlockedHoldsOwn, PendingFresh, ConsumedAccepted,
       MessageConservation, ExitedDrained, DeliveredSet

(* A deposit of a message not accepted so far into the free slot of an     *)
(* open channel, whether by a fresh send or by the elected waiter.         *)
LEMMA DepositKeeps ==
    ASSUME ConsInv, RefInv', NEW p \in Producers, NEW m \in Msgs,
           ~closed, ~pending_message, m \notin accepted, m.from = p,
           Deposit(p, m), UNCHANGED <<closed, delivered, dropped>>,
           m.seq <= nsent'[p],
           nsent' \in [Producers -> Nat],
           \A q \in Producers : nsent[q] <= nsent'[q],
           \A q \in Blocked' : /\ q \in Blocked /\ q # p
                               /\ send_msg'[q] = send_msg[q]
                               /\ nsent'[q] = nsent[q]
    PROVE  ConsInv'
<1>t. /\ accepted \in SUBSET Msgs
      /\ nsent \in [Producers -> 0 .. MaxSends]
      /\ send_msg \in [Producers -> Msgs]
      /\ cpc \in CStates
    BY DEF ConsInv, RefInv, TypeInv, TypeOK
<1>1. /\ buffer' = m /\ n' = m.len /\ pending_message'
      /\ accepted' = accepted \cup {m}
      /\ cpc' = SignalConsumer
    BY DEF Deposit
<1>2. SentBelowCount'
    <2> SUFFICES ASSUME NEW a \in accepted' PROVE a.seq <= nsent'[a.from]
        BY DEF SentBelowCount
    <2>1. CASE a = m
        BY <2>1
    <2>2. CASE a \in accepted
        <3>1. a.seq <= nsent[a.from] /\ a.from \in Producers
            BY <2>2, <1>t, MsgFields DEF ConsInv, SentBelowCount
        <3>2. nsent[a.from] <= nsent'[a.from] /\ a.seq \in Nat
            BY <2>2, <1>t, <3>1, MsgFields
        <3>3. QED
            BY <1>t, <3>1, <3>2
    <2>3. QED
        BY <1>1, <2>1, <2>2
<1>3. BlockedHoldsOwn'
    <2> SUFFICES ASSUME NEW q \in Blocked'
                 PROVE /\ send_msg'[q].from = q
                       /\ send_msg'[q].seq = nsent'[q]
                       /\ send_msg'[q] \notin accepted'
        BY DEF BlockedHoldsOwn
    <2>1. q \in Blocked /\ q # p /\ send_msg'[q] = send_msg[q] /\ nsent'[q] = nsent[q]
        OBVIOUS
    <2>2. send_msg[q].from = q /\ send_msg[q].seq = nsent[q] /\ send_msg[q] \notin accepted
        BY <2>1 DEF ConsInv, BlockedHoldsOwn
    <2>3. send_msg[q] # m
        BY <2>1, <2>2
    <2>4. QED
        BY <1>1, <2>1, <2>2, <2>3
<1>4. m \notin DeliveredSet /\ m \notin dropped
    BY DEF ConsInv, ConsumedAccepted
<1>5. PendingFresh' /\ ConsumedAccepted'
    BY <1>1, <1>4 DEF ConsInv, ConsumedAccepted, PendingFresh, DeliveredSet
<1>6. MessageConservation'
    <2>1. \A a \in accepted : a \in DeliveredSet \/ a \in dropped
        BY DEF ConsInv, MessageConservation
    <2>2. QED
        BY <1>1, <2>1 DEF ConsInv, MessageConservation, DeliveredSet
<1>7. ExitedDrained'
    <2>1. cpc \notin {"final_callback", "exited"}
        BY DEF ConsInv, ExitedDrained
    <2>2. cpc' \notin {"final_callback", "exited"}
        BY <1>1, <2>1 DEF SignalConsumer
    <2>3. QED
        BY <2>2 DEF ExitedDrained
<1>8. QED
    BY <1>2, <1>3, <1>5, <1>6, <1>7 DEF ConsInv

LEMMA ConsInvStep == ConsInv /\ [Next]_vars => ConsInv'
<1> SUFFICES ASSUME ConsInv, [Next]_vars PROVE ConsInv'
    OBVIOUS
<1>ri. RefInv'
    BY RefInvStep DEF ConsInv
<1>t. /\ buffer \in Msgs
      /\ accepted \in SUBSET Msgs
      /\ nsent \in [Producers -> 0 .. MaxSends]
      /\ send_msg \in [Producers -> Msgs]
      /\ ppc \in [Producers -> PStates]
      /\ delivered \in Seq(Msgs)
      /\ cpc \in CStates
    BY DEF ConsInv, RefInv, TypeInv, TypeOK
<1>1. ASSUME NEW p \in Producers, NEW len \in 0 .. BufferSize,
             mpsc_producer_send(p, len)
      PROVE ConsInv'
    <2> DEFINE m == [from |-> p, seq |-> nsent[p] + 1, len |-> len]
    <2>0. /\ ppc[p] = "task"
          /\ nsent' = [nsent EXCEPT ![p] = @ + 1]
          /\ nsent' \in [Producers -> Nat]
          /\ \A q \in Producers : nsent[q] <= nsent'[q]
          /\ m \in Msgs
        BY <1>1, <1>t, MsgIntro DEF mpsc_producer_send
    <2>1. m \notin accepted
        BY <1>t, MsgFields DEF ConsInv, SentBelowCount
    <2>2. CASE SendRejected
        <3>1. UNCHANGED <<chan, threads, accepted, delivered, dropped, subscribed>>
            BY <1>1, <2>2 DEF mpsc_producer_send
        <3>2. SentBelowCount'
            BY <1>t, <2>0, <3>1, MsgFields DEF ConsInv, SentBelowCount
        <3>3. BlockedHoldsOwn'
            BY <2>0, <3>1 DEF ConsInv, BlockedHoldsOwn, Blocked, threads
        <3>4. QED
            BY <1>ri, <3>1, <3>2, <3>3 DEF ConsInv, PendingFresh, ConsumedAccepted,
                                           MessageConservation, ExitedDrained,
                                           DeliveredSet, chan, threads
    <2>3. CASE ~SendRejected /\ MustWait
        <3>1. /\ ppc' = [ppc EXCEPT ![p] = "waiting"]
              /\ send_msg' = [send_msg EXCEPT ![p] = m]
              /\ UNCHANGED <<buffer, n, pending_message, closed, accepted,
                             delivered, dropped, cpc>>
            BY <1>1, <2>3 DEF mpsc_producer_send, Subscribe
        <3>2. SentBelowCount'
            BY <1>t, <2>0, <3>1, MsgFields DEF ConsInv, SentBelowCount
        <3>3. BlockedHoldsOwn'
            <4> SUFFICES ASSUME NEW q \in Blocked'
                         PROVE /\ send_msg'[q].from = q
                               /\ send_msg'[q].seq = nsent'[q]
                               /\ send_msg'[q] \notin accepted'
                BY DEF BlockedHoldsOwn
            <4>1. CASE q = p
                BY <1>t, <2>0, <2>1, <3>1, <4>1
            <4>2. CASE q # p
                <5>1. q \in Blocked
                    BY <1>t, <3>1, <4>2 DEF Blocked
                <5>2. QED
                    BY <2>0, <3>1, <4>2, <5>1 DEF ConsInv, BlockedHoldsOwn
            <4>3. QED
                BY <4>1, <4>2
        <3>4. QED
            BY <1>ri, <3>1, <3>2, <3>3 DEF ConsInv, PendingFresh, ConsumedAccepted,
                                           MessageConservation, ExitedDrained,
                                           DeliveredSet
    <2>4. CASE ~SendRejected /\ ~MustWait
        <3>1. /\ Deposit(p, m)
              /\ UNCHANGED <<closed, delivered, dropped, ppc, send_msg>>
              /\ ~closed /\ ~pending_message
            BY <1>1, <2>4 DEF mpsc_producer_send, SendRejected, MustWait
        <3>2. \A q \in Blocked' : /\ q \in Blocked /\ q # p
                                  /\ send_msg'[q] = send_msg[q]
                                  /\ nsent'[q] = nsent[q]
            BY <2>0, <3>1 DEF Blocked
        <3>3. m.seq <= nsent'[p]
            BY <1>t, <2>0
        <3>4. QED
            BY <1>ri, <2>0, <2>1, <3>1, <3>2, <3>3, DepositKeeps
    <2>5. QED
        BY <2>2, <2>3, <2>4
<1>2. ASSUME NEW p \in Producers, SendAfterWait(p)
      PROVE ConsInv'
    <2>0. ppc[p] = "signalled"
        BY <1>2 DEF SendAfterWait
    <2>1. CASE ~closed /\ next_waiting_producer_id = p
        <3>1. /\ Deposit(p, send_msg[p])
              /\ ppc' = [ppc EXCEPT ![p] = "task"]
              /\ UNCHANGED <<closed, delivered, dropped, send_msg, nsent>>
            BY <1>2, <2>1 DEF SendAfterWait
        <3>2. ~pending_message
            BY <2>1 DEF ConsInv, RefInv, ElectedSlotFree, None, Producers
        <3>3. /\ send_msg[p].from = p
              /\ send_msg[p].seq = nsent[p]
              /\ send_msg[p] \notin accepted
            BY <2>0 DEF ConsInv, BlockedHoldsOwn, Blocked
        <3>4. \A q \in Blocked' : /\ q \in Blocked /\ q # p
                                  /\ send_msg'[q] = send_msg[q]
                                  /\ nsent'[q] = nsent[q]
            BY <1>t, <3>1 DEF Blocked
        <3>5. nsent' \in [Producers -> Nat] /\ \A q \in Producers : nsent[q] <= nsent'[q]
            BY <1>t, <3>1
        <3>6. QED
            BY <1>ri, <1>t, <2>1, <3>1, <3>2, <3>3, <3>4, <3>5, DepositKeeps
    <2>2. CASE ~(~closed /\ next_waiting_producer_id = p)
        <3>1. /\ UNCHANGED <<chan, send_msg, cpc, history>>
              /\ ppc' \in {[ppc EXCEPT ![p] = "waiting"], [ppc EXCEPT ![p] = "task"]}
            BY <1>2, <2>2 DEF SendAfterWait
        <3>2. Blocked' \subseteq Blocked
            BY <1>t, <2>0, <3>1 DEF Blocked
        <3>3. QED
            BY <1>ri, <3>1, <3>2, ConsFrame DEF chan, history
    <2>3. QED
        BY <2>1, <2>2
<1>3. CASE ConsumerDelivers
    <2> DEFINE rec == [from |-> buffer.from, seq |-> buffer.seq, len |-> n]
    <2>1. pending_message
        BY <1>3 DEF ConsumerDelivers, ConsumerMustExit
    <2>2. rec = buffer
        BY <1>t, <2>1, MsgEta DEF ConsInv, RefInv, SlotLen
    <2>3. /\ delivered' = Append(delivered, buffer)
          /\ ~pending_message'
          /\ cpc' = "callback"
          /\ UNCHANGED <<buffer, accepted, dropped, nsent, send_msg>>
        BY <1>3, <2>2 DEF ConsumerDelivers
    <2>4. buffer \in accepted /\ buffer \notin DeliveredSet /\ buffer \notin dropped
        BY <2>1 DEF ConsInv, PendingFresh
    <2>5. DeliveredSet' = DeliveredSet \cup {buffer} /\ IsInjective(delivered')
        BY <1>t, <2>3, <2>4, RangeAppend, InjectiveAppend DEF ConsInv,
           MessageConservation, DeliveredSet
    <2>6. Blocked' \subseteq Blocked
        <3>1. ppc' \in {ppc, SignalProducers({Head(producer_waiting_ids_queue)})}
            BY <1>3 DEF ConsumerDelivers
        <3>2. QED
            BY <1>t, <3>1 DEF Blocked, SignalProducers
    <2>7. MessageConservation'
        BY <2>3, <2>4, <2>5 DEF ConsInv, MessageConservation
    <2>8. QED
        BY <1>ri, <2>3, <2>4, <2>5, <2>6, <2>7 DEF ConsInv, SentBelowCount,
           BlockedHoldsOwn, PendingFresh, ConsumedAccepted, ExitedDrained
<1>4. CASE MallocFails
    <2>1. pending_message /\ buffer \in accepted /\ buffer \notin DeliveredSet
        BY <1>4 DEF MallocFails, ConsumerMustExit, ConsInv, PendingFresh
    <2>2. /\ dropped' = dropped \cup {buffer}
          /\ ~pending_message'
          /\ cpc' = "error_callback"
          /\ UNCHANGED <<buffer, accepted, delivered, nsent, send_msg, ppc>>
        BY <1>4 DEF MallocFails, DropPending
    <2>3. QED
        BY <1>ri, <2>1, <2>2 DEF ConsInv, SentBelowCount, BlockedHoldsOwn, Blocked,
           PendingFresh, ConsumedAccepted, MessageConservation, ExitedDrained,
           DeliveredSet
<1>5. CASE ConsumerBreaks
    <2>1. closed /\ ~pending_message /\ cpc' = "final_callback" /\ UNCHANGED <<chan, ppc, send_msg, history>>
        BY <1>5 DEF ConsumerBreaks, ConsumerMustExit
    <2>2. QED
        BY <1>ri, <2>1 DEF ConsInv, SentBelowCount, BlockedHoldsOwn, Blocked,
           PendingFresh, ConsumedAccepted, MessageConservation, ExitedDrained,
           DeliveredSet, chan, history
<1>6. ASSUME NEW p \in Producers, mpsc_producer_done(p)
      PROVE ConsInv'
    <2>1. /\ ppc[p] = "task" /\ ppc' = [ppc EXCEPT ![p] = "exited"]
          /\ closed' \in {closed, TRUE}
          /\ cpc' \in {cpc, SignalConsumer}
        BY <1>6 DEF mpsc_producer_done
    <2>2. Blocked' \subseteq Blocked
        BY <1>t, <2>1 DEF Blocked
    <2>3. QED
        BY <1>6, <1>ri, <2>1, <2>2, ConsFrame DEF mpsc_producer_done, history, SignalConsumer
<1>7. CASE \/ mpsc_register_producer \/ mpsc_consumer_close \/ ConsumerWaits
           \/ JoinStart \/ JoinConsumer
    <2>1. /\ ppc' \in {ppc, [ppc EXCEPT ![producer_count] = "task"],
                       SignalProducers(CloseWakes)}
          /\ closed' \in {closed, TRUE}
          /\ cpc' \in {cpc, SignalConsumer, "waiting"}
          /\ UNCHANGED <<buffer, n, pending_message, send_msg, history>>
        BY <1>7 DEF mpsc_register_producer, mpsc_consumer_close, ConsumerWaits,
                    JoinStart, JoinConsumer, chan
    <2>2. Blocked' \subseteq Blocked
        BY <1>t, <2>1 DEF Blocked, SignalProducers
    <2>3. QED
        BY <1>ri, <2>1, <2>2, ConsFrame DEF history, SignalConsumer
<1>8. CASE \/ ConsumerCallbackReturn \/ ErrorCallbackReturn \/ FinalCallbackReturn
           \/ SpuriousWakeupConsumer \/ JoinProducers \/ UNCHANGED vars
           \/ \E p \in Producers : SpuriousWakeupProducer(p)
    <2>1. /\ UNCHANGED <<chan, send_msg, history>>
          /\ \/ ppc' = ppc
             \/ \E p \in Producers : ppc[p] = "waiting" /\ ppc' = [ppc EXCEPT ![p] = "signalled"]
          /\ cpc' \in {"final_callback", "exited"} => cpc \in {"final_callback", "exited"}
        BY <1>8 DEF ConsumerCallbackReturn, ErrorCallbackReturn, FinalCallbackReturn,
                    SpuriousWakeupConsumer, JoinProducers, SpuriousWakeupProducer,
                    vars, threads
    <2>2. Blocked' \subseteq Blocked
        BY <1>t, <2>1 DEF Blocked
    <2>3. QED
        BY <1>ri, <2>1, <2>2, ConsFrame DEF chan, history
<1>9. QED
    BY <1>1, <1>2, <1>3, <1>4, <1>5, <1>6, <1>7, <1>8 DEF Next, ConsumerLoop

LEMMA ConsInvSpec == Spec => []ConsInv
BY ConsInvInit, ConsInvStep, PTL DEF Spec

\* P1/P2 for every number of producers, buffer size, send bound and error
\* policy: the consumer callback receives each message whose send returned
\* true exactly once, receives nothing else, and an accepted message not yet
\* received is still in the slot or was dropped on a consumer malloc
\* failure: the handoff from mpsc_producer_send to
\* my_consumer_thread_callback never overwrites or duplicates a message.
THEOREM Conservation == Spec => []MessageConservation
<1>1. ConsInv => MessageConservation
    BY DEF ConsInv
<1>2. QED
    BY <1>1, ConsInvSpec, PTL

\* P5 for every value of the constants: when my_consumer_thread_callback
\* leaves its loop for the terminal callback (closed = true), nothing is
\* pending and every accepted message was delivered or dropped, even when
\* the close came while a message was in the slot.
THEOREM DrainBeforeTerminal == Spec => []TerminalAfterDrain
<1>1. ConsInv => TerminalAfterDrain
    <2> SUFFICES ASSUME ConsInv, cpc \in {"final_callback", "exited"}
                 PROVE  ~pending_message /\ accepted \subseteq DeliveredSet \cup dropped
        BY DEF TerminalAfterDrain
    <2>1. ~pending_message
        BY DEF ConsInv, ExitedDrained
    <2>2. QED
        BY <2>1 DEF ConsInv, MessageConservation
<1>2. QED
    BY <1>1, ConsInvSpec, PTL

-----------------------------------------------------------------------------
(* FIFO handoff.  A message is dead once it can never be accepted: it was  *)
(* not, and its producer no longer waits holding it (it returned false on   *)
(* close, and its next send builds a new message).  The wait queue lists    *)
(* the blocked producers in the order they subscribed.  So when the elected *)
(* head deposits, every message subscribed before its own is delivered,    *)
(* dropped or dead, and the slot passes messages on one at a time.          *)
Dead(x) == x \notin accepted /\ ~(x.from \in Blocked /\ send_msg[x.from] = x)

SubscribedFresh ==
    /\ IsInjective(subscribed)
    /\ \A i \in DOMAIN subscribed : subscribed[i].seq <= nsent[subscribed[i].from]

BlockedSubscribed == \A p \in Blocked : send_msg[p] \in Range(subscribed)

SubscribedBefore(x, y) ==
    \E i, j \in DOMAIN subscribed : i < j /\ subscribed[i] = x /\ subscribed[j] = y

QueueOrder ==
    \A k, l \in DOMAIN producer_waiting_ids_queue :
        /\ k < l
        /\ producer_waiting_ids_queue[k] \in Blocked
        /\ producer_waiting_ids_queue[l] \in Blocked
        => SubscribedBefore(send_msg[producer_waiting_ids_queue[k]],
                            send_msg[producer_waiting_ids_queue[l]])

DropDisjoint == dropped \cap DeliveredSet = {}

InOrder(x, y) ==
    \E k, l \in DOMAIN delivered : k < l /\ delivered[k] = x /\ delivered[l] = y

(* y has reached the consumer or the slot; x was subscribed before it.      *)
InSlotOrOut(y) == y \in DeliveredSet \/ (pending_message /\ buffer = y)

Settled(x, y) ==
    \/ x \in dropped
    \/ Dead(x)
    \/ x \in DeliveredSet /\ (y \in DeliveredSet => InOrder(x, y))

HandoffOrder ==
    \A i, j \in DOMAIN subscribed :
        i < j /\ InSlotOrOut(subscribed[j]) => Settled(subscribed[i], subscribed[j])

FifoInv ==
    /\ ConsInv
    /\ QueueInv
    /\ SubscribedFresh
    /\ BlockedSubscribed
    /\ QueueOrder
    /\ DropDisjoint
    /\ HandoffOrder

LEMMA FifoInvInit == Init => FifoInv
<1> SUFFICES ASSUME Init PROVE FifoInv
    OBVIOUS
<1>1. ConsInv /\ QueueInv
    BY ConsInvInit, QueueInvInit
<1>2. Blocked = {} /\ DeliveredSet = {} /\ IsInjective(<<>>)
    BY DEF Init, Blocked, DeliveredSet, Range, IsInjective
<1>3. QED
    BY <1>1, <1>2 DEF Init, FifoInv, SubscribedFresh, BlockedSubscribed, QueueOrder,
                      DropDisjoint, HandoffOrder

LEMMA FifoInvImplies == FifoInv => FifoHandoff
<1> SUFFICES ASSUME FifoInv, NEW i \in DOMAIN subscribed, NEW j \in DOMAIN subscribed,
                    i < j, subscribed[i] \in DeliveredSet, subscribed[j] \in DeliveredSet
             PROVE  InOrder(subscribed[i], subscribed[j])
    BY DEF FifoHandoff, InOrder
<1>1. Settled(subscribed[i], subscribed[j])
    BY DEF FifoInv, HandoffOrder, InSlotOrOut
<1>2. subscribed[i] \notin dropped
    BY DEF FifoInv, DropDisjoint
<1>3. ~Dead(subscribed[i])
    BY DEF FifoInv, ConsInv, ConsumedAccepted, Dead
<1>4. QED
    BY <1>1, <1>2, <1>3 DEF Settled

(* The types the FIFO proof needs.                                          *)
LEMMA FifoTypes ==
    ASSUME FifoInv
    PROVE  /\ subscribed \in Seq(Msgs)
           /\ delivered \in Seq(Msgs)
           /\ producer_waiting_ids_queue \in Seq(Producers)
           /\ nsent \in [Producers -> 0 .. MaxSends]
           /\ send_msg \in [Producers -> Msgs]
           /\ ppc \in [Producers -> PStates]
           /\ accepted \in SUBSET Msgs
           /\ buffer \in Msgs
BY DEF FifoInv, ConsInv, RefInv, TypeInv, TypeOK

(* A step that moves no message, keeps the queue, only raises nsent and     *)
(* blocks nobody new.                                                      *)
LEMMA FifoFrame ==
    ASSUME FifoInv, ConsInv', QueueInv',
           UNCHANGED <<buffer, pending_message, subscribed, accepted, delivered,
                       dropped, send_msg, producer_waiting_ids_queue>>,
           nsent' \in [Producers -> Nat],
           \A q \in Producers : nsent[q] <= nsent'[q],
           Blocked' \subseteq Blocked
    PROVE  FifoInv'
<1>t. /\ subscribed \in Seq(Msgs)
      /\ nsent \in [Producers -> 0 .. MaxSends]
    BY FifoTypes
<1>1. SubscribedFresh'
    <2>1. \A i \in DOMAIN subscribed :
             /\ subscribed[i].from \in Producers
             /\ subscribed[i].seq \in Nat
        BY <1>t, MsgFields
    <2>2. QED
        BY <1>t, <2>1 DEF FifoInv, SubscribedFresh
<1>2. BlockedSubscribed' /\ QueueOrder'
    BY DEF FifoInv, BlockedSubscribed, QueueOrder, SubscribedBefore
<1>3. \A x \in Msgs : Dead(x) => Dead(x)'
    BY DEF Dead
<1>4. HandoffOrder'
    BY <1>3, <1>t DEF FifoInv, HandoffOrder, InSlotOrOut, Settled, InOrder, DeliveredSet
<1>5. QED
    BY <1>1, <1>2, <1>4 DEF FifoInv, DropDisjoint, DeliveredSet

(* A send that must wait appends its producer to the queue and its fresh   *)
(* message to the subscriptions, both at the end.                           *)
LEMMA FifoSubscribe ==
    ASSUME FifoInv, ConsInv', QueueInv', NEW p \in Producers, NEW m \in Msgs,
           ppc[p] = "task", ~closed, m.from = p, m.seq = nsent[p] + 1,
           producer_waiting_ids_queue' = Append(producer_waiting_ids_queue, p),
           ppc' = [ppc EXCEPT ![p] = "waiting"],
           send_msg' = [send_msg EXCEPT ![p] = m],
           subscribed' = Append(subscribed, m),
           nsent' = [nsent EXCEPT ![p] = @ + 1],
           UNCHANGED <<buffer, pending_message, accepted, delivered, dropped>>
    PROVE  FifoInv'
<1>t. /\ subscribed \in Seq(Msgs)
      /\ producer_waiting_ids_queue \in Seq(Producers)
      /\ nsent \in [Producers -> 0 .. MaxSends]
      /\ send_msg \in [Producers -> Msgs]
      /\ ppc \in [Producers -> PStates]
      /\ accepted \in SUBSET Msgs
    BY FifoTypes
<1>0. \A i \in DOMAIN subscribed : subscribed[i].from \in Producers /\ subscribed[i].seq \in Nat
    BY <1>t, MsgFields
<1>1. m \notin Range(subscribed)
    BY <1>0, <1>t DEF FifoInv, SubscribedFresh, Range
<1>2. m \notin accepted
    BY <1>t, MsgFields DEF FifoInv, ConsInv, SentBelowCount
<1>3. p \notin Blocked /\ Blocked' = Blocked \cup {p}
    BY <1>t DEF Blocked
<1>4. p \notin Range(producer_waiting_ids_queue)
    BY <1>3 DEF FifoInv, QueueInv, WaitQueueConsistent
<1>5. /\ DOMAIN subscribed' = 1 .. Len(subscribed) + 1
      /\ \A i \in 1 .. Len(subscribed) : subscribed'[i] = subscribed[i]
      /\ subscribed'[Len(subscribed) + 1] = m
    BY <1>t
<1>6. SubscribedFresh'
    <2>1. IsInjective(subscribed')
        BY <1>t, <1>1, InjectiveAppend DEF FifoInv, SubscribedFresh
    <2>2. ASSUME NEW i \in DOMAIN subscribed'
          PROVE  subscribed'[i].seq <= nsent'[subscribed'[i].from]
        <3>1. CASE i = Len(subscribed) + 1
            BY <1>5, <3>1, <1>t
        <3>2. CASE i \in 1 .. Len(subscribed)
            <4>1. subscribed[i].seq <= nsent[subscribed[i].from]
                BY <3>2 DEF FifoInv, SubscribedFresh
            <4>2. QED
                BY <1>0, <1>5, <1>t, <3>2, <4>1
        <3>3. QED
            BY <1>5, <3>1, <3>2
    <2>3. QED
        BY <2>1, <2>2 DEF SubscribedFresh
<1>7. Range(subscribed') = Range(subscribed) \cup {m}
    BY <1>t, RangeAppend
<1>8. BlockedSubscribed'
    BY <1>t, <1>3, <1>7 DEF FifoInv, BlockedSubscribed
<1>9. QueueOrder'
    <2> SUFFICES ASSUME NEW k \in DOMAIN producer_waiting_ids_queue',
                        NEW l \in DOMAIN producer_waiting_ids_queue', k < l,
                        producer_waiting_ids_queue'[k] \in Blocked',
                        producer_waiting_ids_queue'[l] \in Blocked'
                 PROVE  SubscribedBefore(send_msg[producer_waiting_ids_queue[k]],
                                         send_msg[producer_waiting_ids_queue[l]])'
        BY DEF QueueOrder
    <2>1. /\ k \in 1 .. Len(producer_waiting_ids_queue)
          /\ producer_waiting_ids_queue'[k] = producer_waiting_ids_queue[k]
          /\ producer_waiting_ids_queue[k] \in Blocked
          /\ producer_waiting_ids_queue[k] # p
          /\ send_msg'[producer_waiting_ids_queue[k]] = send_msg[producer_waiting_ids_queue[k]]
        BY <1>t, <1>3, <1>4 DEF Range
    <2>2. PICK i \in DOMAIN subscribed :
             subscribed[i] = send_msg[producer_waiting_ids_queue[k]]
        BY <1>t, <2>1 DEF FifoInv, BlockedSubscribed, Range
    <2>3. CASE l \in 1 .. Len(producer_waiting_ids_queue)
        <3>1. /\ producer_waiting_ids_queue'[l] = producer_waiting_ids_queue[l]
              /\ producer_waiting_ids_queue[l] \in Blocked
              /\ producer_waiting_ids_queue[l] # p
              /\ send_msg'[producer_waiting_ids_queue[l]] = send_msg[producer_waiting_ids_queue[l]]
            BY <1>t, <1>3, <1>4, <2>3 DEF Range
        <3>2. SubscribedBefore(send_msg[producer_waiting_ids_queue[k]],
                               send_msg[producer_waiting_ids_queue[l]])
            BY <2>1, <2>3, <3>1 DEF FifoInv, QueueOrder
        <3>3. PICK i1, j1 \in DOMAIN subscribed :
                 /\ i1 < j1
                 /\ subscribed[i1] = send_msg[producer_waiting_ids_queue[k]]
                 /\ subscribed[j1] = send_msg[producer_waiting_ids_queue[l]]
            BY <3>2 DEF SubscribedBefore
        <3>4. /\ i1 \in DOMAIN subscribed' /\ j1 \in DOMAIN subscribed'
              /\ subscribed'[i1] = send_msg'[producer_waiting_ids_queue'[k]]
              /\ subscribed'[j1] = send_msg'[producer_waiting_ids_queue'[l]]
            <4>0. DOMAIN subscribed = 1 .. Len(subscribed)
                BY <1>t
            <4>1. i1 \in 1 .. Len(subscribed) /\ j1 \in 1 .. Len(subscribed)
                BY <4>0, <3>3
            <4>2. subscribed'[i1] = subscribed[i1] /\ subscribed'[j1] = subscribed[j1]
                BY <1>5, <4>1
            <4>3. send_msg'[producer_waiting_ids_queue'[k]] = send_msg[producer_waiting_ids_queue[k]]
                BY <2>1
            <4>4. send_msg'[producer_waiting_ids_queue'[l]] = send_msg[producer_waiting_ids_queue[l]]
                BY <3>1
            <4>5. QED
                BY <1>5, <3>3, <4>1, <4>2, <4>3, <4>4
        <3>5. QED
            BY <3>3, <3>4 DEF SubscribedBefore
    <2>4. CASE l = Len(producer_waiting_ids_queue) + 1
        <3>1. producer_waiting_ids_queue'[l] = p /\ send_msg'[p] = m
            BY <1>t, <2>4
        <3>2. /\ i \in DOMAIN subscribed' /\ Len(subscribed) + 1 \in DOMAIN subscribed'
              /\ i < Len(subscribed) + 1
              /\ subscribed'[i] = send_msg'[producer_waiting_ids_queue'[k]]
              /\ subscribed'[Len(subscribed) + 1] = send_msg'[producer_waiting_ids_queue'[l]]
            <4>0. DOMAIN subscribed = 1 .. Len(subscribed)
                BY <1>t
            <4>1. i \in 1 .. Len(subscribed)
                BY <4>0, <2>2
            <4>2. subscribed'[i] = subscribed[i]
                BY <1>5, <4>1
            <4>3. send_msg'[producer_waiting_ids_queue'[k]] = send_msg[producer_waiting_ids_queue[k]]
                BY <2>1
            <4>4. QED
                BY <1>5, <2>2, <3>1, <4>1, <4>2, <4>3
        <3>3. QED
            BY <3>2 DEF SubscribedBefore
    <2>5. QED
        BY <1>t, <2>3, <2>4
<1>10. \A x \in Range(subscribed) : Dead(x) => Dead(x)'
    <2> SUFFICES ASSUME NEW x \in Range(subscribed), Dead(x) PROVE Dead(x)'
        OBVIOUS
    <2>1. x # m /\ x \in Msgs /\ x.from \in Producers
        BY <1>1, <1>t, MsgFields DEF Range
    <2>2. CASE x.from = p
        BY <1>t, <2>1, <2>2 DEF Dead
    <2>3. CASE x.from # p
        BY <1>t, <1>3, <2>1, <2>3 DEF Dead
    <2>4. QED
        BY <2>2, <2>3
<1>11. HandoffOrder'
    <2> SUFFICES ASSUME NEW i \in DOMAIN subscribed', NEW j \in DOMAIN subscribed',
                        i < j, InSlotOrOut(subscribed[j])'
                 PROVE  Settled(subscribed[i], subscribed[j])'
        BY DEF HandoffOrder
    <2>1. j # Len(subscribed) + 1
        <3>1. m \notin DeliveredSet /\ (pending_message => buffer # m)
            BY <1>2 DEF FifoInv, ConsInv, ConsumedAccepted, PendingFresh
        <3>2. QED
            BY <1>5, <3>1 DEF InSlotOrOut, DeliveredSet
    <2>2. i \in 1 .. Len(subscribed) /\ j \in 1 .. Len(subscribed)
        BY <1>5, <2>1
    <2>3. Settled(subscribed[i], subscribed[j])
        BY <1>5, <2>2 DEF FifoInv, HandoffOrder, InSlotOrOut, DeliveredSet
    <2>4. QED
        BY <1>5, <1>10, <2>2, <2>3 DEF Settled, InOrder, DeliveredSet, Range
<1>12. QED
    BY <1>6, <1>8, <1>9, <1>11 DEF FifoInv, DropDisjoint, DeliveredSet

(* A send that finds the slot free deposits a message built by that very   *)
(* send: it is in no subscription, so no ordering obligation starts.        *)
LEMMA FifoFreshDeposit ==
    ASSUME FifoInv, NEW m \in Msgs, m \notin Range(subscribed),
           buffer' = m, pending_message', accepted' = accepted \cup {m},
           nsent' \in [Producers -> Nat],
           \A q \in Producers : nsent[q] <= nsent'[q],
           UNCHANGED <<subscribed, delivered, dropped, send_msg,
                       producer_waiting_ids_queue, ppc>>,
           ConsInv', QueueInv'
    PROVE  FifoInv'
<1>t. /\ subscribed \in Seq(Msgs)
      /\ nsent \in [Producers -> 0 .. MaxSends]
    BY FifoTypes
<1>1. SubscribedFresh'
    <2>1. \A i \in DOMAIN subscribed :
             subscribed[i].from \in Producers /\ subscribed[i].seq \in Nat
        BY <1>t, MsgFields
    <2>2. QED
        BY <1>t, <2>1 DEF FifoInv, SubscribedFresh
<1>2. Blocked' = Blocked
    BY DEF Blocked
<1>3. BlockedSubscribed' /\ QueueOrder'
    BY <1>2 DEF FifoInv, BlockedSubscribed, QueueOrder, SubscribedBefore
<1>4. \A x \in Range(subscribed) : Dead(x) => Dead(x)'
    BY <1>2 DEF Dead
<1>5. HandoffOrder'
    <2> SUFFICES ASSUME NEW i \in DOMAIN subscribed, NEW j \in DOMAIN subscribed,
                        i < j, InSlotOrOut(subscribed[j])'
                 PROVE  Settled(subscribed[i], subscribed[j])'
        BY DEF HandoffOrder
    <2>1. subscribed[j] \in DeliveredSet
        BY DEF InSlotOrOut, DeliveredSet, Range
    <2>2. Settled(subscribed[i], subscribed[j])
        BY <2>1 DEF FifoInv, HandoffOrder, InSlotOrOut
    <2>3. subscribed[i] \in Range(subscribed)
        BY DEF Range
    <2>4. QED
        BY <1>4, <2>2, <2>3 DEF Settled, InOrder, DeliveredSet
<1>6. QED
    BY <1>1, <1>3, <1>5 DEF FifoInv, DropDisjoint, DeliveredSet

(* The consumer takes the pending message out: it is appended to what was  *)
(* delivered, after everything delivered before it.                         *)
LEMMA FifoDeliver ==
    ASSUME FifoInv, pending_message, delivered' = Append(delivered, buffer),
           ~pending_message', Blocked' \subseteq Blocked,
           UNCHANGED <<buffer, accepted, dropped, nsent, send_msg, subscribed,
                       producer_waiting_ids_queue>>,
           ConsInv', QueueInv'
    PROVE  FifoInv'
<1>t. delivered \in Seq(Msgs) /\ buffer \in Msgs
    BY FifoTypes
<1>0. buffer \notin DeliveredSet /\ buffer \notin dropped
    BY DEF FifoInv, ConsInv, PendingFresh
<1>1. /\ DOMAIN delivered' = 1 .. Len(delivered) + 1
      /\ \A k \in 1 .. Len(delivered) : delivered'[k] = delivered[k]
      /\ delivered'[Len(delivered) + 1] = buffer
    BY <1>t
<1>2. DeliveredSet' = DeliveredSet \cup {buffer}
    BY <1>t, RangeAppend DEF DeliveredSet
<1>3. SubscribedFresh' /\ BlockedSubscribed' /\ QueueOrder'
    <2>1. SubscribedFresh'
        BY DEF FifoInv, SubscribedFresh
    <2>2. BlockedSubscribed'
        BY DEF FifoInv, BlockedSubscribed
    <2>4. ASSUME NEW x, NEW y PROVE SubscribedBefore(x, y)' = SubscribedBefore(x, y)
        BY DEF SubscribedBefore
    <2>5. QueueOrder'
        BY <2>4 DEF FifoInv, QueueOrder
    <2>6. QED
        BY <2>1, <2>2, <2>5
<1>4. \A x : Dead(x) => Dead(x)'
    BY DEF Dead
<1>5. ASSUME NEW x, NEW y, InOrder(x, y) PROVE InOrder(x, y)'
    <2>1. PICK k, l \in DOMAIN delivered : k < l /\ delivered[k] = x /\ delivered[l] = y
        BY <1>5 DEF InOrder
    <2>2. k \in 1 .. Len(delivered) /\ l \in 1 .. Len(delivered)
        BY <1>t, <2>1
    <2>3. QED
        BY <1>1, <2>1, <2>2 DEF InOrder
<1>6. ASSUME NEW x \in DeliveredSet PROVE InOrder(x, buffer)'
    <2>1. PICK k \in DOMAIN delivered : delivered[k] = x
        BY <1>6 DEF DeliveredSet, Range
    <2>2. k \in 1 .. Len(delivered)
        BY <1>t, <2>1
    <2>3. QED
        BY <1>1, <2>1, <2>2 DEF InOrder
<1>7. HandoffOrder'
    <2> SUFFICES ASSUME NEW i \in DOMAIN subscribed, NEW j \in DOMAIN subscribed,
                        i < j, InSlotOrOut(subscribed[j])'
                 PROVE  Settled(subscribed[i], subscribed[j])'
        BY DEF HandoffOrder
    <2>1. subscribed[j] \in DeliveredSet \/ subscribed[j] = buffer
        BY <1>2 DEF InSlotOrOut
    <2>2. Settled(subscribed[i], subscribed[j])
        BY <2>1 DEF FifoInv, HandoffOrder, InSlotOrOut
    <2>3. CASE subscribed[i] \in dropped \/ Dead(subscribed[i])
        BY <1>4, <2>3 DEF Settled
    <2>4. CASE subscribed[i] \in DeliveredSet
               /\ (subscribed[j] \in DeliveredSet => InOrder(subscribed[i], subscribed[j]))
        <3>1. CASE subscribed[j] \in DeliveredSet
            BY <1>2, <1>5, <2>4, <3>1 DEF Settled
        <3>2. CASE subscribed[j] = buffer
            BY <1>2, <1>6, <2>4, <3>2 DEF Settled
        <3>3. QED
            BY <2>1, <3>1, <3>2
    <2>5. QED
        BY <2>2, <2>3, <2>4 DEF Settled
<1>8. QED
    BY <1>0, <1>2, <1>3, <1>7 DEF FifoInv, DropDisjoint

(* A consumer malloc failure drops the pending message.                    *)
LEMMA FifoDrop ==
    ASSUME FifoInv, pending_message, dropped' = dropped \cup {buffer},
           ~pending_message',
           UNCHANGED <<buffer, accepted, delivered, nsent, send_msg, ppc, subscribed,
                       producer_waiting_ids_queue>>,
           ConsInv', QueueInv'
    PROVE  FifoInv'
<1>0. buffer \notin DeliveredSet
    BY DEF FifoInv, ConsInv, PendingFresh
<1>1. Blocked' = Blocked
    BY DEF Blocked
<1>2. SubscribedFresh' /\ BlockedSubscribed' /\ QueueOrder'
    BY <1>1 DEF FifoInv, SubscribedFresh, BlockedSubscribed, QueueOrder, SubscribedBefore
<1>3. \A x : Dead(x) => Dead(x)'
    BY <1>1 DEF Dead
<1>4. HandoffOrder'
    <2> SUFFICES ASSUME NEW i \in DOMAIN subscribed, NEW j \in DOMAIN subscribed,
                        i < j, InSlotOrOut(subscribed[j])'
                 PROVE  Settled(subscribed[i], subscribed[j])'
        BY DEF HandoffOrder
    <2>1. Settled(subscribed[i], subscribed[j])
        BY DEF FifoInv, HandoffOrder, InSlotOrOut, DeliveredSet
    <2>2. QED
        BY <1>3, <2>1 DEF Settled, InOrder, DeliveredSet
<1>5. QED
    BY <1>0, <1>2, <1>4 DEF FifoInv, DropDisjoint, DeliveredSet

(* The elected waiter deposits its own message (mpsc.c, the shift after    *)
(* the wait loop).  It is the head of the wait queue, so every message     *)
(* subscribed before its own was accepted and has left the free slot, or  *)
(* is dead: a live one would sit in the queue after the head, and then it  *)
(* would have been subscribed after the head's message.                    *)
LEMMA FifoElectedDeposit ==
    ASSUME FifoInv, NEW p \in Producers, ppc[p] = "signalled", ~closed,
           next_waiting_producer_id = p,
           producer_waiting_ids_queue' = Tail(producer_waiting_ids_queue),
           buffer' = send_msg[p], pending_message',
           accepted' = accepted \cup {send_msg[p]},
           ppc' = [ppc EXCEPT ![p] = "task"],
           UNCHANGED <<send_msg, nsent, delivered, dropped, subscribed>>,
           ConsInv', QueueInv'
    PROVE  FifoInv'
<1>t. /\ subscribed \in Seq(Msgs)
      /\ producer_waiting_ids_queue \in Seq(Producers)
      /\ send_msg \in [Producers -> Msgs]
      /\ ppc \in [Producers -> PStates]
    BY FifoTypes
<1>1. ~pending_message
    BY DEF FifoInv, ConsInv, RefInv, ElectedSlotFree, None, Producers
<1>2. /\ producer_waiting_ids_queue # <<>>
      /\ p = Head(producer_waiting_ids_queue)
    BY DEF FifoInv, QueueInv, WaitQueueConsistent, None, Producers
<1>3. p \in Blocked /\ send_msg[p].from = p /\ send_msg[p] \notin accepted
    BY DEF FifoInv, ConsInv, BlockedHoldsOwn, Blocked
<1>4. Blocked' = Blocked \ {p}
    BY <1>t DEF Blocked
<1>5. SubscribedFresh' /\ BlockedSubscribed'
    BY <1>4 DEF FifoInv, SubscribedFresh, BlockedSubscribed
<1>6. QueueOrder'
    <2> SUFFICES ASSUME NEW k \in DOMAIN producer_waiting_ids_queue',
                        NEW l \in DOMAIN producer_waiting_ids_queue', k < l,
                        producer_waiting_ids_queue'[k] \in Blocked',
                        producer_waiting_ids_queue'[l] \in Blocked'
                 PROVE  SubscribedBefore(send_msg[producer_waiting_ids_queue[k]],
                                         send_msg[producer_waiting_ids_queue[l]])'
        BY DEF QueueOrder
    <2>1. /\ k + 1 \in DOMAIN producer_waiting_ids_queue
          /\ l + 1 \in DOMAIN producer_waiting_ids_queue
          /\ k + 1 < l + 1
          /\ producer_waiting_ids_queue'[k] = producer_waiting_ids_queue[k + 1]
          /\ producer_waiting_ids_queue'[l] = producer_waiting_ids_queue[l + 1]
        BY <1>t, <1>2
    <2>2. SubscribedBefore(send_msg[producer_waiting_ids_queue[k + 1]],
                           send_msg[producer_waiting_ids_queue[l + 1]])
        BY <1>4, <2>1 DEF FifoInv, QueueOrder
    <2>3. QED
        BY <2>1, <2>2 DEF SubscribedBefore
<1>7. \A x : Dead(x) => Dead(x)'
    BY <1>3, <1>4 DEF Dead
<1>8. HandoffOrder'
    <2> SUFFICES ASSUME NEW i \in DOMAIN subscribed, NEW j \in DOMAIN subscribed,
                        i < j, InSlotOrOut(subscribed[j])'
                 PROVE  Settled(subscribed[i], subscribed[j])'
        BY DEF HandoffOrder
    <2>1. CASE subscribed[j] \in DeliveredSet
        <3>1. Settled(subscribed[i], subscribed[j])
            BY <2>1 DEF FifoInv, HandoffOrder, InSlotOrOut
        <3>2. QED
            BY <1>7, <3>1 DEF Settled, InOrder, DeliveredSet
    <2>2. CASE subscribed[j] = send_msg[p]
        <3>1. send_msg[p] \notin DeliveredSet
            BY <1>3 DEF FifoInv, ConsInv, ConsumedAccepted
        <3>2. CASE subscribed[i] \in accepted
            <4>1. subscribed[i] \in DeliveredSet \/ subscribed[i] \in dropped
                BY <1>1, <3>2 DEF FifoInv, ConsInv, MessageConservation
            <4>2. QED
                BY <2>2, <3>1, <4>1 DEF Settled, DeliveredSet
        <3>3. CASE subscribed[i] \notin accepted /\ Dead(subscribed[i])
            BY <1>7, <3>3 DEF Settled
        <3>4. CASE subscribed[i] \notin accepted /\ ~Dead(subscribed[i])
            <4> DEFINE q == subscribed[i].from
            <4>1. q \in Blocked /\ send_msg[q] = subscribed[i]
                BY <3>4 DEF Dead
            <4>2. subscribed[i] # subscribed[j]
                BY <1>t DEF FifoInv, SubscribedFresh, IsInjective
            <4>3. q # p
                BY <2>2, <4>1, <4>2
            <4>4. PICK kq \in DOMAIN producer_waiting_ids_queue :
                     producer_waiting_ids_queue[kq] = q
                BY <4>1 DEF FifoInv, QueueInv, WaitQueueConsistent, Range
            <4>5. /\ 1 \in DOMAIN producer_waiting_ids_queue
                  /\ producer_waiting_ids_queue[1] = p
                  /\ 1 < kq
                BY <1>t, <1>2, <4>3, <4>4
            <4>6. SubscribedBefore(send_msg[p], send_msg[q])
                BY <1>3, <4>1, <4>4, <4>5 DEF FifoInv, QueueOrder
            <4>7. PICK i1, j1 \in DOMAIN subscribed :
                     /\ i1 < j1
                     /\ subscribed[i1] = subscribed[j]
                     /\ subscribed[j1] = subscribed[i]
                BY <2>2, <4>1, <4>6 DEF SubscribedBefore
            <4>8. i1 = j /\ j1 = i
                BY <4>7 DEF FifoInv, SubscribedFresh, IsInjective
            <4>9. QED
                BY <1>t, <4>7, <4>8
        <3>5. QED
            BY <3>2, <3>3, <3>4
    <2>3. QED
        BY <2>1, <2>2 DEF InSlotOrOut, DeliveredSet
<1>9. QED
    BY <1>5, <1>6, <1>8 DEF FifoInv, DropDisjoint, DeliveredSet

LEMMA FifoInvStep == FifoInv /\ [Next]_vars => FifoInv'
<1> SUFFICES ASSUME FifoInv, [Next]_vars PROVE FifoInv'
    OBVIOUS
<1>c. ConsInv' /\ QueueInv'
    BY ConsInvStep, QueueInvStep DEF FifoInv
<1>t. /\ subscribed \in Seq(Msgs)
      /\ nsent \in [Producers -> 0 .. MaxSends]
      /\ ppc \in [Producers -> PStates]
      /\ buffer \in Msgs
    BY FifoTypes
<1>n. nsent' = nsent => nsent' \in [Producers -> Nat] /\ \A q \in Producers : nsent[q] <= nsent'[q]
    BY <1>t
<1>1. ASSUME NEW p \in Producers, NEW len \in 0 .. BufferSize,
             mpsc_producer_send(p, len)
      PROVE FifoInv'
    <2> DEFINE m == [from |-> p, seq |-> nsent[p] + 1, len |-> len]
    <2>0. /\ ppc[p] = "task"
          /\ nsent' = [nsent EXCEPT ![p] = @ + 1]
          /\ nsent' \in [Producers -> Nat]
          /\ \A q \in Producers : nsent[q] <= nsent'[q]
          /\ m \in Msgs
        BY <1>1, <1>t, MsgIntro DEF mpsc_producer_send
    <2>2. CASE SendRejected
        <3>1. UNCHANGED <<chan, threads, accepted, delivered, dropped, subscribed>>
            BY <1>1, <2>2 DEF mpsc_producer_send
        <3>2. Blocked' = Blocked
            BY <3>1 DEF Blocked, threads
        <3>3. QED
            BY <1>c, <2>0, <3>1, <3>2, FifoFrame DEF chan, threads
    <2>3. CASE ~SendRejected /\ MustWait
        <3>1. /\ Subscribe(p, m)
              /\ ~closed
              /\ UNCHANGED <<buffer, pending_message, accepted, delivered, dropped>>
            BY <1>1, <2>3 DEF mpsc_producer_send, SendRejected
        <3>2. /\ m.from = p /\ m.seq = nsent[p] + 1
              /\ producer_waiting_ids_queue' = Append(producer_waiting_ids_queue, p)
              /\ ppc' = [ppc EXCEPT ![p] = "waiting"]
              /\ send_msg' = [send_msg EXCEPT ![p] = m]
              /\ subscribed' = Append(subscribed, m)
            BY <3>1 DEF Subscribe
        <3>3. QED
            BY <1>c, <2>0, <3>1, <3>2, FifoSubscribe, ZenonT(60)
    <2>4. CASE ~SendRejected /\ ~MustWait
        <3>1. /\ Deposit(p, m)
              /\ UNCHANGED <<delivered, dropped, ppc, send_msg, subscribed,
                             producer_waiting_ids_queue>>
            BY <1>1, <2>4 DEF mpsc_producer_send, SendRejected, MustWait
        <3>2. m \notin Range(subscribed)
            <4> SUFFICES ASSUME NEW i \in DOMAIN subscribed, subscribed[i] = m PROVE FALSE
                BY DEF Range
            <4>1. subscribed[i].seq <= nsent[subscribed[i].from]
                BY DEF FifoInv, SubscribedFresh
            <4>2. QED
                BY <1>t, <4>1
        <3>3. QED
            BY <1>c, <2>0, <3>1, <3>2, FifoFreshDeposit DEF Deposit
    <2>5. QED
        BY <2>2, <2>3, <2>4
<1>2. ASSUME NEW p \in Producers, SendAfterWait(p)
      PROVE FifoInv'
    <2>0. ppc[p] = "signalled"
        BY <1>2 DEF SendAfterWait
    <2>1. CASE ~closed /\ next_waiting_producer_id = p
        <3>1. /\ ShiftWaitQueue
              /\ Deposit(p, send_msg[p])
              /\ ppc' = [ppc EXCEPT ![p] = "task"]
              /\ UNCHANGED <<send_msg, nsent, delivered, dropped, subscribed>>
            BY <1>2, <2>1 DEF SendAfterWait
        <3>2. /\ producer_waiting_ids_queue' = Tail(producer_waiting_ids_queue)
              /\ buffer' = send_msg[p] /\ pending_message'
              /\ accepted' = accepted \cup {send_msg[p]}
            BY <3>1 DEF ShiftWaitQueue, Deposit
        <3>3. QED
            BY <1>c, <2>0, <2>1, <3>1, <3>2, FifoElectedDeposit, ZenonT(60)
    <2>2. CASE ~(~closed /\ next_waiting_producer_id = p)
        <3>1. /\ UNCHANGED <<chan, send_msg, history>>
              /\ ppc' \in {[ppc EXCEPT ![p] = "waiting"], [ppc EXCEPT ![p] = "task"]}
            BY <1>2, <2>2 DEF SendAfterWait
        <3>2. Blocked' \subseteq Blocked
            BY <1>t, <2>0, <3>1 DEF Blocked
        <3>3. QED
            BY <1>c, <1>n, <3>1, <3>2, FifoFrame DEF chan, history
    <2>3. QED
        BY <2>1, <2>2
<1>3. CASE ConsumerDelivers
    <2>1. pending_message
        BY <1>3 DEF ConsumerDelivers, ConsumerMustExit
    <2>2. [from |-> buffer.from, seq |-> buffer.seq, len |-> n] = buffer
        BY <1>t, <2>1, MsgEta DEF FifoInv, ConsInv, RefInv, SlotLen
    <2>3. /\ delivered' = Append(delivered, buffer)
          /\ ~pending_message'
          /\ UNCHANGED <<buffer, accepted, dropped, nsent, send_msg, subscribed,
                         producer_waiting_ids_queue>>
        BY <1>3, <2>2 DEF ConsumerDelivers
    <2>4. Blocked' \subseteq Blocked
        <3>1. ppc' \in {ppc, SignalProducers({Head(producer_waiting_ids_queue)})}
            BY <1>3 DEF ConsumerDelivers
        <3>2. QED
            BY <1>t, <3>1 DEF Blocked, SignalProducers
    <2>5. QED
        BY <1>c, <2>1, <2>3, <2>4, FifoDeliver
<1>4. CASE MallocFails
    <2>1. pending_message
        BY <1>4 DEF MallocFails, ConsumerMustExit
    <2>2. /\ dropped' = dropped \cup {buffer}
          /\ ~pending_message'
          /\ UNCHANGED <<buffer, accepted, delivered, nsent, send_msg, ppc, subscribed,
                         producer_waiting_ids_queue>>
        BY <1>4 DEF MallocFails, DropPending
    <2>3. QED
        BY <1>c, <2>1, <2>2, FifoDrop
<1>5. ASSUME NEW p \in Producers, mpsc_producer_done(p)
      PROVE FifoInv'
    <2>1. /\ ppc[p] = "task" /\ ppc' = [ppc EXCEPT ![p] = "exited"]
          /\ UNCHANGED <<buffer, pending_message, producer_waiting_ids_queue, send_msg, history>>
        BY <1>5 DEF mpsc_producer_done
    <2>2. Blocked' \subseteq Blocked
        BY <1>t, <2>1 DEF Blocked
    <2>3. QED
        BY <1>c, <1>n, <2>1, <2>2, FifoFrame DEF history
<1>6. CASE \/ mpsc_register_producer \/ mpsc_consumer_close \/ ConsumerWaits
           \/ ConsumerBreaks \/ JoinStart \/ JoinConsumer
    <2>1. /\ ppc' \in {ppc, [ppc EXCEPT ![producer_count] = "task"],
                       SignalProducers(CloseWakes)}
          /\ UNCHANGED <<buffer, pending_message, producer_waiting_ids_queue, send_msg,
                         history>>
        BY <1>6 DEF mpsc_register_producer, mpsc_consumer_close, ConsumerWaits,
                    ConsumerBreaks, JoinStart, JoinConsumer, chan
    <2>2. Blocked' \subseteq Blocked
        BY <1>t, <2>1 DEF Blocked, SignalProducers
    <2>3. QED
        BY <1>c, <1>n, <2>1, <2>2, FifoFrame DEF history
<1>7. CASE \/ ConsumerCallbackReturn \/ ErrorCallbackReturn \/ FinalCallbackReturn
           \/ SpuriousWakeupConsumer \/ JoinProducers \/ UNCHANGED vars
           \/ \E p \in Producers : SpuriousWakeupProducer(p)
    <2>1. /\ UNCHANGED <<chan, send_msg, history>>
          /\ \/ ppc' = ppc
             \/ \E p \in Producers : ppc[p] = "waiting" /\ ppc' = [ppc EXCEPT ![p] = "signalled"]
        BY <1>7 DEF ConsumerCallbackReturn, ErrorCallbackReturn, FinalCallbackReturn,
                    SpuriousWakeupConsumer, JoinProducers, SpuriousWakeupProducer,
                    vars, threads
    <2>2. Blocked' \subseteq Blocked
        BY <1>t, <2>1 DEF Blocked
    <2>3. QED
        BY <1>c, <1>n, <2>1, <2>2, FifoFrame DEF chan, history
<1>8. QED
    BY <1>1, <1>2, <1>3, <1>4, <1>5, <1>6, <1>7 DEF Next, ConsumerLoop

\* P4 for every value of the constants: two messages whose sends entered
\* the wait queue of mpsc_producer_send in some order reach the consumer
\* callback in that order, because my_consumer_thread_callback elects the
\* head of the queue and only the elected waiter may deposit.
THEOREM FifoOrder == Spec => []FifoHandoff
<1>1. Init => FifoInv
    BY FifoInvInit
<1>2. FifoInv /\ [Next]_vars => FifoInv'
    BY FifoInvStep
<1>3. FifoInv => FifoHandoff
    BY FifoInvImplies
<1>4. QED
    BY <1>1, <1>2, <1>3, PTL DEF Spec

====
