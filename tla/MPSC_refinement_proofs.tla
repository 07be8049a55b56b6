------------------------ MODULE MPSC_refinement_proofs ------------------------
(***************************************************************************)
(* The channel model MPSC implements the single-slot channel SlotChannel  *)
(* under the refinement mapping Abs of MPSC, for every value of the        *)
(* constants: the safety part, Init /\ [][Next]_avars.                     *)
(***************************************************************************)
EXTENDS MPSC_proofs

USE NMaxProducersAssumption, BufferSizeAssumption, ErrorHandlingAssumption,
    MaxSendsAssumption

-----------------------------------------------------------------------------
(* Messages are records with exactly the three fields.                     *)
LEMMA MsgEta ==
    \A m \in Msgs : m = [from |-> m.from, seq |-> m.seq, len |-> m.len]
BY DEF Msgs

(* Two facts the mapping needs besides the types.  The length of the slot  *)
(* is the length of the pending message (n is set with the buffer in the   *)
(* deposit).  While a waiter is elected the slot is free: the consumer     *)
(* elects as it empties the slot, and no send deposits until the elected   *)
(* one does.                                                               *)
SlotLen == pending_message => n = buffer.len

ElectedSlotFree == next_waiting_producer_id # None => ~pending_message

RefInv == TypeInv /\ SlotLen /\ ElectedSlotFree

LEMMA RefInvInit == Init => RefInv
BY TypeInvInit DEF Init, RefInv, SlotLen, ElectedSlotFree

LEMMA RefInvStep == RefInv /\ [Next]_vars => RefInv'
<1> SUFFICES ASSUME RefInv, [Next]_vars PROVE RefInv'
    OBVIOUS
<1>1. TypeInv'
    BY TypeInvStep DEF RefInv
<1>2. SlotLen /\ ElectedSlotFree
    BY DEF RefInv
<1>3. CASE \E p \in Producers, len \in 0 .. BufferSize : mpsc_producer_send(p, len)
    BY <1>1, <1>2, <1>3 DEF mpsc_producer_send, Subscribe, Deposit, MustWait,
                            SendRejected, RefInv, SlotLen, ElectedSlotFree, chan
<1>4. CASE \E p \in Producers : SendAfterWait(p)
    BY <1>1, <1>2, <1>4 DEF SendAfterWait, ShiftWaitQueue, Deposit, RefInv,
                            SlotLen, ElectedSlotFree, chan
<1>5. CASE ConsumerLoop
    BY <1>1, <1>2, <1>5 DEF ConsumerLoop, ConsumerWaits, ConsumerBreaks,
                            MallocFails, DropPending, ConsumerDelivers, RefInv,
                            SlotLen, ElectedSlotFree, chan
<1>6. CASE \/ mpsc_register_producer \/ mpsc_consumer_close
           \/ \E p \in Producers : mpsc_producer_done(p)
           \/ JoinStart \/ JoinConsumer \/ JoinProducers
    BY <1>1, <1>2, <1>6 DEF mpsc_register_producer, mpsc_consumer_close,
                            mpsc_producer_done, JoinStart, JoinConsumer,
                            JoinProducers, RefInv, SlotLen, ElectedSlotFree, chan
<1>7. CASE \/ ConsumerCallbackReturn \/ ErrorCallbackReturn \/ FinalCallbackReturn
           \/ SpuriousWakeupConsumer \/ \E p \in Producers : SpuriousWakeupProducer(p)
           \/ UNCHANGED vars
    BY <1>1, <1>2, <1>7 DEF ConsumerCallbackReturn, ErrorCallbackReturn,
                            FinalCallbackReturn, SpuriousWakeupConsumer,
                            SpuriousWakeupProducer, RefInv, SlotLen,
                            ElectedSlotFree, vars, chan
<1>8. QED
    BY <1>3, <1>4, <1>5, <1>6, <1>7 DEF Next

-----------------------------------------------------------------------------
(* A step that leaves the slot, closed and the three histories alone is a  *)
(* stutter of the abstract channel; one that only closes it is a Close or  *)
(* a stutter.                                                              *)
LEMMA StutterStep ==
    ASSUME UNCHANGED <<buffer, pending_message, closed, accepted, delivered, dropped>>
    PROVE  [Abs!Next]_Abs!avars
BY DEF Abs!avars

LEMMA CloseStep ==
    ASSUME UNCHANGED <<buffer, pending_message, accepted, delivered, dropped>>,
           closed' \in {closed, TRUE}
    PROVE  [Abs!Next]_Abs!avars
<1>1. CASE closed' = closed
    BY <1>1 DEF Abs!avars
<1>2. CASE closed' = TRUE /\ ~closed
    BY <1>2 DEF Abs!Next, Abs!Close
<1>3. CASE closed' = TRUE /\ closed
    BY <1>3 DEF Abs!avars
<1>4. QED
    BY <1>1, <1>2, <1>3

(* A deposit into the free slot of an open channel is an Accept.           *)
LEMMA DepositStep ==
    ASSUME NEW p \in Producers, NEW m \in Msgs,
           ~closed, ~pending_message, Deposit(p, m),
           UNCHANGED <<closed, delivered, dropped>>
    PROVE  [Abs!Next]_Abs!avars
<1>1. Abs!Accept(m)
    BY DEF Deposit, Abs!Accept
<1>2. QED
    BY <1>1 DEF Abs!Next

LEMMA RefStep == RefInv /\ [Next]_vars => [Abs!Next]_Abs!avars
<1> SUFFICES ASSUME RefInv, [Next]_vars PROVE [Abs!Next]_Abs!avars
    OBVIOUS
<1>t. /\ buffer \in Msgs
      /\ send_msg \in [Producers -> Msgs]
      /\ nsent \in [Producers -> 0 .. MaxSends]
    BY DEF RefInv, TypeInv, TypeOK
<1>1. ASSUME NEW p \in Producers, NEW len \in 0 .. BufferSize,
             mpsc_producer_send(p, len)
      PROVE [Abs!Next]_Abs!avars
    <2> DEFINE m == [from |-> p, seq |-> nsent[p] + 1, len |-> len]
    <2>1. CASE SendRejected \/ MustWait
        BY <1>1, <2>1, StutterStep DEF mpsc_producer_send, Subscribe, chan
    <2>2. CASE ~SendRejected /\ ~MustWait
        <3>0. nsent[p] + 1 \in 0 .. MaxSends
            BY <1>1, <1>t DEF mpsc_producer_send
        <3>1. m \in Msgs
            BY <3>0, MsgIntro
        <3>2. ~closed /\ ~pending_message
            BY <2>2 DEF SendRejected, MustWait
        <3>3. Deposit(p, m) /\ UNCHANGED <<closed, delivered, dropped>>
            BY <1>1, <2>2 DEF mpsc_producer_send
        <3>4. QED
            BY <3>1, <3>2, <3>3, DepositStep
    <2>3. QED
        BY <2>1, <2>2
<1>2. ASSUME NEW p \in Producers, SendAfterWait(p)
      PROVE [Abs!Next]_Abs!avars
    <2>1. CASE ~closed /\ next_waiting_producer_id = p
        <3>1. ~pending_message
            BY <2>1 DEF RefInv, ElectedSlotFree, Producers, None
        <3>2. send_msg[p] \in Msgs
            BY <1>t
        <3>3. Deposit(p, send_msg[p]) /\ UNCHANGED <<closed, delivered, dropped>>
            BY <1>2, <2>1 DEF SendAfterWait
        <3>4. QED
            BY <2>1, <3>1, <3>2, <3>3, DepositStep
    <2>2. CASE ~(~closed /\ next_waiting_producer_id = p)
        BY <1>2, <2>2, StutterStep DEF SendAfterWait, chan, history
    <2>3. QED
        BY <2>1, <2>2
<1>3. CASE MallocFails
    <2>1. Abs!Drop
        BY <1>3 DEF MallocFails, DropPending, ConsumerMustExit, Abs!Drop
    <2>2. QED
        BY <2>1 DEF Abs!Next
<1>4. CASE ConsumerDelivers
    <2>1. pending_message /\ n = buffer.len
        BY <1>4 DEF ConsumerDelivers, ConsumerMustExit, RefInv, SlotLen
    <2>2. [from |-> buffer.from, seq |-> buffer.seq, len |-> n] = buffer
        BY <1>t, <2>1, MsgEta
    <2>3. Abs!Deliver
        BY <1>4, <2>1, <2>2 DEF ConsumerDelivers, Abs!Deliver
    <2>4. QED
        BY <2>3 DEF Abs!Next
<1>5. CASE ConsumerWaits \/ ConsumerBreaks
    BY <1>5, StutterStep DEF ConsumerWaits, ConsumerBreaks, chan, history
<1>6. CASE \/ mpsc_consumer_close \/ JoinStart \/ JoinConsumer
           \/ \E p \in Producers : mpsc_producer_done(p)
    BY <1>6, CloseStep DEF mpsc_consumer_close, JoinStart, JoinConsumer,
                           mpsc_producer_done, history
<1>7. CASE \/ mpsc_register_producer \/ JoinProducers
           \/ ConsumerCallbackReturn \/ ErrorCallbackReturn \/ FinalCallbackReturn
           \/ SpuriousWakeupConsumer \/ \E p \in Producers : SpuriousWakeupProducer(p)
           \/ UNCHANGED vars
    BY <1>7, StutterStep DEF mpsc_register_producer, JoinProducers,
                             ConsumerCallbackReturn, ErrorCallbackReturn,
                             FinalCallbackReturn, SpuriousWakeupConsumer,
                             SpuriousWakeupProducer, vars, chan, history
<1>8. QED
    BY <1>1, <1>2, <1>3, <1>4, <1>5, <1>6, <1>7 DEF Next, ConsumerLoop

\* The threads of mpsc.c implement the single-slot channel, for every
\* number of producers, buffer size, send bound and error policy: every
\* step of send, of the consumer loop, of close, producer_done and join is
\* an Accept into the empty slot of an open channel, a Deliver of the slot's
\* message with its length, a Drop (only under the Report policy), a Close,
\* or leaves what the user sees unchanged.
THEOREM ImplementsSlotChannelSafety == Spec => Abs!SafeSpec
<1>1. Init => Abs!Init
    BY DEF Init, Abs!Init
<1>2. Init => RefInv
    BY RefInvInit
<1>3. RefInv /\ [Next]_vars => RefInv' /\ [Abs!Next]_Abs!avars
    BY RefInvStep, RefStep
<1>4. QED
    BY <1>1, <1>2, <1>3, PTL DEF Spec, Abs!SafeSpec

=============================================================================
