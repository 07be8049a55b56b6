---------------------------- MODULE MPSC010_proofs ----------------------------
(***************************************************************************)
(* Proofs about revision 0.1.0 of the channel (MPSC010), for every value  *)
(* of the constants: the model is well typed, the recursive retry of       *)
(* mpsc_producer_send stays within MaxDepth frames, and the revision       *)
(* implements the safety part of the single-slot channel SlotChannel.      *)
(***************************************************************************)
EXTENDS MPSC010, TLAPS

USE NMaxProducers010Assumption, BufferSize010Assumption,
    ErrorHandling010Assumption, MaxSends010Assumption, MaxDepthAssumption

-----------------------------------------------------------------------------
(* Messages are records with exactly the three fields.                     *)
LEMMA MsgIntro010 ==
    \A p \in Producers, s \in 0 .. MaxSends, l \in 0 .. BufferSize :
        [from |-> p, seq |-> s, len |-> l] \in Msgs
BY DEF Msgs

LEMMA MsgFields010 ==
    \A m \in Msgs : m.from \in Producers /\ m.seq \in 0 .. MaxSends /\ m.len \in 0 .. BufferSize
BY DEF Msgs

LEMMA MsgEta010 ==
    \A m \in Msgs : m = [from |-> m.from, seq |-> m.seq, len |-> m.len]
BY DEF Msgs

-----------------------------------------------------------------------------
(* The length of the pending slot is the length of its message: n is set  *)
(* with the buffer in the deposit and cleared with pending_message.  The   *)
(* consumer's copy [from, seq, len |-> n] is then the slot's message.      *)
SlotLen010 == pending_message => n = buffer.len

RefInv010 == TypeOK /\ SlotLen010

CStates010 == {"top", "waiting", "signalled", "callback", "error_callback",
               "final_callback", "exited"}

LEMMA RefInv010Init == Init => RefInv010
<1>1. NoMsg \in Msgs
    BY DEF NoMsg, Msgs, Producers
<1> SUFFICES ASSUME Init PROVE RefInv010
    OBVIOUS
<1>2. buffer \in Msgs /\ n \in 0 .. BufferSize /\ send_msg \in [Producers -> Msgs]
    BY <1>1 DEF Init
<1>3. /\ ppc \in [Producers -> {"unregistered", "task", "retrying", "exited"}]
      /\ depth \in [Producers -> 0 .. MaxDepth]
      /\ nsent \in [Producers -> 0 .. MaxSends]
    BY DEF Init
<1>4. delivered \in Seq(Msgs) /\ accepted \in SUBSET Msgs /\ dropped \in SUBSET Msgs
    BY DEF Init
<1>5. /\ pending_message \in BOOLEAN /\ closed \in BOOLEAN /\ joined \in BOOLEAN
      /\ consumer_closed \in BOOLEAN
    BY DEF Init
<1>9. n_producers_closed \in Nat /\ producer_count \in 0 .. NMaxProducers
    BY DEF Init
<1>6. cpc \in CStates010 /\ mpc \in {"running", "joining_consumer", "joining_producers", "destroyed"}
    BY DEF Init, CStates010
<1>7. SlotLen010
    BY DEF Init, SlotLen010
<1>8. QED
    BY <1>2, <1>3, <1>4, <1>5, <1>6, <1>7, <1>9 DEF RefInv010, TypeOK, CStates010

(* One call of mpsc_producer_send under the lock, for a message of the     *)
(* right type: every variable it writes keeps its type, the recursion      *)
(* stays within MaxDepth, and a deposit sets n to the message's length.    *)
LEMMA SendCallInv ==
    ASSUME RefInv010, NEW p \in Producers, NEW m \in Msgs, SendCall(p, m)
    PROVE  /\ buffer' \in Msgs
           /\ n' \in 0 .. BufferSize
           /\ pending_message' \in BOOLEAN
           /\ UNCHANGED <<closed, joined, n_producers_closed, producer_count>>
           /\ ppc' \in [Producers -> {"unregistered", "task", "retrying", "exited"}]
           /\ depth' \in [Producers -> 0 .. MaxDepth]
           /\ send_msg' \in [Producers -> Msgs]
           /\ cpc' \in CStates010
           /\ accepted' \in SUBSET Msgs
           /\ SlotLen010'
<1>t. /\ buffer \in Msgs /\ n \in 0 .. BufferSize
      /\ ppc \in [Producers -> {"unregistered", "task", "retrying", "exited"}]
      /\ depth \in [Producers -> 0 .. MaxDepth]
      /\ send_msg \in [Producers -> Msgs]
      /\ cpc \in CStates010
      /\ accepted \in SUBSET Msgs
      /\ pending_message \in BOOLEAN
    BY DEF RefInv010, TypeOK, CStates010
<1>1. CASE closed /\ ppc' = [ppc EXCEPT ![p] = "task"]
                  /\ depth' = [depth EXCEPT ![p] = 0]
                  /\ UNCHANGED <<chan, send_msg, cpc, accepted>>
    BY <1>t, <1>1 DEF chan, RefInv010, SlotLen010
<1>2. CASE /\ ~closed /\ SlotBusy /\ depth[p] < MaxDepth
           /\ ppc' = [ppc EXCEPT ![p] = "retrying"]
           /\ depth' = [depth EXCEPT ![p] = @ + 1]
           /\ send_msg' = [send_msg EXCEPT ![p] = m]
           /\ UNCHANGED <<chan, cpc, accepted>>
    BY <1>t, <1>2 DEF chan, RefInv010, SlotLen010
<1>3. CASE /\ ~closed /\ ~SlotBusy
           /\ buffer' = m /\ n' = m.len /\ pending_message' = TRUE
           /\ cpc' = SignalConsumer /\ accepted' = accepted \cup {m}
           /\ ppc' = [ppc EXCEPT ![p] = "task"]
           /\ depth' = [depth EXCEPT ![p] = 0]
           /\ UNCHANGED <<closed, joined, n_producers_closed, producer_count, send_msg>>
    BY <1>t, <1>3, MsgFields010 DEF SlotLen010, SignalConsumer, CStates010
<1>4. QED
    BY <1>1, <1>2, <1>3 DEF SendCall

LEMMA RefInv010Step == RefInv010 /\ [Next]_vars => RefInv010'
<1> SUFFICES ASSUME RefInv010, [Next]_vars PROVE RefInv010'
    OBVIOUS
<1>t. /\ buffer \in Msgs /\ n \in 0 .. BufferSize
      /\ n_producers_closed \in Nat
      /\ producer_count \in 0 .. NMaxProducers
      /\ ppc \in [Producers -> {"unregistered", "task", "retrying", "exited"}]
      /\ send_msg \in [Producers -> Msgs]
      /\ nsent \in [Producers -> 0 .. MaxSends]
      /\ delivered \in Seq(Msgs)
      /\ dropped \in SUBSET Msgs
    BY DEF RefInv010, TypeOK
<1>1. ASSUME NEW p \in Producers, NEW len \in 0 .. BufferSize,
             mpsc_producer_send(p, len)
      PROVE  RefInv010'
    <2> DEFINE m == [from |-> p, seq |-> nsent[p] + 1, len |-> len]
    <2>1. nsent[p] < MaxSends /\ nsent' = [nsent EXCEPT ![p] = @ + 1]
        BY <1>1 DEF mpsc_producer_send
    <2>2. m \in Msgs /\ nsent' \in [Producers -> 0 .. MaxSends]
        BY <1>t, <2>1, MsgIntro010
    <2>3. SendCall(p, m) /\ UNCHANGED <<mpc, delivered, dropped, consumer_closed>>
        BY <1>1 DEF mpsc_producer_send
    <2>4. QED
        BY <2>2, <2>3, SendCallInv DEF RefInv010, TypeOK, CStates010
<1>2. ASSUME NEW p \in Producers, SendRetry(p) PROVE RefInv010'
    <2>1. send_msg[p] \in Msgs
        BY <1>t
    <2>2. SendCall(p, send_msg[p]) /\ UNCHANGED <<mpc, nsent, delivered, dropped, consumer_closed>>
        BY <1>2 DEF SendRetry
    <2>3. QED
        BY <2>1, <2>2, SendCallInv DEF RefInv010, TypeOK, CStates010
<1>3. CASE mpsc_register_producer
    <2>1. producer_count \in Producers
        BY <1>t, <1>3 DEF mpsc_register_producer, RegisterAllowed010, Producers
    <2>2. /\ ppc' \in [Producers -> {"unregistered", "task", "retrying", "exited"}]
          /\ producer_count' \in 0 .. NMaxProducers
        BY <1>t, <1>3, <2>1 DEF mpsc_register_producer, Producers
    <2>3. QED
        BY <1>3, <2>2 DEF mpsc_register_producer, RefInv010, TypeOK, SlotLen010
<1>4. ASSUME NEW p \in Producers, mpsc_producer_done(p) PROVE RefInv010'
    <2>1. /\ ppc' \in [Producers -> {"unregistered", "task", "retrying", "exited"}]
          /\ n_producers_closed' \in Nat
        BY <1>t, <1>4 DEF mpsc_producer_done
    <2>2. closed' \in BOOLEAN /\ cpc' \in CStates010
        <3>1. CASE AllTasksDone
            BY <1>4, <3>1 DEF mpsc_producer_done, SignalConsumer, CStates010, RefInv010, TypeOK
        <3>2. CASE ~AllTasksDone
            BY <1>4, <3>2 DEF mpsc_producer_done, CStates010, RefInv010, TypeOK
        <3>3. QED
            BY <3>1, <3>2
    <2>3. UNCHANGED <<buffer, n, pending_message, joined, producer_count, depth,
                      send_msg, mpc, nsent, accepted, delivered, dropped, consumer_closed>>
        BY <1>4 DEF mpsc_producer_done
    <2>4. QED
        BY <2>1, <2>2, <2>3 DEF RefInv010, TypeOK, SlotLen010, CStates010
<1>5. CASE ConsumerLoop
    <2>1. [from |-> buffer.from, seq |-> buffer.seq, len |-> n] \in Msgs
        BY <1>t, MsgIntro010, MsgFields010
    <2>0. cpc \in {"top", "signalled"}
        BY <1>5 DEF ConsumerLoop
    <2>2. /\ delivered' \in Seq(Msgs)
          /\ dropped' \in SUBSET Msgs
          /\ n' \in 0 .. BufferSize
          /\ pending_message' \in BOOLEAN
          /\ cpc' \in CStates010
          /\ SlotLen010'
        <3>1. CASE /\ ~pending_message /\ ~closed
                   /\ cpc' = "waiting"
                   /\ UNCHANGED <<chan, delivered, dropped>>
            BY <1>t, <3>1 DEF chan, CStates010, SlotLen010, RefInv010, TypeOK
        <3>2. CASE /\ cpc' = "final_callback"
                   /\ UNCHANGED <<chan, delivered, dropped>>
            BY <1>t, <3>2 DEF chan, CStates010, SlotLen010, RefInv010, TypeOK
        <3>3. CASE /\ DropPending010
                   /\ cpc' = "error_callback"
            <4>1. n' = 0 /\ pending_message' = FALSE /\ dropped' = dropped \cup {buffer}
                BY <3>3 DEF DropPending010
            <4>2. dropped' \in SUBSET Msgs
                BY <1>t, <4>1
            <4>3. SlotLen010'
                BY <4>1 DEF SlotLen010
            <4>4. UNCHANGED delivered
                BY <1>5, <3>3, <4>1 DEF ConsumerLoop, DropPending010
            <4>5. n' \in 0 .. BufferSize /\ pending_message' \in BOOLEAN
                <5>1. n' = 0 /\ pending_message' = FALSE
                    BY <4>1
                <5>2. n' \in 0 .. BufferSize
                    BY <5>1, BufferSize010Assumption
                <5>3. pending_message' \in BOOLEAN
                    BY <5>1, Zenon
                <5>4. QED
                    BY <5>2, <5>3
            <4>6. cpc' \in CStates010
                BY <3>3 DEF CStates010
            <4>7. delivered' \in Seq(Msgs)
                BY <1>t, <4>4
            <4>8. QED
                BY <4>2, <4>3, <4>5, <4>6, <4>7
        <3>4. CASE /\ delivered' = Append(delivered,
                            [from |-> buffer.from, seq |-> buffer.seq, len |-> n])
                   /\ n' = 0
                   /\ pending_message' = FALSE
                   /\ cpc' = "callback"
                   /\ UNCHANGED dropped
            <4>1. delivered' \in Seq(Msgs)
                BY <1>t, <2>1, <3>4
            <4>2. SlotLen010'
                BY <3>4 DEF SlotLen010
            <4>3. n' \in 0 .. BufferSize /\ pending_message' \in BOOLEAN
                <5>1. n' = 0 /\ pending_message' = FALSE
                    BY <3>4
                <5>2. n' \in 0 .. BufferSize
                    BY <5>1, BufferSize010Assumption
                <5>3. pending_message' \in BOOLEAN
                    BY <5>1, Zenon
                <5>4. QED
                    BY <5>2, <5>3
            <4>4. cpc' \in CStates010
                BY <3>4 DEF CStates010
            <4>5. dropped' \in SUBSET Msgs
                BY <1>t, <3>4
            <4>6. QED
                BY <4>1, <4>2, <4>3, <4>4, <4>5
        <3>5. QED
            BY <1>5, <3>1, <3>2, <3>3, <3>4 DEF ConsumerLoop
    <2>3. UNCHANGED <<buffer, closed, joined, n_producers_closed, producer_count,
                      ppc, depth, send_msg, mpc, nsent, accepted, consumer_closed>>
        BY <1>5 DEF ConsumerLoop, chan
    <2>4. QED
        BY <2>2, <2>3 DEF RefInv010, TypeOK, CStates010
<1>6. CASE \/ mpsc_consumer_close \/ CallbackReturn \/ JoinStart \/ JoinConsumer
           \/ JoinProducers \/ SpuriousWakeupConsumer \/ UNCHANGED vars
    <2>1. /\ UNCHANGED <<buffer, n, pending_message, n_producers_closed, producer_count,
                         ppc, depth, send_msg, nsent, accepted, delivered, dropped>>
          /\ closed' \in BOOLEAN /\ joined' \in BOOLEAN /\ consumer_closed' \in BOOLEAN
          /\ cpc' \in CStates010
          /\ mpc' \in {"running", "joining_consumer", "joining_producers", "destroyed"}
        BY <1>6 DEF mpsc_consumer_close, CallbackReturn, JoinStart, JoinConsumer,
                    JoinProducers, SpuriousWakeupConsumer, vars, chan, RefInv010,
                    TypeOK, CStates010
    <2>2. QED
        BY <2>1 DEF RefInv010, TypeOK, SlotLen010, CStates010
<1>7. QED
    BY <1>1, <1>2, <1>3, <1>4, <1>5, <1>6 DEF Next

\* Revision 0.1.0 is well typed for every value of the constants: the
\* recursion of mpsc_producer_send on a busy slot stays within MaxDepth
\* frames (the bound the model puts on it), producer_count within
\* n_max_producers, and the consumer's copy of the slot is a message.
THEOREM TypeCorrect010 == Spec => []TypeOK
<1>1. RefInv010 => TypeOK
    BY DEF RefInv010
<1>2. QED
    BY <1>1, RefInv010Init, RefInv010Step, PTL DEF Spec


-----------------------------------------------------------------------------
(* The refinement mapping Abs of MPSC010.  A step that leaves the slot,    *)
(* closed and the three histories alone is an abstract stutter; one that   *)
(* only closes the channel is a Close or a stutter.                        *)
LEMMA StutterStep010 ==
    ASSUME UNCHANGED <<buffer, pending_message, closed, accepted, delivered, dropped>>
    PROVE  [Abs!Next]_Abs!avars
BY DEF Abs!avars

LEMMA CloseStep010 ==
    ASSUME UNCHANGED <<buffer, pending_message, accepted, delivered, dropped>>,
           closed' \in {closed, TRUE}
    PROVE  [Abs!Next]_Abs!avars
<1>1. CASE closed' = closed
    BY <1>1 DEF Abs!avars
<1>2. CASE closed' = TRUE /\ ~closed
    BY <1>2 DEF Abs!Next, Abs!Close
<1>3. CASE closed' = TRUE /\ closed
    BY <1>3 DEF Abs!avars
<1>4. QED
    BY <1>1, <1>2, <1>3

(* One call of mpsc_producer_send: a return on a closed channel and a      *)
(* recursion on a busy slot leave the abstract channel alone, and the      *)
(* deposit is an Accept of m: it happens only on an open channel with an   *)
(* empty slot, the test of pending_message that the recursion retries.     *)
LEMMA SendCallStep ==
    ASSUME NEW p \in Producers, NEW m \in Msgs, SendCall(p, m),
           UNCHANGED <<delivered, dropped>>
    PROVE  [Abs!Next]_Abs!avars
<1>1. CASE closed /\ UNCHANGED <<chan, accepted>>
    BY <1>1, StutterStep010 DEF chan
<1>2. CASE ~closed /\ SlotBusy /\ UNCHANGED <<chan, accepted>>
    BY <1>2, StutterStep010 DEF chan
<1>3. CASE /\ ~closed /\ ~SlotBusy
           /\ buffer' = m /\ pending_message' = TRUE
           /\ accepted' = accepted \cup {m}
           /\ UNCHANGED closed
    <2>1. Abs!Accept(m)
        BY <1>3 DEF SlotBusy, Abs!Accept
    <2>2. QED
        BY <2>1 DEF Abs!Next
<1>4. QED
    BY <1>1, <1>2, <1>3 DEF SendCall

(* Every step of revision 0.1.0 maps to a step of SlotChannel or a stutter. *)
LEMMA RefStep010 == RefInv010 /\ [Next]_vars => [Abs!Next]_Abs!avars
<1> SUFFICES ASSUME RefInv010, [Next]_vars PROVE [Abs!Next]_Abs!avars
    OBVIOUS
<1>t. /\ buffer \in Msgs
      /\ send_msg \in [Producers -> Msgs]
      /\ nsent \in [Producers -> 0 .. MaxSends]
    BY DEF RefInv010, TypeOK
<1>1. ASSUME NEW p \in Producers, NEW len \in 0 .. BufferSize,
             mpsc_producer_send(p, len)
      PROVE  [Abs!Next]_Abs!avars
    <2>1. nsent[p] + 1 \in 0 .. MaxSends
        BY <1>1, <1>t DEF mpsc_producer_send
    <2>2. [from |-> p, seq |-> nsent[p] + 1, len |-> len] \in Msgs
        BY <2>1, MsgIntro010
    <2>3. SendCall(p, [from |-> p, seq |-> nsent[p] + 1, len |-> len])
          /\ UNCHANGED <<delivered, dropped>>
        BY <1>1 DEF mpsc_producer_send
    <2>4. QED
        BY <2>2, <2>3, SendCallStep
<1>2. ASSUME NEW p \in Producers, SendRetry(p) PROVE [Abs!Next]_Abs!avars
    <2>1. send_msg[p] \in Msgs /\ SendCall(p, send_msg[p]) /\ UNCHANGED <<delivered, dropped>>
        BY <1>t, <1>2 DEF SendRetry
    <2>2. QED
        BY <2>1, SendCallStep
<1>3. CASE ConsumerLoop
    <2>1. CASE /\ ~(~pending_message /\ ~closed) /\ ~ConsumerMustExit
               /\ n > 0 /\ ErrorHandlingEnabled
               /\ DropPending010
               /\ UNCHANGED <<buffer, closed, accepted, delivered>>
        <3>1. pending_message
            BY <2>1 DEF ConsumerMustExit
        <3>2. Abs!Drop
            BY <2>1, <3>1 DEF DropPending010, Abs!Drop
        <3>3. QED
            BY <3>2 DEF Abs!Next
    <2>2. CASE /\ ~(~pending_message /\ ~closed) /\ ~ConsumerMustExit
               /\ delivered' = Append(delivered,
                                 [from |-> buffer.from, seq |-> buffer.seq, len |-> n])
               /\ pending_message' = FALSE
               /\ UNCHANGED <<buffer, closed, accepted, dropped>>
        <3>1. pending_message /\ n = buffer.len
            BY <2>2 DEF ConsumerMustExit, RefInv010, SlotLen010
        <3>2. [from |-> buffer.from, seq |-> buffer.seq, len |-> n] = buffer
            BY <1>t, <3>1, MsgEta010
        <3>3. Abs!Deliver
            BY <2>2, <3>1, <3>2 DEF Abs!Deliver
        <3>4. QED
            BY <3>3 DEF Abs!Next
    <2>3. CASE UNCHANGED <<chan, delivered, dropped, accepted>>
        BY <2>3, StutterStep010 DEF chan
    <2>4. QED
        BY <1>3, <2>1, <2>2, <2>3 DEF ConsumerLoop
<1>4. CASE \/ mpsc_consumer_close \/ JoinConsumer
           \/ \E p \in Producers : mpsc_producer_done(p)
    BY <1>4, CloseStep010 DEF mpsc_consumer_close, JoinConsumer, mpsc_producer_done
<1>5. CASE \/ mpsc_register_producer \/ CallbackReturn \/ JoinStart \/ JoinProducers
           \/ SpuriousWakeupConsumer \/ UNCHANGED vars
    BY <1>5, StutterStep010 DEF mpsc_register_producer, CallbackReturn, JoinStart,
                                JoinProducers, SpuriousWakeupConsumer, vars, chan
<1>6. QED
    BY <1>1, <1>2, <1>3, <1>4, <1>5 DEF Next

\* The threads of mpsc.c at revision 0.1.0 implement the single-slot
\* channel, for every number of producers, buffer size, send bound, depth
\* bound and error policy: the busy-retry of mpsc_producer_send deposits
\* only into the empty slot of an open channel, the consumer receives the
\* slot's message with its length or (Report policy only) drops it, and
\* close, producer_done and join only close the channel.
THEOREM ImplementsSlotChannel010Safety == Spec => Abs!SafeSpec
<1>1. Init => Abs!Init
    BY DEF Init, Abs!Init
<1>2. RefInv010 /\ [Next]_vars => RefInv010' /\ [Abs!Next]_Abs!avars
    BY RefInv010Step, RefStep010
<1>3. QED
    BY <1>1, <1>2, RefInv010Init, PTL DEF Spec, Abs!SafeSpec

====
