------------------------- MODULE EmptyMessages_proofs -------------------------
(***************************************************************************)
(* Proofs about empty_messages.c run on the channel (EmptyMessages), for   *)
(* every number of producers, threshold and n_max_iter bound that          *)
(* ExampleAssumption allows: the example drives the channel only through   *)
(* its calls, so every theorem of the channel holds of the example; its    *)
(* state is well typed; and the consumer counts at most one message after  *)
(* the threshold at which it closes.                                       *)
(***************************************************************************)
EXTENDS EmptyMessages, MPSC_channel_proofs, FiniteSetTheorems

USE NMaxProducersAssumption, BufferSizeAssumption, ErrorHandlingAssumption,
    MaxSendsAssumption, ExampleAssumption

-----------------------------------------------------------------------------
(* The example's variables keep their shapes.                              *)
ExampleVarsOK ==
    /\ counter \in [Producers -> Nat]
    /\ n_max_iter \in [Producers -> 0 .. MaxIter]
    /\ send_failed \in [Producers -> BOOLEAN]
    /\ consumer_callback_message_counter \in Nat
    /\ close_called \in BOOLEAN
    /\ aborted \in BOOLEAN

(* A producer's counter never passes its n_max_iter: the loop test is      *)
(* made before each call, and a producer blocked in the wait loop of       *)
(* mpsc_producer_send entered it with counter below n_max_iter, since the  *)
(* resumed call counts its success without testing again.  A slot not yet  *)
(* registered has counted nothing, so the n_max_iter main draws for it     *)
(* bounds a zero counter.                                                  *)
CountersBounded ==
    \A p \in Producers :
        /\ counter[p] <= n_max_iter[p]
        /\ ppc[p] \in {"waiting", "signalled"} => counter[p] < n_max_iter[p]
        /\ ppc[p] = "unregistered" => counter[p] = 0

(* The callback that reaches the threshold does not return before it has   *)
(* called mpsc_consumer_close; after that close no send deposits, so only  *)
(* the message already in the slot can still be counted.                   *)
CloseAtThreshold ==
    LET C == consumer_callback_message_counter IN
    /\ C <= MessageThreshold + 1
    /\ C = MessageThreshold /\ ~close_called => cpc = "callback"
    /\ close_called => closed
    /\ C = MessageThreshold + 1 => closed /\ ~pending_message

ExampleInv == ExampleVarsOK /\ CountersBounded /\ CloseAtThreshold


-----------------------------------------------------------------------------
(* Each step of the example is one library call of the channel, or leaves  *)
(* the channel alone (a failed PRODUCER_ACCEPTED assert).                  *)
LEMMA ExampleStepIsChannelStep == [ExampleNext]_allvars => [Next]_vars
<1> SUFFICES ASSUME [ExampleNext]_allvars PROVE [Next]_vars
    OBVIOUS
<1>1. CASE Alive(RegisterProducer)
    BY <1>1 DEF Alive, RegisterProducer, Next, vars
<1>2. CASE Alive(Join) \/ Alive(JoinConsumer /\ UNCHANGED example)
           \/ Alive(JoinProducers /\ UNCHANGED example)
    BY <1>2 DEF Alive, Join, Next
<1>3. ASSUME NEW p \in Producers, Alive(ProducerSend(p)) PROVE [Next]_vars
    <2>1. 0 \in 0 .. BufferSize
        BY BufferSizeAssumption
    <2>2. mpsc_producer_send(p, 0)
        BY <1>3 DEF Alive, ProducerSend
    <2>3. QED
        BY <2>1, <2>2 DEF Next
<1>4. ASSUME NEW p \in Producers, Alive(ProducerSendAfterWait(p)) PROVE [Next]_vars
    BY <1>4 DEF Alive, ProducerSendAfterWait, Next
<1>5. ASSUME NEW p \in Producers, Alive(ProducerExits(p)) PROVE [Next]_vars
    BY <1>5 DEF Alive, ProducerExits, Next
<1>6. CASE Alive(ConsumerDeliversCounted) \/ Alive(ConsumerLoopIdle)
    BY <1>6 DEF Alive, ConsumerDeliversCounted, ConsumerLoopIdle, ConsumerLoop, Next
<1>7. CASE Alive(CallbackCloses) \/ Alive(CallbackReturns)
           \/ Alive(FinalCallbackReturn /\ UNCHANGED example)
           \/ Alive(SpuriousWakeupConsumer /\ UNCHANGED example)
    BY <1>7 DEF Alive, CallbackCloses, CallbackReturns, Next
<1>8. ASSUME NEW p \in Producers, Alive(SpuriousWakeupProducer(p) /\ UNCHANGED example)
      PROVE  [Next]_vars
    BY <1>8 DEF Alive, Next
<1>9. CASE UNCHANGED allvars
    BY <1>9 DEF allvars
<1>10. QED
    BY <1>1, <1>2, <1>3, <1>4, <1>5, <1>6, <1>7, <1>8, <1>9 DEF ExampleNext

\* empty_messages.c uses the channel only through its API: every behaviour
\* of the example, main's registration loop and join, the producers' send
\* loops and the consumer callback that closes at the threshold included,
\* is a behaviour of the channel model.  So every invariant proved of MPSC
\* (wait queue, conservation, drain, FIFO handoff) holds of the example.
THEOREM ExampleUsesChannel == ExampleSpec => Spec
<1>1. ExampleInit => Init
    BY DEF ExampleInit
<1>2. QED
    BY <1>1, ExampleStepIsChannelStep, PTL DEF ExampleSpec, Spec

LEMMA ExampleQueueInv == ExampleSpec => []QueueInv
BY ExampleUsesChannel, QueueInvInit, QueueInvStep, PTL DEF Spec


-----------------------------------------------------------------------------
LEMMA ExampleInvInit == ExampleInit => ExampleInv
<1> SUFFICES ASSUME ExampleInit PROVE ExampleInv
    OBVIOUS
<1>1. ExampleVarsOK
    <2>1. /\ counter \in [Producers -> Nat]
          /\ n_max_iter \in [Producers -> 0 .. MaxIter]
          /\ consumer_callback_message_counter \in Nat
        BY ExampleAssumption DEF ExampleInit
    <2>2. /\ send_failed \in [Producers -> BOOLEAN]
          /\ close_called \in BOOLEAN /\ aborted \in BOOLEAN
        BY Zenon DEF ExampleInit
    <2>3. QED
        BY <2>1, <2>2 DEF ExampleVarsOK
<1>2. CountersBounded
    <2> SUFFICES ASSUME NEW p \in Producers
                 PROVE  /\ counter[p] <= n_max_iter[p]
                        /\ ppc[p] \in {"waiting", "signalled"} => counter[p] < n_max_iter[p]
                        /\ ppc[p] = "unregistered" => counter[p] = 0
        BY DEF CountersBounded
    <2>1. counter[p] = 0 /\ n_max_iter[p] = 0 /\ ppc[p] = "unregistered"
        BY DEF ExampleInit, Init
    <2>2. QED
        BY <2>1
<1>3. CloseAtThreshold
    <2>1. consumer_callback_message_counter = 0 /\ close_called = FALSE
        BY DEF ExampleInit
    <2>2. MessageThreshold \in Nat \ {0}
        BY ExampleAssumption
    <2>3. QED
        BY <2>1, <2>2 DEF CloseAtThreshold
<1>4. QED
    BY <1>1, <1>2, <1>3 DEF ExampleInv

(* A step that leaves the counters alone and only moves producers between  *)
(* states of the same kind (blocked, not yet registered, other) keeps the  *)
(* bounds.                                                                 *)
LEMMA CountersFrame ==
    ASSUME CountersBounded,
           UNCHANGED <<counter, n_max_iter>>,
           \A p \in Producers :
               /\ ppc'[p] \in {"waiting", "signalled"} => ppc[p] \in {"waiting", "signalled"}
               /\ ppc'[p] = "unregistered" => ppc[p] = "unregistered"
    PROVE  CountersBounded'
BY DEF CountersBounded

(* A step that leaves the consumer's counter and close_called alone, keeps *)
(* the consumer in its callback, never reopens the channel and deposits    *)
(* nothing into the slot of a closed channel keeps CloseAtThreshold.       *)
LEMMA CloseFrame ==
    ASSUME CloseAtThreshold,
           UNCHANGED <<consumer_callback_message_counter, close_called>>,
           cpc = "callback" => cpc' = "callback",
           closed => closed' /\ (pending_message' => pending_message)
    PROVE  CloseAtThreshold'
BY DEF CloseAtThreshold

(* The channel's signals wake blocked producers, and nothing else.         *)
LEMMA SignalKeepsKinds ==
    ASSUME NEW S, ppc \in [Producers -> PStates]
    PROVE  \A p \in Producers :
               /\ SignalProducers(S)[p] \in {"waiting", "signalled"} => ppc[p] \in {"waiting", "signalled"}
               /\ SignalProducers(S)[p] = "unregistered" => ppc[p] = "unregistered"
BY DEF SignalProducers


(* A channel step the example's code adds nothing to keeps ExampleInv when *)
(* it keeps the kinds of the producers, the consumer in its callback, and  *)
(* the slot of a closed channel empty of new deposits.                     *)
LEMMA ExampleFrame ==
    ASSUME ExampleInv, UNCHANGED example,
           \A p \in Producers :
               /\ ppc'[p] \in {"waiting", "signalled"} => ppc[p] \in {"waiting", "signalled"}
               /\ ppc'[p] = "unregistered" => ppc[p] = "unregistered",
           cpc = "callback" => cpc' = "callback",
           closed => closed' /\ (pending_message' => pending_message)
    PROVE  ExampleInv'
<1>1. ExampleVarsOK'
    BY Zenon DEF ExampleInv, ExampleVarsOK, example
<1>2. CountersBounded'
    BY CountersFrame DEF ExampleInv, example
<1>3. CloseAtThreshold'
    BY CloseFrame DEF ExampleInv, example
<1>4. QED
    BY <1>1, <1>2, <1>3 DEF ExampleInv


LEMMA ExampleInvStep ==
    ExampleInv /\ QueueInv /\ QueueInv' /\ [ExampleNext]_allvars => ExampleInv'
<1> SUFFICES ASSUME ExampleInv, QueueInv, QueueInv', [ExampleNext]_allvars
             PROVE  ExampleInv'
    OBVIOUS
<1>t. /\ ppc \in [Producers -> PStates]
      /\ RegisteredPrefix
      /\ producer_count \in 0 .. NMaxProducers
    BY DEF QueueInv, TypeInv, TypeOK
<1>e. /\ counter \in [Producers -> Nat]
      /\ n_max_iter \in [Producers -> 0 .. MaxIter]
      /\ consumer_callback_message_counter \in Nat
      /\ CountersBounded /\ CloseAtThreshold
    BY DEF ExampleInv, ExampleVarsOK
<1>1. CASE Alive(Join)
    <2>1. UNCHANGED <<ppc, pending_message>> /\ cpc' \in {cpc, SignalConsumer}
          /\ closed' \in {closed, TRUE} /\ UNCHANGED example
        BY <1>1 DEF Alive, Join, JoinStart
    <2>2. QED
        <3>1. \A q \in Producers :
                  /\ ppc'[q] \in {"waiting", "signalled"} => ppc[q] \in {"waiting", "signalled"}
                  /\ ppc'[q] = "unregistered" => ppc[q] = "unregistered"
            BY <2>1
        <3>2. cpc = "callback" => cpc' = "callback"
            BY <2>1 DEF SignalConsumer
        <3>3. closed => closed' /\ (pending_message' => pending_message)
            BY <2>1
        <3>4. QED
            BY <2>1, <3>1, <3>2, <3>3, ExampleFrame, ZenonT(60)
<1>2. CASE Alive(JoinConsumer /\ UNCHANGED example) \/ Alive(JoinProducers /\ UNCHANGED example)
    <2>1. UNCHANGED <<ppc, pending_message, cpc>> /\ closed' \in {closed, TRUE}
          /\ UNCHANGED example
        BY <1>2 DEF Alive, JoinConsumer, JoinProducers, chan
    <2>2. QED
        <3>1. \A q \in Producers :
                  /\ ppc'[q] \in {"waiting", "signalled"} => ppc[q] \in {"waiting", "signalled"}
                  /\ ppc'[q] = "unregistered" => ppc[q] = "unregistered"
            BY <2>1
        <3>2. cpc = "callback" => cpc' = "callback"
            BY <2>1 DEF SignalConsumer
        <3>3. closed => closed' /\ (pending_message' => pending_message)
            BY <2>1
        <3>4. QED
            BY <2>1, <3>1, <3>2, <3>3, ExampleFrame, ZenonT(60)
<1>3. ASSUME NEW p \in Producers, Alive(ProducerExits(p)) PROVE ExampleInv'
    <2>1. /\ ppc[p] = "task" /\ ppc' = [ppc EXCEPT ![p] = "exited"]
          /\ UNCHANGED pending_message /\ cpc' \in {cpc, SignalConsumer}
          /\ closed' \in {closed, TRUE} /\ UNCHANGED example
        BY <1>3 DEF Alive, ProducerExits, mpsc_producer_done
    <2>2. \A q \in Producers :
               /\ ppc'[q] \in {"waiting", "signalled"} => ppc[q] \in {"waiting", "signalled"}
               /\ ppc'[q] = "unregistered" => ppc[q] = "unregistered"
        BY <1>t, <2>1
    <2>3. QED
        <3>1. \A q \in Producers :
                  /\ ppc'[q] \in {"waiting", "signalled"} => ppc[q] \in {"waiting", "signalled"}
                  /\ ppc'[q] = "unregistered" => ppc[q] = "unregistered"
            BY <2>1, <2>2
        <3>2. cpc = "callback" => cpc' = "callback"
            BY <2>1 DEF SignalConsumer
        <3>3. closed => closed' /\ (pending_message' => pending_message)
            BY <2>1
        <3>4. QED
            BY <2>1, <3>1, <3>2, <3>3, ExampleFrame, ZenonT(60)
<1>4. CASE \/ Alive(ConsumerLoopIdle)
           \/ Alive(FinalCallbackReturn /\ UNCHANGED example)
           \/ Alive(SpuriousWakeupConsumer /\ UNCHANGED example)
    <2>1. UNCHANGED <<ppc, pending_message, closed, example>>
          /\ cpc # "callback"
        BY <1>4 DEF Alive, ConsumerLoopIdle, ConsumerWaits, ConsumerBreaks,
                    FinalCallbackReturn, SpuriousWakeupConsumer, chan
    <2>2. QED
        <3>1. \A q \in Producers :
                  /\ ppc'[q] \in {"waiting", "signalled"} => ppc[q] \in {"waiting", "signalled"}
                  /\ ppc'[q] = "unregistered" => ppc[q] = "unregistered"
            BY <2>1
        <3>2. cpc = "callback" => cpc' = "callback"
            BY <2>1 DEF SignalConsumer
        <3>3. closed => closed' /\ (pending_message' => pending_message)
            BY <2>1
        <3>4. QED
            BY <2>1, <3>1, <3>2, <3>3, ExampleFrame, ZenonT(60)
<1>5. ASSUME NEW p \in Producers, Alive(SpuriousWakeupProducer(p) /\ UNCHANGED example)
      PROVE  ExampleInv'
    <2>1. /\ ppc[p] = "waiting" /\ ppc' = [ppc EXCEPT ![p] = "signalled"]
          /\ UNCHANGED <<pending_message, closed, cpc, example>>
        BY <1>5 DEF Alive, SpuriousWakeupProducer, chan
    <2>2. \A q \in Producers :
               /\ ppc'[q] \in {"waiting", "signalled"} => ppc[q] \in {"waiting", "signalled"}
               /\ ppc'[q] = "unregistered" => ppc[q] = "unregistered"
        BY <1>t, <2>1
    <2>3. QED
        <3>1. \A q \in Producers :
                  /\ ppc'[q] \in {"waiting", "signalled"} => ppc[q] \in {"waiting", "signalled"}
                  /\ ppc'[q] = "unregistered" => ppc[q] = "unregistered"
            BY <2>1, <2>2
        <3>2. cpc = "callback" => cpc' = "callback"
            BY <2>1 DEF SignalConsumer
        <3>3. closed => closed' /\ (pending_message' => pending_message)
            BY <2>1
        <3>4. QED
            BY <2>1, <3>1, <3>2, <3>3, ExampleFrame, ZenonT(60)
<1>6. CASE UNCHANGED allvars
    <2>1. UNCHANGED <<ppc, pending_message, closed, cpc, example>>
        BY <1>6 DEF allvars, vars, chan, threads
    <2>2. QED
        <3>1. \A q \in Producers :
                  /\ ppc'[q] \in {"waiting", "signalled"} => ppc[q] \in {"waiting", "signalled"}
                  /\ ppc'[q] = "unregistered" => ppc[q] = "unregistered"
            BY <2>1
        <3>2. cpc = "callback" => cpc' = "callback"
            BY <2>1 DEF SignalConsumer
        <3>3. closed => closed' /\ (pending_message' => pending_message)
            BY <2>1
        <3>4. QED
            BY <2>1, <3>1, <3>2, <3>3, ExampleFrame, ZenonT(60)

<1>7. CASE Alive(RegisterProducer)
    <2>1. CASE ~RegisterAllowed /\ aborted' = TRUE
               /\ UNCHANGED <<vars, counter, n_max_iter, send_failed,
                              consumer_callback_message_counter, close_called>>
        <3>1. ExampleVarsOK'
            BY <2>1, Zenon DEF ExampleInv, ExampleVarsOK
        <3>2. CountersBounded'
            BY <1>e, <2>1, CountersFrame DEF vars, threads
        <3>3. CloseAtThreshold'
            BY <1>e, <2>1, CloseFrame DEF vars, threads, chan
        <3>4. QED
            BY <3>1, <3>2, <3>3 DEF ExampleInv
    <2>2. CASE /\ producer_count < NMaxProducers
               /\ mpsc_register_producer
               /\ \E k \in 1 .. MaxIter : n_max_iter' = [n_max_iter EXCEPT ![producer_count] = k]
               /\ UNCHANGED <<counter, send_failed, consumer_callback_message_counter,
                              close_called, aborted>>
        <3>1. PICK k \in 1 .. MaxIter : n_max_iter' = [n_max_iter EXCEPT ![producer_count] = k]
            BY <2>2
        <3>2. producer_count \in Producers /\ ppc[producer_count] = "unregistered"
            BY <1>t, <2>2 DEF RegisteredPrefix, Producers
        <3>3. /\ ppc' = [ppc EXCEPT ![producer_count] = "task"]
              /\ UNCHANGED <<pending_message, closed, cpc>>
            BY <2>2 DEF mpsc_register_producer
        <3>4. ExampleVarsOK'
            <4>1. n_max_iter' \in [Producers -> 0 .. MaxIter]
                BY <1>e, <3>1, <3>2
            <4>2. QED
                BY <2>2, <4>1, Zenon DEF ExampleInv, ExampleVarsOK
        <3>5. CountersBounded'
            <4> SUFFICES ASSUME NEW q \in Producers
                         PROVE  /\ counter'[q] <= n_max_iter'[q]
                                /\ ppc'[q] \in {"waiting", "signalled"} => counter'[q] < n_max_iter'[q]
                                /\ ppc'[q] = "unregistered" => counter'[q] = 0
                BY DEF CountersBounded
            <4>1. CASE q = producer_count
                BY <1>e, <2>2, <3>1, <3>2, <3>3, <4>1 DEF CountersBounded
            <4>2. CASE q # producer_count
                BY <1>t, <1>e, <2>2, <3>1, <3>3, <4>2 DEF CountersBounded
            <4>3. QED
                BY <4>1, <4>2
        <3>6. CloseAtThreshold'
            BY <1>e, <2>2, <3>3, CloseFrame
        <3>7. QED
            BY <3>4, <3>5, <3>6 DEF ExampleInv
    <2>3. QED
        BY <1>7, <2>1, <2>2 DEF Alive, RegisterProducer
<1>8. ASSUME NEW p \in Producers, Alive(ProducerSend(p)) PROVE ExampleInv'
    <2> DEFINE m == [from |-> p, seq |-> nsent[p] + 1, len |-> 0]
    <2>0. /\ ppc[p] = "task" /\ counter[p] < n_max_iter[p]
          /\ CountResult(p, SendRejected)
        BY <1>8, <1>e DEF Alive, ProducerSend, ProducerLoopContinues, mpsc_producer_send,
                          CountersBounded
    <2>1. CASE SendRejected /\ UNCHANGED <<chan, threads, accepted>>
        <3>1. /\ UNCHANGED <<counter, n_max_iter, consumer_callback_message_counter, close_called, aborted>>
              /\ send_failed' = [send_failed EXCEPT ![p] = TRUE]
            BY <2>0, <2>1 DEF CountResult, SendReturnedTrue
        <3>2. ExampleVarsOK'
            BY <3>1, Zenon DEF ExampleInv, ExampleVarsOK
        <3>3. CountersBounded'
            BY <1>e, <2>1, <3>1, CountersFrame DEF threads
        <3>4. CloseAtThreshold'
            BY <1>e, <2>1, <3>1, CloseFrame DEF threads, chan
        <3>5. QED
            BY <3>2, <3>3, <3>4 DEF ExampleInv
    <2>2. CASE ~SendRejected /\ MustWait /\ Subscribe(p, m)
               /\ UNCHANGED <<pending_message, closed, accepted, cpc>>
        <3>1. /\ UNCHANGED <<counter, n_max_iter, send_failed, consumer_callback_message_counter,
                             close_called, aborted>>
            BY <2>0, <2>2 DEF CountResult, SendReturnedTrue
        <3>2. ppc' = [ppc EXCEPT ![p] = "waiting"]
            BY <2>2 DEF Subscribe
        <3>3. ExampleVarsOK'
            BY <3>1, Zenon DEF ExampleInv, ExampleVarsOK
        <3>4. CountersBounded'
            <4> SUFFICES ASSUME NEW q \in Producers
                         PROVE  /\ counter'[q] <= n_max_iter'[q]
                                /\ ppc'[q] \in {"waiting", "signalled"} => counter'[q] < n_max_iter'[q]
                                /\ ppc'[q] = "unregistered" => counter'[q] = 0
                BY DEF CountersBounded
            <4>1. CASE q = p
                BY <1>t, <1>e, <2>0, <3>1, <3>2, <4>1
            <4>2. CASE q # p
                BY <1>t, <1>e, <3>1, <3>2, <4>2 DEF CountersBounded
            <4>3. QED
                BY <4>1, <4>2
        <3>5. CloseAtThreshold'
            BY <1>e, <2>2, <3>1, CloseFrame
        <3>6. QED
            BY <3>3, <3>4, <3>5 DEF ExampleInv
    <2>3. CASE ~SendRejected /\ ~MustWait /\ Deposit(p, m)
               /\ UNCHANGED <<closed, ppc>>
        <3>1. /\ counter' \in {counter, [counter EXCEPT ![p] = @ + 1]}
              /\ UNCHANGED <<n_max_iter, send_failed, consumer_callback_message_counter,
                             close_called, aborted>>
            BY <2>0, <2>3 DEF CountResult
        <3>2. counter' \in [Producers -> Nat]
            BY <1>e, <3>1
        <3>3. ExampleVarsOK'
            BY <3>1, <3>2, Zenon DEF ExampleInv, ExampleVarsOK
        <3>4. CountersBounded'
            <4> SUFFICES ASSUME NEW q \in Producers
                         PROVE  /\ counter'[q] <= n_max_iter'[q]
                                /\ ppc'[q] \in {"waiting", "signalled"} => counter'[q] < n_max_iter'[q]
                                /\ ppc'[q] = "unregistered" => counter'[q] = 0
                BY DEF CountersBounded
            <4>1. CASE q = p
                BY <1>t, <1>e, <2>0, <2>3, <3>1, <4>1
            <4>2. CASE q # p
                BY <1>t, <1>e, <2>3, <3>1, <4>2 DEF CountersBounded
            <4>3. QED
                BY <4>1, <4>2
        <3>5. cpc = "callback" => cpc' = "callback"
            BY <2>3 DEF Deposit, SignalConsumer
        <3>6. CloseAtThreshold'
            BY <1>e, <2>3, <3>1, <3>5, CloseFrame DEF SendRejected
        <3>7. QED
            BY <3>3, <3>4, <3>6 DEF ExampleInv
    <2>4. QED
        BY <1>8, <2>1, <2>2, <2>3 DEF Alive, ProducerSend, mpsc_producer_send
<1>9. ASSUME NEW p \in Producers, Alive(ProducerSendAfterWait(p)) PROVE ExampleInv'
    <2>0. /\ ppc[p] = "signalled" /\ counter[p] < n_max_iter[p]
          /\ CountResult(p, closed)
        BY <1>9, <1>e DEF Alive, ProducerSendAfterWait, SendAfterWait, CountersBounded
    <2>1. CASE ~closed /\ ppc' = [ppc EXCEPT ![p] = "waiting"]
               /\ UNCHANGED <<chan, cpc, history>>
        <3>1. UNCHANGED example
            BY <2>0, <2>1 DEF CountResult, SendReturnedTrue, history, example
        <3>2. \A q \in Producers :
                  /\ ppc'[q] \in {"waiting", "signalled"} => ppc[q] \in {"waiting", "signalled"}
                  /\ ppc'[q] = "unregistered" => ppc[q] = "unregistered"
            BY <1>t, <2>0, <2>1
        <3>3. QED
            BY <2>1, <3>1, <3>2, ExampleFrame DEF chan
    <2>2. CASE closed /\ ppc' = [ppc EXCEPT ![p] = "task"]
               /\ UNCHANGED <<chan, cpc, history>>
        <3>1. /\ UNCHANGED <<counter, n_max_iter, consumer_callback_message_counter, close_called, aborted>>
              /\ send_failed' = [send_failed EXCEPT ![p] = TRUE]
            BY <2>0, <2>2 DEF CountResult, SendReturnedTrue, history
        <3>2. ExampleVarsOK'
            BY <3>1, Zenon DEF ExampleInv, ExampleVarsOK
        <3>3. CountersBounded'
            <4>1. \A q \in Producers :
                      /\ ppc'[q] \in {"waiting", "signalled"} => ppc[q] \in {"waiting", "signalled"}
                      /\ ppc'[q] = "unregistered" => ppc[q] = "unregistered"
                BY <1>t, <2>0, <2>2
            <4>2. QED
                BY <1>e, <3>1, <4>1, CountersFrame
        <3>4. CloseAtThreshold'
            BY <1>e, <2>2, <3>1, CloseFrame DEF chan
        <3>5. QED
            BY <3>2, <3>3, <3>4 DEF ExampleInv
    <2>3. CASE /\ ~closed /\ Deposit(p, send_msg[p])
               /\ ppc' = [ppc EXCEPT ![p] = "task"]
               /\ UNCHANGED closed
        <3>1. /\ counter' \in {counter, [counter EXCEPT ![p] = @ + 1]}
              /\ UNCHANGED <<n_max_iter, send_failed, consumer_callback_message_counter,
                             close_called, aborted>>
            BY <2>0, <2>3 DEF CountResult
        <3>2. counter' \in [Producers -> Nat]
            BY <1>e, <3>1
        <3>3. ExampleVarsOK'
            BY <3>1, <3>2, Zenon DEF ExampleInv, ExampleVarsOK
        <3>4. CountersBounded'
            <4> SUFFICES ASSUME NEW q \in Producers
                         PROVE  /\ counter'[q] <= n_max_iter'[q]
                                /\ ppc'[q] \in {"waiting", "signalled"} => counter'[q] < n_max_iter'[q]
                                /\ ppc'[q] = "unregistered" => counter'[q] = 0
                BY DEF CountersBounded
            <4>1. CASE q = p
                BY <1>t, <1>e, <2>0, <2>3, <3>1, <4>1
            <4>2. CASE q # p
                BY <1>t, <1>e, <2>3, <3>1, <4>2 DEF CountersBounded
            <4>3. QED
                BY <4>1, <4>2
        <3>5. cpc = "callback" => cpc' = "callback"
            BY <2>3 DEF Deposit, SignalConsumer
        <3>6. CloseAtThreshold'
            BY <1>e, <2>3, <3>1, <3>5, CloseFrame
        <3>7. QED
            BY <3>3, <3>4, <3>6 DEF ExampleInv
    <2>4. QED
        BY <1>9, <2>1, <2>2, <2>3 DEF Alive, ProducerSendAfterWait, SendAfterWait
<1>10. CASE Alive(ConsumerDeliversCounted)
    <2> DEFINE C == consumer_callback_message_counter
               T == MessageThreshold
    <2>0. /\ cpc \in {"top", "signalled"} /\ pending_message
          /\ C' = C + 1 /\ cpc' = "callback" /\ pending_message' = FALSE
          /\ UNCHANGED <<closed, counter, n_max_iter, send_failed, close_called, aborted>>
          /\ \/ ppc' = ppc
             \/ ppc' = SignalProducers({Head(producer_waiting_ids_queue)})
        BY <1>10 DEF Alive, ConsumerDeliversCounted, ConsumerDelivers, ConsumerMustExit
    <2>1. ExampleVarsOK'
        <3>1. C' \in Nat
            BY <1>e, <2>0
        <3>2. QED
            BY <2>0, <3>1, Zenon DEF ExampleInv, ExampleVarsOK
    <2>2. CountersBounded'
        <3>1. \A q \in Producers :
                  /\ ppc'[q] \in {"waiting", "signalled"} => ppc[q] \in {"waiting", "signalled"}
                  /\ ppc'[q] = "unregistered" => ppc[q] = "unregistered"
            BY <1>t, <2>0, SignalKeepsKinds
        <3>2. QED
            BY <1>e, <2>0, <3>1, CountersFrame
    <2>3. CloseAtThreshold'
        <3>1. C # T + 1
            BY <1>e, <2>0 DEF CloseAtThreshold
        <3>2. C = T => close_called /\ closed
            BY <1>e, <2>0 DEF CloseAtThreshold
        <3>3. C' <= T + 1
            BY <1>e, <2>0, <3>1, ExampleAssumption DEF CloseAtThreshold
        <3>4. C' = T + 1 => closed' /\ ~pending_message'
            BY <1>e, <2>0, <3>2, ExampleAssumption
        <3>5. close_called' => closed'
            BY <1>e, <2>0 DEF CloseAtThreshold
        <3>6. QED
            BY <2>0, <3>3, <3>4, <3>5 DEF CloseAtThreshold
    <2>4. QED
        BY <2>1, <2>2, <2>3 DEF ExampleInv
<1>11. CASE Alive(CallbackCloses)
    <2>0. /\ consumer_callback_message_counter = MessageThreshold
          /\ closed' = TRUE /\ close_called' = TRUE
          /\ ppc' = SignalProducers(CloseWakes)
          /\ UNCHANGED <<counter, n_max_iter, send_failed, consumer_callback_message_counter,
                         aborted, cpc, pending_message>>
        BY <1>11 DEF Alive, CallbackCloses, mpsc_consumer_close
    <2>1. ExampleVarsOK'
        BY <1>e, <2>0, Zenon DEF ExampleInv, ExampleVarsOK
    <2>2. CountersBounded'
        <3>1. \A q \in Producers :
                  /\ ppc'[q] \in {"waiting", "signalled"} => ppc[q] \in {"waiting", "signalled"}
                  /\ ppc'[q] = "unregistered" => ppc[q] = "unregistered"
            BY <1>t, <2>0, SignalKeepsKinds
        <3>2. QED
            BY <1>e, <2>0, <3>1, CountersFrame
    <2>3. CloseAtThreshold'
        BY <1>e, <2>0, ExampleAssumption DEF CloseAtThreshold
    <2>4. QED
        BY <2>1, <2>2, <2>3 DEF ExampleInv
<1>12. CASE Alive(CallbackReturns)
    <2>0. /\ consumer_callback_message_counter # MessageThreshold \/ close_called
          /\ cpc = "callback" /\ cpc' = "top"
          /\ UNCHANGED <<ppc, closed, pending_message, example>>
        BY <1>12 DEF Alive, CallbackReturns, ConsumerCallbackReturn, chan
    <2>1. ExampleVarsOK' /\ CountersBounded'
        BY <1>e, <2>0, CountersFrame, Zenon DEF ExampleInv, ExampleVarsOK, example
    <2>2. CloseAtThreshold'
        BY <1>e, <2>0 DEF CloseAtThreshold, example
    <2>3. QED
        BY <2>1, <2>2 DEF ExampleInv
<1>13. QED
    BY <1>1, <1>2, <1>3, <1>4, <1>5, <1>6, <1>7, <1>8, <1>9, <1>10, <1>11, <1>12
    DEF ExampleNext


LEMMA ExampleInvSpec == ExampleSpec => []ExampleInv
<1>1. ExampleInv /\ QueueInv /\ QueueInv' /\ [ExampleNext]_allvars => ExampleInv'
    BY ExampleInvStep
<1>2. QED
    BY <1>1, ExampleInvInit, ExampleQueueInv, PTL DEF ExampleSpec

\* The state of empty_messages.c is well typed for every number of
\* producers, threshold and n_max_iter bound: in particular a producer's
\* counter never passes the n_max_iter main drew for it, although the send
\* that resumes after a wait in mpsc_producer_send counts its success
\* without testing the loop condition again.
THEOREM ExampleTypeCorrect == ExampleSpec => []ExampleTypeOK
<1>1. ExampleInv /\ QueueInv => ExampleTypeOK
    <2> SUFFICES ASSUME ExampleInv, QueueInv PROVE ExampleTypeOK
        OBVIOUS
    <2>1. TypeOK
        BY DEF QueueInv, TypeInv
    <2>2. counter \in [Producers -> 0 .. MaxIter]
        BY DEF ExampleInv, ExampleVarsOK, CountersBounded
    <2>3. QED
        BY <2>1, <2>2, Zenon DEF ExampleInv, ExampleVarsOK, ExampleTypeOK
<1>2. QED
    BY <1>1, ExampleInvSpec, ExampleQueueInv, PTL

\* The claim of the header comment of empty_messages.c, for every
\* threshold: after the callback that reaches MESSAGE_THRESHOLD has called
\* mpsc_consumer_close, the consumer counts at most the one message that
\* was already in the slot.  The callback returns only after its close, and
\* no send deposits into a closed channel.
THEOREM OneAfterClose == ExampleSpec => []AtMostOneAfterClose
<1>1. ExampleInv => AtMostOneAfterClose
    BY DEF ExampleInv, CloseAtThreshold, AtMostOneAfterClose
<1>2. QED
    BY <1>1, ExampleInvSpec, PTL


-----------------------------------------------------------------------------
(* The two sides of main's final assert, counted on the channel.  A        *)
(* producer's counter is the number of its messages the channel accepted:  *)
(* each send that returns true deposits a message never accepted before.   *)
(* The consumer's counter is the number of distinct messages delivered.    *)
(* No message is dropped (error handling is off), and join passes the      *)
(* consumer only once the consumer thread has exited.                      *)
AcceptedFrom(p) == {m \in accepted : m.from = p}

CountsTrack ==
    /\ IsFiniteSet(accepted)
    /\ \A p \in Producers : counter[p] = Cardinality(AcceptedFrom(p))
    /\ consumer_callback_message_counter = Cardinality(DeliveredSet)
    /\ dropped = {}
    /\ mpc \in {"joining_producers", "destroyed"} => cpc = "exited"

\* When mpsc_join has returned, each producer's counter is the number of
\* its messages the channel accepted, and the consumer's counter is the
\* number of all accepted messages: the two sides of the assert at
\* empty_messages.c:105 count the same messages, grouped by producer on
\* one side.
CountsAtJoin ==
    mpc = "destroyed" =>
        /\ \A p \in Producers : counter[p] = Cardinality(AcceptedFrom(p))
        /\ consumer_callback_message_counter = Cardinality(accepted)


LEMMA CountsInit == ExampleInit => CountsTrack
<1> SUFFICES ASSUME ExampleInit PROVE CountsTrack
    OBVIOUS
<1>1. accepted = {} /\ delivered = <<>> /\ dropped = {} /\ mpc = "running"
      /\ counter = [p \in Producers |-> 0] /\ consumer_callback_message_counter = 0
    BY DEF ExampleInit, Init
<1>2. DeliveredSet = {} /\ \A p \in Producers : AcceptedFrom(p) = {}
    BY <1>1 DEF DeliveredSet, Range, AcceptedFrom
<1>3. QED
    BY <1>1, <1>2, FS_EmptySet DEF CountsTrack

(* A step that touches neither the histories nor the counters, never       *)
(* brings the consumer back from its exit, and lets join past the consumer *)
(* only once it has exited, keeps CountsTrack.                             *)
LEMMA CountsFrame ==
    ASSUME CountsTrack,
           UNCHANGED <<accepted, delivered, dropped, counter, consumer_callback_message_counter>>,
           cpc = "exited" => cpc' = "exited",
           mpc' \in {"joining_producers", "destroyed"} =>
               mpc \in {"joining_producers", "destroyed"} \/ cpc' = "exited"
    PROVE  CountsTrack'
BY DEF CountsTrack, AcceptedFrom, DeliveredSet

(* A send that returns true: its message m, from p, was never accepted,    *)
(* so it adds one to p's accepted messages and to p's counter.             *)
LEMMA CountsDeposit ==
    ASSUME CountsTrack, counter \in [Producers -> Nat],
           NEW p \in Producers, NEW m, m.from = p, m \notin accepted,
           accepted' = accepted \cup {m},
           counter' = [counter EXCEPT ![p] = @ + 1],
           UNCHANGED <<delivered, dropped, consumer_callback_message_counter, mpc>>,
           cpc = "exited" => cpc' = "exited"
    PROVE  CountsTrack'
<1>1. IsFiniteSet(accepted')
    BY FS_AddElement DEF CountsTrack
<1>2. ASSUME NEW q \in Producers PROVE counter'[q] = Cardinality(AcceptedFrom(q)')
    <2>1. IsFiniteSet(AcceptedFrom(q))
        BY FS_Subset DEF CountsTrack, AcceptedFrom
    <2>2. CASE q = p
        <3>1. AcceptedFrom(q)' = AcceptedFrom(q) \cup {m} /\ m \notin AcceptedFrom(q)
            BY <2>2 DEF AcceptedFrom
        <3>2. Cardinality(AcceptedFrom(q)') = Cardinality(AcceptedFrom(q)) + 1
            BY <2>1, <3>1, FS_AddElement
        <3>3. QED
            BY <2>2, <3>2 DEF CountsTrack
    <2>3. CASE q # p
        <3>1. AcceptedFrom(q)' = AcceptedFrom(q)
            BY <2>3 DEF AcceptedFrom
        <3>2. QED
            BY <2>3, <3>1 DEF CountsTrack
    <2>4. QED
        BY <2>2, <2>3
<1>3. QED
    BY <1>1, <1>2 DEF CountsTrack, DeliveredSet

(* The consumer's copy of the pending message: the message was not yet     *)
(* delivered, so the delivered set and the consumer's counter grow by one. *)
LEMMA CountsDeliver ==
    ASSUME CountsTrack, ConsInv, pending_message,
           delivered' = Append(delivered, [from |-> buffer.from, seq |-> buffer.seq, len |-> n]),
           consumer_callback_message_counter' = consumer_callback_message_counter + 1,
           UNCHANGED <<accepted, dropped, counter, mpc>>,
           cpc \in {"top", "signalled"}
    PROVE  CountsTrack'
<1>1. /\ buffer \in Msgs /\ n = buffer.len /\ delivered \in Seq(Msgs)
      /\ buffer \notin DeliveredSet /\ DeliveredSet \subseteq accepted
    BY DEF ConsInv, RefInv, TypeInv, TypeOK, SlotLen, PendingFresh, ConsumedAccepted
<1>2. [from |-> buffer.from, seq |-> buffer.seq, len |-> n] = buffer
    BY <1>1, MsgEta
<1>3. DeliveredSet' = DeliveredSet \cup {buffer}
    BY <1>1, <1>2, RangeAppend DEF DeliveredSet
<1>4. IsFiniteSet(DeliveredSet)
    BY <1>1, FS_Subset DEF CountsTrack
<1>5. Cardinality(DeliveredSet') = Cardinality(DeliveredSet) + 1
    BY <1>1, <1>3, <1>4, FS_AddElement
<1>6. QED
    BY <1>5 DEF CountsTrack, AcceptedFrom


LEMMA CountsStep == CountsTrack /\ ConsInv /\ ExampleInv /\ [ExampleNext]_allvars => CountsTrack'
<1> SUFFICES ASSUME CountsTrack, ConsInv, ExampleInv, [ExampleNext]_allvars
             PROVE  CountsTrack'
    OBVIOUS
<1>t. /\ nsent \in [Producers -> 0 .. MaxSends]
      /\ send_msg \in [Producers -> Msgs]
      /\ counter \in [Producers -> Nat]
    BY DEF ConsInv, RefInv, TypeInv, TypeOK, ExampleInv, ExampleVarsOK
<1>1. CASE \/ Alive(RegisterProducer) \/ Alive(CallbackCloses)
           \/ \E p \in Producers : Alive(SpuriousWakeupProducer(p) /\ UNCHANGED example)
    <2>1. UNCHANGED <<accepted, delivered, dropped, counter, consumer_callback_message_counter,
                      cpc, mpc>>
        BY <1>1 DEF Alive, RegisterProducer, mpsc_register_producer, CallbackCloses,
                    mpsc_consumer_close, SpuriousWakeupProducer, vars, threads, history,
                    example
    <2>2. QED
        BY <2>1, CountsFrame
<1>2. CASE \/ Alive(Join) \/ Alive(JoinConsumer /\ UNCHANGED example)
           \/ Alive(JoinProducers /\ UNCHANGED example)
           \/ \E p \in Producers : Alive(ProducerExits(p))
    <2>1. /\ UNCHANGED <<accepted, delivered, dropped, counter, consumer_callback_message_counter>>
          /\ cpc' \in {cpc, SignalConsumer}
          /\ mpc' \in {"joining_producers", "destroyed"} =>
                 mpc \in {"joining_producers", "destroyed"} \/ cpc' = "exited"
        BY <1>2 DEF Alive, Join, JoinStart, JoinConsumer, JoinProducers, ProducerExits,
                    mpsc_producer_done, history, example
    <2>2. cpc = "exited" => cpc' = "exited"
        BY <2>1 DEF SignalConsumer
    <2>3. QED
        BY <2>1, <2>2, CountsFrame
<1>3. CASE \/ Alive(ConsumerLoopIdle) \/ Alive(CallbackReturns)
           \/ Alive(FinalCallbackReturn /\ UNCHANGED example)
           \/ Alive(SpuriousWakeupConsumer /\ UNCHANGED example)
    <2>1. /\ UNCHANGED <<accepted, delivered, dropped, counter, consumer_callback_message_counter,
                         mpc>>
          /\ cpc = "exited" => cpc' = "exited"
        BY <1>3 DEF Alive, ConsumerLoopIdle, ConsumerWaits, ConsumerBreaks, CallbackReturns,
                    ConsumerCallbackReturn, FinalCallbackReturn, SpuriousWakeupConsumer,
                    history, example
    <2>2. QED
        BY <2>1, CountsFrame
<1>4. CASE Alive(ConsumerDeliversCounted)
    <2>1. /\ pending_message /\ cpc \in {"top", "signalled"}
          /\ delivered' = Append(delivered, [from |-> buffer.from, seq |-> buffer.seq, len |-> n])
          /\ consumer_callback_message_counter' = consumer_callback_message_counter + 1
          /\ UNCHANGED <<accepted, dropped, counter, mpc>>
        BY <1>4 DEF Alive, ConsumerDeliversCounted, ConsumerDelivers, ConsumerMustExit
    <2>2. QED
        BY <2>1, CountsDeliver
<1>5. ASSUME NEW p \in Producers, Alive(ProducerSend(p)) PROVE CountsTrack'
    <2> DEFINE m == [from |-> p, seq |-> nsent[p] + 1, len |-> 0]
    <2>0. CountResult(p, SendRejected) /\ mpsc_producer_send(p, 0)
        BY <1>5 DEF Alive, ProducerSend
    <2>1. CASE ~SendRejected /\ ~MustWait /\ Deposit(p, m)
               /\ UNCHANGED <<mpc, delivered, dropped>>
        <3>1. m \notin accepted
            <4>1. SUFFICES ASSUME m \in accepted PROVE FALSE
                OBVIOUS
            <4>2. m.seq <= nsent[m.from]
                BY <4>1 DEF ConsInv, SentBelowCount
            <4>3. QED
                BY <1>t, <4>2
        <3>2. accepted' = accepted \cup {m} /\ accepted' # accepted
            BY <2>1, <3>1 DEF Deposit
        <3>3. /\ counter' = [counter EXCEPT ![p] = @ + 1]
              /\ UNCHANGED consumer_callback_message_counter
            BY <2>0, <3>2 DEF CountResult, SendReturnedTrue
        <3>4. cpc = "exited" => cpc' = "exited"
            BY <2>1 DEF Deposit, SignalConsumer
        <3>5. m.from = p
            OBVIOUS
        <3>6. QED
            BY <1>t, <2>1, <3>1, <3>2, <3>3, <3>4, <3>5, CountsDeposit, ZenonT(60)
    <2>2. CASE UNCHANGED <<accepted, delivered, dropped, cpc, mpc>>
        <3>1. UNCHANGED <<counter, consumer_callback_message_counter>>
            BY <2>0, <2>2 DEF CountResult, SendReturnedTrue
        <3>2. QED
            BY <2>2, <3>1, CountsFrame
    <2>3. QED
        BY <2>0, <2>1, <2>2 DEF mpsc_producer_send, threads
<1>6. ASSUME NEW p \in Producers, Alive(ProducerSendAfterWait(p)) PROVE CountsTrack'
    <2>0. CountResult(p, closed) /\ SendAfterWait(p) /\ ppc[p] = "signalled"
        BY <1>6 DEF Alive, ProducerSendAfterWait, SendAfterWait
    <2>1. CASE ~closed /\ Deposit(p, send_msg[p])
               /\ UNCHANGED <<mpc, delivered, dropped>>
        <3>1. send_msg[p].from = p /\ send_msg[p] \notin accepted
            BY <2>0 DEF ConsInv, BlockedHoldsOwn, Blocked
        <3>2. accepted' = accepted \cup {send_msg[p]} /\ accepted' # accepted
            BY <2>1, <3>1 DEF Deposit
        <3>3. /\ counter' = [counter EXCEPT ![p] = @ + 1]
              /\ UNCHANGED consumer_callback_message_counter
            BY <2>0, <3>2 DEF CountResult, SendReturnedTrue
        <3>4. cpc = "exited" => cpc' = "exited"
            BY <2>1 DEF Deposit, SignalConsumer
        <3>5. QED
            BY <1>t, <2>1, <3>1, <3>2, <3>3, <3>4, CountsDeposit, ZenonT(60)
    <2>2. CASE UNCHANGED <<accepted, delivered, dropped, cpc, mpc>>
        <3>1. UNCHANGED <<counter, consumer_callback_message_counter>>
            BY <2>0, <2>2 DEF CountResult, SendReturnedTrue
        <3>2. QED
            BY <2>2, <3>1, CountsFrame
    <2>3. QED
        BY <2>0, <2>1, <2>2 DEF SendAfterWait, history
<1>7. CASE UNCHANGED allvars
    BY <1>7, CountsFrame DEF allvars, vars, threads, history, example
<1>8. QED
    BY <1>1, <1>2, <1>3, <1>4, <1>5, <1>6, <1>7 DEF ExampleNext


LEMMA ExampleConsInv == ExampleSpec => []ConsInv
BY ExampleUsesChannel, ConsInvSpec, PTL

\* Main's final assert (empty_messages.c:105) up to the sum, for every
\* number of producers, threshold and n_max_iter bound: after mpsc_join,
\* each producer's counter is the number of its messages the channel
\* accepted and the consumer's counter the number of all accepted
\* messages, although the consumer closes while producers still send or
\* wait.  That the counters of the producers then add up to the
\* consumer's is the sum of a partition, which TotalMatchesConsumerCount
\* checks on the model's runs.
THEOREM CountedAtJoin == ExampleSpec => []CountsAtJoin
<1>1. ExampleSpec => []CountsTrack
    <2>1. CountsTrack /\ ConsInv /\ ExampleInv /\ [ExampleNext]_allvars => CountsTrack'
        BY CountsStep
    <2>2. QED
        BY <2>1, CountsInit, ExampleConsInv, ExampleInvSpec, PTL DEF ExampleSpec
<1>2. CountsTrack /\ ConsInv => CountsAtJoin
    <2> SUFFICES ASSUME CountsTrack, ConsInv, mpc = "destroyed"
                 PROVE  /\ \A p \in Producers : counter[p] = Cardinality(AcceptedFrom(p))
                        /\ consumer_callback_message_counter = Cardinality(accepted)
        BY DEF CountsAtJoin
    <2>1. cpc = "exited" /\ dropped = {}
        BY DEF CountsTrack
    <2>2. accepted \subseteq DeliveredSet \cup dropped
        <3>1. ~pending_message
            BY <2>1 DEF ConsInv, ExitedDrained
        <3>2. QED
            BY <3>1 DEF ConsInv, MessageConservation
    <2>3. DeliveredSet = accepted
        BY <2>1, <2>2 DEF ConsInv, ConsumedAccepted
    <2>4. QED
        BY <2>3 DEF CountsTrack
<1>3. QED
    BY <1>1, <1>2, ExampleConsInv, PTL

====
