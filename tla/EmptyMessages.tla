---------------------------- MODULE EmptyMessages ----------------------------
(***************************************************************************)
(* src/examples/empty_messages.c run on the channel of MPSC: main creates  *)
(* a channel with buffer_size 0 and error handling off, registers          *)
(* N_PRODUCERS producers (each with a random n_max_iter) and joins; each   *)
(* producer sends empty messages until a send fails or it has sent         *)
(* n_max_iter; the consumer callback counts messages and calls             *)
(* mpsc_consumer_close when the count reaches MESSAGE_THRESHOLD.  After    *)
(* join, main asserts that the producers' counts add up to the consumer's. *)
(*                                                                         *)
(* Each step of the example is a step of MPSC (the library call it makes)  *)
(* together with what the example's own code does around that call; the    *)
(* example's variables are those of its contexts and its static counter.   *)
(* A failed assert terminates the process: "aborted" disables every step.  *)
(***************************************************************************)
EXTENDS MPSC

CONSTANTS
    MessageThreshold, \* MESSAGE_THRESHOLD
    MaxIter           \* RANDOM_INTEGER_UPPER_BOUND - 1: n_max_iter \in 1 .. MaxIter

ASSUME ExampleAssumption ==
    /\ MessageThreshold \in Nat \ {0}
    /\ MaxIter \in Nat \ {0}
    /\ MaxIter < MaxSends   \* the library-side bound never stops the example
    /\ BufferSize = 0
    /\ ~ErrorHandlingEnabled

VARIABLES
    counter,                           \* contexts[i].counter
    n_max_iter,                        \* contexts[i].n_max_iter
    send_failed,                       \* producer i left its loop on a false send
    consumer_callback_message_counter, \* the consumer's static counter
    close_called,                      \* the callback has called mpsc_consumer_close
    aborted                            \* an assert failed: the process is gone

example == <<counter, n_max_iter, send_failed, consumer_callback_message_counter,
             close_called, aborted>>
allvars == <<vars, example>>

(* Plausible bugs of the example, used by the mutation runs.               *)
\* The loop test written as counter <= n_max_iter.
ProducerLoopContinues_OffByOne(p) ==
    ~send_failed[p] /\ counter[p] <= n_max_iter[p]

(* n_max_iter is set in main's loop before the producer is registered;     *)
(* the contexts are not read before then.                                  *)
ExampleInit ==
    /\ Init
    /\ counter = [p \in Producers |-> 0]
    /\ n_max_iter = [p \in Producers |-> 0]
    /\ send_failed = [p \in Producers |-> FALSE]
    /\ consumer_callback_message_counter = 0
    /\ close_called = FALSE
    /\ aborted = FALSE

-----------------------------------------------------------------------------
(* main: the registration loop.  PRODUCER_ACCEPTED asserts that           *)
(* mpsc_register_producer returned MPSC_REGISTER_PRODUCER_ERROR_NONE.      *)
RegisterProducer ==
    /\ mpc = "running"
    /\ producer_count < NMaxProducers
    /\ \/ /\ RegisterAllowed
          /\ mpsc_register_producer
          /\ \E k \in 1 .. MaxIter :
                n_max_iter' = [n_max_iter EXCEPT ![producer_count] = k]
          /\ UNCHANGED <<counter, send_failed, consumer_callback_message_counter,
                         close_called, aborted>>
       \/ /\ ~RegisterAllowed
          /\ aborted' = TRUE
          /\ UNCHANGED <<vars, counter, n_max_iter, send_failed,
                         consumer_callback_message_counter, close_called>>

(* main: mpsc_join once every producer is registered.                     *)
Join ==
    /\ producer_count = NMaxProducers
    /\ JoinStart
    /\ UNCHANGED example

-----------------------------------------------------------------------------
(* my_producer_thread_callback: the while (true) loop goes on while no     *)
(* send has failed and counter has not reached n_max_iter.                 *)
ProducerLoopContinues(p) == ~send_failed[p] /\ counter[p] # n_max_iter[p]

(* A send returned true exactly when its message was deposited.            *)
SendReturnedTrue == accepted' # accepted

(* What the loop does with the result of mpsc_producer_send_empty.         *)
CountResult(p, returned_false) ==
    /\ counter' = IF SendReturnedTrue THEN [counter EXCEPT ![p] = @ + 1]
                                      ELSE counter
    /\ send_failed' = IF returned_false THEN [send_failed EXCEPT ![p] = TRUE]
                                        ELSE send_failed
    /\ UNCHANGED <<n_max_iter, consumer_callback_message_counter, close_called,
                   aborted>>

(* One iteration: mpsc_producer_send_empty, i.e. mpsc_producer_send with   *)
(* n = 0, up to its return or its first wait.                              *)
ProducerSend(p) ==
    /\ ProducerLoopContinues(p)
    /\ mpsc_producer_send(p, 0)
    /\ CountResult(p, SendRejected)

(* The same call resumed after a wake-up in its wait loop.                 *)
ProducerSendAfterWait(p) ==
    /\ SendAfterWait(p)
    /\ CountResult(p, closed)

(* The loop is left: the task returns and the thread calls                 *)
(* mpsc_producer_done.                                                     *)
ProducerExits(p) ==
    /\ ~ProducerLoopContinues(p)
    /\ mpsc_producer_done(p)
    /\ UNCHANGED example

-----------------------------------------------------------------------------
(* my_consumer_callback.  It runs on the consumer thread right after the   *)
(* consumer loop unlocks, and only main reads its counter, after join: so  *)
(* its increment is part of the delivery step.  MallocFails cannot happen: *)
(* n = 0 and error handling is off.                                        *)
ConsumerDeliversCounted ==
    /\ cpc \in {"top", "signalled"}
    /\ ConsumerDelivers
    /\ consumer_callback_message_counter' = consumer_callback_message_counter + 1
    /\ UNCHANGED <<counter, n_max_iter, send_failed, close_called, aborted>>

ConsumerLoopIdle ==
    /\ cpc \in {"top", "signalled"}
    /\ ConsumerWaits \/ ConsumerBreaks
    /\ UNCHANGED example

(* The threshold is reached: the callback calls mpsc_consumer_close.       *)
CallbackCloses ==
    /\ consumer_callback_message_counter = MessageThreshold
    /\ ~close_called
    /\ mpsc_consumer_close
    /\ close_called' = TRUE
    /\ UNCHANGED <<counter, n_max_iter, send_failed,
                   consumer_callback_message_counter, aborted>>

(* The callback returns (after the close, if it made one).                 *)
CallbackReturns ==
    /\ consumer_callback_message_counter # MessageThreshold \/ close_called
    /\ ConsumerCallbackReturn
    /\ UNCHANGED example

-----------------------------------------------------------------------------
(* A step of the example, while the process runs.                        *)
Alive(A) == ~aborted /\ A

ExampleNext ==
    \/ Alive(RegisterProducer)
    \/ Alive(Join)
    \/ Alive(JoinConsumer /\ UNCHANGED example)
    \/ Alive(JoinProducers /\ UNCHANGED example)
    \/ \E p \in Producers : Alive(ProducerSend(p))
    \/ \E p \in Producers : Alive(ProducerSendAfterWait(p))
    \/ \E p \in Producers : Alive(ProducerExits(p))
    \/ Alive(ConsumerDeliversCounted)
    \/ Alive(ConsumerLoopIdle)
    \/ Alive(CallbackCloses)
    \/ Alive(CallbackReturns)
    \/ Alive(FinalCallbackReturn /\ UNCHANGED example)
    \/ \E p \in Producers : Alive(SpuriousWakeupProducer(p) /\ UNCHANGED example)
    \/ Alive(SpuriousWakeupConsumer /\ UNCHANGED example)

(* Every thread of the example runs its code to the end: the loops of main *)
(* and of the producers make their calls unconditionally, so each of their *)
(* steps is weakly fair; spurious wake-ups are not.                        *)
ExampleFairness ==
    /\ WF_allvars(Alive(RegisterProducer))
    /\ WF_allvars(Alive(Join))
    /\ WF_allvars(Alive(JoinConsumer /\ UNCHANGED example))
    /\ WF_allvars(Alive(JoinProducers /\ UNCHANGED example))
    /\ \A p \in Producers : WF_allvars(Alive(ProducerSend(p)))
    /\ \A p \in Producers : WF_allvars(Alive(ProducerSendAfterWait(p)))
    /\ \A p \in Producers : WF_allvars(Alive(ProducerExits(p)))
    /\ WF_allvars(Alive(ConsumerDeliversCounted))
    /\ WF_allvars(Alive(ConsumerLoopIdle))
    /\ WF_allvars(Alive(CallbackCloses))
    /\ WF_allvars(Alive(CallbackReturns))
    /\ WF_allvars(Alive(FinalCallbackReturn /\ UNCHANGED example))

ExampleSpec == ExampleInit /\ [][ExampleNext]_allvars /\ ExampleFairness

-----------------------------------------------------------------------------
ExampleTypeOK ==
    /\ TypeOK
    /\ counter \in [Producers -> 0 .. MaxIter]
    /\ n_max_iter \in [Producers -> 0 .. MaxIter]
    /\ send_failed \in [Producers -> BOOLEAN]
    /\ consumer_callback_message_counter \in Nat
    /\ close_called \in BOOLEAN
    /\ aborted \in BOOLEAN

\* The assert of main after mpsc_join (empty_messages.c:105): the number of
\* sends that returned true, summed over the producers, equals the number
\* of messages the consumer callback counted, although the consumer closes
\* the channel while producers are still sending or waiting.
TotalMatchesConsumerCount ==
    mpc = "destroyed" =>
        SumFunction(counter) = consumer_callback_message_counter

\* The header comment of empty_messages.c: a message received by the
\* channel before the request to close is still delivered, so the consumer
\* may count one more message after it called mpsc_consumer_close, and no
\* more than one.
AtMostOneAfterClose ==
    consumer_callback_message_counter <= MessageThreshold + 1

\* The example runs to its end: main's join returns (or an assert ends the
\* process) with no thread left blocked, even when the consumer closes the
\* channel on producers waiting in send.
ExampleTerminates == <>(mpc = "destroyed" \/ aborted)

\* PRODUCER_ACCEPTED (empty_messages.c:94): every registration of main's
\* loop succeeds.
RegistrationsAccepted == ~aborted

=============================================================================
