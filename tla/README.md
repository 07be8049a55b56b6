# A TLA+ model of c-mpsc

This directory holds a TLA+ model of the multi-producer / single-consumer
channel in `src/src/mpsc.c`: model-checking runs with TLC and proofs with
TLAPS.

## 1. The system

The whole system is one object, `mpsc_t`. A single mutex guards its state,
and it is touched by these threads:

* **main**, which creates the channel (`mpsc_create`), registers producers
  (`mpsc_register_producer`) and joins (`mpsc_join`);
* **one producer thread per registered producer**. Each runs the application's
  task (`my_producer_thread_callback`), which calls `mpsc_producer_send`
  (`send_empty`, `ping`) and may register further producers. When the task
  returns, the thread calls `mpsc_producer_done`;
* **the consumer thread** (`my_consumer_thread_callback`). It waits on the
  channel's condition variable for a pending message or for close, copies
  the slot, elects the head of the wait queue and calls the consumer callback
  without the lock. The callback may call `mpsc_consumer_close` and
  `mpsc_consumer_register_producer`.

### State (`struct mpsc_s`, lines 80-109)

| Field | Meaning |
|---|---|
| `buffer`, `n` | the single slot |
| `pending_message` | the slot holds a message not yet consumed |
| `closed` | the channel is terminally closed |
| `joined` | `mpsc_join` has been entered |
| `n_producers_closed` | producer tasks that have returned |
| `producer_count` | registered producers |
| `producer_waiting_ids_queue[0 .. n_producers_waiting-1]` | the FIFO wait queue of producers blocked in send |
| `next_waiting_producer_id` | the producer the consumer elected to deposit next, or -1 |

There is one condition variable per producer, plus the channel's own.

### Operations and how they interact

* **`send`**
  1. A closed channel returns false.
  2. If the slot is busy or a waiter has been elected (line 313), the
     producer subscribes at the back of the queue. It then sleeps until it is
     elected or the channel closes. When elected, it shifts the queue.
  3. It deposits the message, marks it pending and signals the consumer.
* **consumer loop**
  1. It waits while nothing is pending and the channel is open.
  2. It exits when the channel is closed and nothing is pending.
  3. Otherwise it copies the slot: `malloc` can fail under the Report policy,
     which drops the message. It clears the slot, then elects and signals the
     queue head if the queue is non-empty and the channel is open.
  4. It calls the callback without the lock.
* **`close`** sets `closed` and signals every queued producer.
* **`producer_done`** counts the task. If it is the last one and join has
  been entered, it closes the channel.
* **`join`** has three steps:
  1. It sets `joined` and closes the channel if every task is done.
  2. It joins the consumer, then sets `closed`.
  3. It joins every producer and destroys the channel.

### What is hard here

These are the hazards listed in `PROJECT.json`:

* **Lost wake-ups.** Condition variables do not remember a signal.
* **Handoff overwrite.** A fresh send can overwrite the elected waiter's
  handoff (the NOTE at line 309).
* **Queue bounds.** The queue can overflow, or be shifted while empty.
* **Drain at close.** A message pending at close must still be delivered.
* **Join ordering.** Join and the last `producer_done` each test the other's
  flag, in either order.
* **The error path.** Under the Report policy, the consumer's malloc failure
  changes the protocol's state.
* **Spurious wake-ups.**

## 2. Modules

| Module | What it is |
|---|---|
| `MPSC.tla` | The channel, all threads. Constants `NMaxProducers` (n_max_producers), `BufferSize` (buffer_size), `ErrorHandlingEnabled` (the Report policy) and `MaxSends` (the bound on sends per producer). |
| `MC_MPSC.tla` | Small values of those constants for TLC. |
| `MPSC_proofs.tla` | TLAPS proofs about `MPSC`. |
| `SlotChannel.tla` | The abstract channel users see (spec.md sections 1 and 4): a slot that is empty or holds one message. Its actions are `Accept`, `Deliver`, `Drop` (only when `DropAllowed`) and `Close`. |
| `MPSC_refinement_proofs.tla` | The TLAPS proof that `MPSC` implements the safety part of `SlotChannel`. |
| `MPSC_channel_proofs.tla` | TLAPS proofs of the channel's invariants: the wait queue, message conservation, drain before the terminal callback, FIFO handoff. |
| `MPSC010.tla` | The earlier revision 0.1.0 (`src/unnamed/part_003`): no wait queue, a busy send that retries by recursion, a `producer_done` that does not test `joined`. |
| `MC_MPSC010.tla` | Small constants for `MPSC010`. |
| `MPSC010_proofs.tla` | TLAPS proofs about `MPSC010`: its type invariant and the safety part of its refinement of `SlotChannel`. |
| `MPSCCreate.tla` | `mpsc_create` (111-182) with its parameter check (533-561), its rollback `mpsc_handle_creation_failure` (446-531) and `mpsc_destroy` (430-444). It is single-threaded: one action per allocation or initialisation, each of which may fail. Constant `NMaxProducers` bounds `n_max_producers`. |
| `MC_MPSCCreate.tla` | `n_max_producers` up to 2. |
| `MPSCCreate_proofs.tla` | TLAPS proofs about `MPSCCreate`. |
| `EmptyMessages.tla` | `src/examples/empty_messages.c` composed with `MPSC`. It EXTENDS `MPSC`, and each of its steps is an `MPSC` action plus the example's own code around that call. Constants `MessageThreshold` (MESSAGE_THRESHOLD) and `MaxIter` (the largest `n_max_iter`). |
| `MC_EmptyMessages.tla` | Two producers, threshold 2, `n_max_iter` up to 2. |
| `EmptyMessages_proofs.tla` | TLAPS proofs about `EmptyMessages`. The example is a behaviour of the channel; its type invariant; at most one message counted after close; the counts at join. |

**The refinement mapping `Abs`.** Both `MPSC` and `MPSC010` instantiate
`SlotChannel` with these substitutions:

* `slot` is `<<buffer>>` while `pending_message` holds, and `<<>>` otherwise;
* `sent`, `out` and `lost` are `accepted`, `delivered` and `dropped`;
* `DropAllowed` is `ErrorHandlingEnabled`.

Under this mapping, a deposit is an `Accept`. The consumer's copy is a
`Deliver`, and the malloc failure is a `Drop`. Any step that sets `closed` is
a `Close` or a stutter. Every other step is a stutter.

**`MPSCCreate`: state and actions.**

* **Resources.** A resource is a pair `<<kind, i>>`: the malloc'd blocks
  (self and its five arrays), the condition variables and the mutex. `held`
  is the set of resources acquired and not yet released.
* **Fields.** `field[b]` is `"garbage"`, `"null"` or `"set"`. After
  `malloc(sizeof *self)` every array field is garbage. A rollback test of a
  garbage field against NULL reads an indeterminate value, so the model
  takes either outcome.
* **Failures.** `Call(codes, failures, Ok, Failed, t, i)` is one wrapped
  call (`my_malloc`, `my_condition_variable_init`, ...). It either
  succeeds, or fails with one of `codes`, the codes the primitive can
  return (`MallocCodes`, `CondInitCodes`, `MutexInitCodes`,
  `ThreadCreateCodes`; `"EOTHER"` stands for every code other than ENOMEM
  and EAGAIN). The wrapper aborts the process unless error handling is
  enabled and the code is one of `failures`, the codes it hands back
  (`MallocFailure`, ...). A handed-back failure leaves the code in `errno`
  and moves `pc` to `"rollback"` with the failure type and index that
  `mpsc_create` passes.
* **The wrappers' aborts under error handling.** `my_mutex_init` hands back
  only ENOMEM and aborts on EAGAIN (mpsc.c 700-711). `my_malloc` aborts
  when malloc leaves an errno other than ENOMEM (789-799). mpsc.h 225-227
  calls ENOMEM and EAGAIN from `pthread_mutex_init` handleable, and
  spec.md (section 4.1) says creation reports `Again`. The model follows
  the code, so an EAGAIN from `pthread_mutex_init` ends in `"aborted"`.
  No run states the header's promise, so this disagreement is recorded
  here and not as a finding of a run.
* **Actions.** `MallocSelf`, `MallocBlock(k)`, `CondInitMain`,
  `CondInitProducer`, `MutexInit` and `ThreadCreate` follow the order of
  lines 117-176. `mpsc_handle_creation_failure` releases `Release(D, F)`:
  the synchronisation objects `DestroyedSync(t, i)` says it destroys, and
  the blocks whose fields test non-NULL. A garbage field taken as non-NULL
  is recorded in `bad_free`.
* **Crash.** When self is NULL the rollback's first test dereferences it,
  and `pc` becomes `"crashed"`.

**`EmptyMessages`: state and actions.**

* **State.** The example's variables are those of its contexts (`counter`,
  `n_max_iter`, and `send_failed`, which records that a producer left its
  loop on a false send), the consumer's static counter, `close_called`, and
  `aborted` (a failed assert ends the process).
* **Actions.** `RegisterProducer` is main's loop body. `rand()` becomes a
  choice of `n_max_iter` in 1..`MaxIter`. A refused registration sets
  `aborted` (PRODUCER_ACCEPTED). `ProducerSend(p)` and
  `ProducerSendAfterWait(p)` are one iteration of the producer loop around
  `mpsc_producer_send_empty`. The send returned true exactly when it
  deposited (`accepted` grew). `ConsumerDeliversCounted` fuses the
  callback's increment into the delivery. That is sound because only the
  consumer thread writes the counter, and main reads it only after join.
  `CallbackCloses` is the threshold's `mpsc_consumer_close`.
* **Steps while alive.** `Alive(A)` wraps every step, so that none runs
  once `aborted` holds. Each wrapped step stays its own disjunct of
  `ExampleNext`.

### Modelling choices in `MPSC`

* **Critical sections.** Each critical section (lock … unlock or wait) is one
  atomic action, because the mutex serialises them.
* **Waits.** A thread blocked in `pthread_cond_wait` has pc `"waiting"`. A
  signal turns `"waiting"` into `"signalled"`, and a signal to a thread that
  is not waiting is lost, as in POSIX. The re-test after the wake-up is the
  next action (`SendAfterWait`, or `ConsumerLoop` from `"signalled"`).
  Spurious wake-ups are actions of their own.
* **Messages.** A message is a record `[from, seq, len]`: the sender, its
  sequence number and its length. The payload bytes are not modelled;
  `len` is `n`.
* **History variables.** `accepted` holds the sends that returned true;
  `delivered` holds the callback's inputs, in order; `dropped` holds messages
  lost to malloc failures; `subscribed` holds messages in the order their
  senders entered the wait queue. These let the properties talk about
  messages.
* **Producer thread pc.** It is `"unregistered"`, `"task"` (the task may
  send or return), `"waiting"`/`"signalled"` (in send's wait loop) or
  `"exited"`.
* **Not modelled as choices.** Fatal aborts: a send with n > buffer_size, a
  second join, a join with no producer, a join from another thread, and
  failed pthread calls.

### Actions and the code

| Action | Code (mpsc.c) |
|---|---|
| `Init` | `mpsc_create` 111-182 |
| `mpsc_register_producer` | 233-261; a failed thread creation changes nothing |
| `mpsc_consumer_close` | 268-279 |
| `mpsc_producer_send` | 293-344 up to the first unlock or wait: reject / `Subscribe` (379-410) / `Deposit` (335-343) |
| `SendAfterWait` | the wake-up re-test 317-334, the shift 412-428, then `Deposit` |
| `mpsc_producer_done` | 351-367 |
| `ConsumerLoop` | 579-622: `ConsumerWaits`, `ConsumerBreaks`, `MallocFails`, `ConsumerDelivers` |
| `*CallbackReturn` | the callbacks at 606, 621 and 624 return |
| `JoinStart`, `JoinConsumer`, `JoinProducers` | 186-221, 222-225, 226-230 |

### Fairness (`FairSpec`)

* **Weak fairness** is on every step a thread takes when it is runnable and
  not waiting on the application: the re-test after a wake-up, the consumer
  loop, callback returns, and join's steps.
* **`mpsc_producer_done`** is also weakly fair: producer tasks eventually
  return, which is the library's documented contract for join to return.
* **`MainRegistersFirst`** is weakly fair. Main registers a first producer
  before joining, since `mpsc_join` aborts with none.
* **Not fair:** sends, close, further registrations and spurious wake-ups.
  These are the application's choices, or not guaranteed.

## 3. Runs

| Run | Policy | Constants | Checks | Result |
|---|---|---|---|---|
| `MC_MPSC_abort.cfg` | abort | 3 producers, `BufferSize` 1, one send each | `TypeOK`, `WaitQueueConsistent`, `NoStrandedWaiter`, `MessageConservation`, `FifoHandoff`, `TerminalAfterDrain`, `NoAcceptAfterClose`, `JoinReturns`, `ImplementsSlotChannel` | pass |
| `MC_MPSC_report.cfg` | Report | 2 producers, `BufferSize` 1, two sends each | `MessageConservation`, `FifoHandoff`, `ImplementsSlotChannel` | pass |
| `MC_MPSC_stranded.cfg` | Report | | `NoStrandedWaiter` | violation: finding 1 |
| `MC_MPSC_register_after_join.cfg` | | | `NoRegistrationAfterJoin` | violation: finding 3 |
| `MC_MPSC010.cfg` (module `MC_MPSC010`) | Report | 2 producers, `BufferSize` 1, one send each, 3 frames | `TypeOK`, `ImplementsSlotChannel010`, `JoinReturns010` | pass |
| `MC_MPSC010_early_close.cfg` | abort | as above | `ClosedOnlyByConsumerOrJoin` | violation: finding 4 |
| `MC_MPSC010_stack_growth.cfg` | abort | as above | `NoRecursiveRetry` | violation: finding 5 |
| `MC_MPSCCreate.cfg` (module `MC_MPSCCreate`) | both | `n_max_producers` 0..2, every callback combination | `TypeOK`, `ReleasesExactlyWhatItHolds` | pass |
| `MC_MPSCCreate_garbage_free.cfg` | | as above | `NoInvalidFree` | violation: finding 6 |
| `MC_MPSCCreate_null_self.cfg` | | as above | `NullSelfNotDereferenced` | violation: finding 7 |
| `MC_EmptyMessages.cfg` (module `MC_EmptyMessages`) | abort | 2 producers, `BufferSize` 0, threshold 2, `n_max_iter` 1..2 | `ExampleTypeOK`, `TotalMatchesConsumerCount`, `AtMostOneAfterClose`, `ExampleTerminates` | pass |
| `MC_EmptyMessages_registration.cfg` | abort | as above | `RegistrationsAccepted` | violation: finding 8 |

**Why the bounds are enough.** Three producers are the fewest that put two
in the queue behind a depositor. That reaches an election, a second waiter
behind the elected one, and a fresh send racing the handoff. `BufferSize` 1
lets both empty and non-empty messages occur, which matters for the
malloc-failure branch (n > 0). Two sends per producer (in `report`) make
a producer re-enter the queue after its handoff.

**Bounds for 0.1.0.** `MaxDepth` caps the frames of the recursive send, so
that the state space stays finite. A send that would need more frames waits
in `"retrying"` until the slot is free. Three frames are enough to show the
growth. Two producers are the fewest where one task can return before main
registers the other.

**Bounds for creation.** `n_max_producers` 2 is the smallest value for
which the producer condition-variable loop can fail at a non-first index,
so that the rollback must destroy exactly the earlier ones. 0 exercises the
validation failure. Every call of `mpsc_create` is given the chance to fail.

**Bounds for the example.** The code's constants are 4 producers,
threshold 20 and `n_max_iter` ≤ 15. They are scaled down together: the
threshold (2) is reachable by one producer alone (`MaxIter` 2), and below
the total the producers can send (4). So runs occur where the close lands
while a producer is still sending or waiting, and also runs where it never
happens. Three producers take more than two minutes and add no new case.

**Deadlock checking.** It is off in the passing runs: the program ends
(join returns and the channel is destroyed). `JoinReturns` checks that this
end is always reached.

### Properties

* **`WaitQueueConsistent`.** The queue is injective and holds the blocked
  producers (exactly them while open). The elected producer is its head.
* **`NoStrandedWaiter`.** While open with waiters, some message is pending
  or a waiter is elected (no lost wake-up).
* **`MessageConservation`.** Every accepted message is delivered exactly
  once, dropped, or still in the slot.
* **`FifoHandoff`.** Queued messages are delivered in queue order.
* **`TerminalAfterDrain`.** The final callback comes after every accepted
  message is delivered or dropped.
* **`NoAcceptAfterClose`.** No send succeeds after close.
* **`JoinReturns`.** Join returns under `FairSpec`.
* **`ImplementsSlotChannel`** (and `ImplementsSlotChannel010`). The model
  implements `SlotChannel!Spec` under `Abs`. That means no deposit into a
  full slot, and the consumer receives exactly the slot's message with its
  length. Drops happen only under the Report policy, and a pending message
  is eventually consumed.
* **`ClosedOnlyByConsumerOrJoin`** (0.1.0). The channel is closed only by
  the consumer or after join.
* **`NoRecursiveRetry`** (0.1.0). A send never holds more than one frame
  beyond its first.

* **`JoinLoopCountStable`.** This is an action property. Once join's
  producer loop may run, no step changes `producer_count`, so the loop's
  unlocked read (mpsc.c 226) sees a stable value.
* **`ReleasesExactlyWhatItHolds`** (creation). When `mpsc_create` has
  returned NULL or `mpsc_destroy` has run, nothing is held. No mutex or
  condition variable that was never initialised was destroyed.
* **`TotalMatchesConsumerCount`** (example). This is main's final assert.
  Once join has returned, the sends that returned true, summed over the
  producers, equal the consumer's count. The consumer closes the channel
  while producers are still sending.
* **`AtMostOneAfterClose`** (example). The consumer counts at most one
  message past the threshold: the one deposited before the close took
  effect.
* **`ExampleTerminates`** (example). The program ends, or an assert ends
  it.

Every property of a passing run has a mutant in `PROJECT.json`: a plausible
bug in the definition it depends on, which TLC finds.

### Findings

1. **The malloc-failure branch (mpsc.c 599-607) skips the election.** Under
   the Report policy, it clears `pending_message` without electing the queue
   head. Queued producers stay asleep until some other send deposits.
2. **Join can hang.** This is a consequence of finding 1, recorded with
   it. When no other send comes, the stranded tasks never return and
   `mpsc_join` blocks forever. `JoinReturns` is checked as a pass only
   under the abort policy.
3. **Registration after join.** `mpsc_register_producer` checks `closed`
   but not `joined`, so a producer can be registered after join was entered.
   The spec says this must fail.
4. **0.1.0 closes early** (part_003 line 290). `mpsc_producer_done` closes
   the channel when every registered task has returned, whether or not join
   was entered. When a first task returns before main registers the second
   producer, that registration fails.
5. **0.1.0 grows the stack** (part_003 line 265). A busy send unlocks and
   calls itself, one frame per retry, for as long as the consumer keeps the
   slot busy. spec.md section 7 forbids reintroducing this, and the 0.1.1
   CHANGELOG records its removal.

6. **The rollback frees garbage** (mpsc.c 505). When the malloc of
   `buffer` (or of a later array) fails, `mpsc_handle_creation_failure`
   tests the array fields of self against NULL. Those fields were never
   assigned, since malloc does not zero them. So it may free indeterminate
   pointers.
7. **A failed malloc of self crashes** (mpsc.c 117). The rollback is called
   with a NULL self and dereferences it at line 505. The process crashes
   instead of returning NULL with ENOMEM.
8. **empty_messages.c can abort** (line 94). main registers the producers
   one by one while the registered ones are already sending. Once the
   consumer's count reaches MESSAGE_THRESHOLD, it closes the channel, and
   the next registration returns `MPSC_REGISTER_PRODUCER_ERROR_CLOSED`.
   Then PRODUCER_ACCEPTED's assert fails. With the example's own constants,
   three producers can send 20 messages before the fourth is registered.

**Fairness of the example.** The loops of main and of the producers make
their calls unconditionally, and the consumer thread always runs its
callback. So every step of `ExampleSpec` is weakly fair, except the
spurious wake-ups.

## 4. Proofs (`MPSC_proofs.tla`, `MPSC_refinement_proofs.tla`, `MPSC_channel_proofs.tla`, `MPSC010_proofs.tla`, `MPSCCreate_proofs.tla`, `EmptyMessages_proofs.tla`)

**`TypeCorrect`: `Spec => []TypeOK`, for all constants satisfying the
assumptions.** The assumptions are `NMaxProducers` ∈ Nat \ {0},
`BufferSize` ∈ Nat, `MaxSends` ∈ Nat and `ErrorHandlingEnabled` ∈ BOOLEAN.

* **Why `TypeOK` needs strengthening.** It is not inductive: the shift takes
  the `Tail` of the queue, which is a sequence only when the queue is
  non-empty.
* **The inductive invariant.** It is `TypeOK /\ ElectedHasQueue`, where
  `ElectedHasQueue` says an elected producer implies a non-empty queue. The
  proof has one case per action. Each case first derives the action's
  equalities, then the types.
* **Lemmas.** `MsgIntro` and `MsgFields` keep `Msgs` opaque.

**`NoLostWakeup`: `Spec => []NoStrandedWaiter` under the abort policy.** The
inductive invariant is `TypeInv /\ NoStrandedWaiter`. The Report policy is
excluded by hypothesis, because there the property is false (finding 1).

**`AcceptOnlyWhileOpen`: `Spec => NoAcceptAfterClose`.** This is an action
property. Its lemma `AcceptStep` shows that every step that starts closed
leaves `accepted` unchanged.

**`ImplementsSlotChannelSafety`: `Spec => Abs!SafeSpec`**, in
`MPSC_refinement_proofs.tla`.

* **The inductive invariant.** It is `RefInv`: `TypeInv`, plus `SlotLen`
  (a pending slot's `n` is its message's length), plus `ElectedSlotFree`
  (while a waiter is elected, the slot is free). Without `ElectedSlotFree`,
  an elected producer's deposit could not be shown to be an `Accept` into an
  empty slot. Without `SlotLen`, the consumer's record `[from, seq, len |-> n]`
  could not be shown to be the slot's message.
* **`RefStep`.** Every step of `Next` is an `Abs!Next` step or a stutter.
  The cases are the deposit (`DepositStep`), drop, deliver, close
  (`CloseStep`), and the steps that leave the abstract state unchanged
  (`StutterStep`).
* **Liveness.** The liveness half, `WF(Deliver \/ Drop)`, is checked by TLC
  only.

**`JoinLoopReadsStableCount`: `Spec => JoinLoopCountStable`.** The
supporting invariant is that, while join's loop may run, either the
channel is closed or every registered producer's task has returned
(`JoinClosed`). Registration then fails (closed), so no step increments
`producer_count`.

**The channel's invariants** (`MPSC_channel_proofs.tla`). The four
safety properties the `MPSC` runs check, `WaitQueueConsistent`,
`MessageConservation`, `TerminalAfterDrain` and `FifoHandoff`, are proved
for every value of the constants: theorems `WaitQueueSound`,
`Conservation`, `DrainBeforeTerminal` and `FifoOrder`. Each rests on an
inductive invariant that TLC checked on the abort and report instances
before it was proved. Each one extends the previous.

* **`QueueInv`, for the wait queue.** It is `TypeInv /\
  WaitQueueConsistent /\ RegisteredPrefix`. `RegisteredPrefix` says the
  registered slots are exactly those below `producer_count`. It is needed
  because `mpsc_register_producer` starts the thread of slot
  `producer_count` without looking at it. Only the fact that this slot was
  never used keeps a blocked producer from being overwritten, which would
  leave it in the queue without being blocked.
* **`ConsInv`, for conservation and drain.** It is `RefInv` from the
  refinement proof, plus five facts:
  * `SentBelowCount`: every accepted message has a sequence number at most
    `nsent` of its producer. So the message a send builds is fresh.
  * `BlockedHoldsOwn`: a blocked producer holds its own latest,
    unaccepted message.
  * `PendingFresh`: the pending message is accepted, and neither delivered
    nor dropped.
  * `ConsumedAccepted`: delivered and dropped messages were accepted.
  * `ExitedDrained`: the consumer is past its loop only when the channel
    is closed and nothing is pending.

  `DepositKeeps` is the one lemma both deposits (the fresh send and the
  elected waiter) use.
* **`FifoInv`, for FIFO handoff.** It adds facts about `subscribed`, the
  history of wait-queue entries:
  * `SubscribedFresh`: the entries are distinct and no newer than `nsent`.
  * `BlockedSubscribed`: every blocked producer's message is among them.
  * `QueueOrder`: two blocked producers in the queue appear in the order
    their messages were subscribed.
  * `HandoffOrder`: once a message has reached the slot or the consumer,
    every message subscribed before it is `Settled`. That means it was
    dropped, or it is `Dead` (never accepted, and its producer no longer
    waits holding it, because it returned false on close), or it was
    delivered, and delivered earlier.

  The key case is `FifoElectedDeposit`. The elected producer is the head
  of the queue (`QueueInv`). Take a message subscribed before the head's
  one. If it was accepted, the slot is free (`ElectedSlotFree`), so
  conservation puts it among the delivered or dropped messages. If it was
  not accepted and is not dead, its producer is blocked further back in
  the queue. `QueueOrder` and injectivity then contradict the order of
  subscription. The other cases are `FifoSubscribe`, `FifoFreshDeposit`,
  `FifoDeliver` and `FifoDrop`, plus the frame lemma `FifoFrame`.
* **Sequence lemmas.** The proofs rest on `RangeAppend`, `InjectiveAppend`,
  `HeadAppend` and `TailShift`: the range and injectivity of a sequence
  after `Append` and after `Tail`.

**`CreateTypeCorrect` and `CreateReleasesExactly`** (`MPSCCreate_proofs`).
These are `Spec => []TypeOK` and `Spec => []ReleasesExactlyWhatItHolds`,
for every `NMaxProducers` ∈ Nat \ {0}. They rest on one inductive
invariant `Inv`:

* **What `Inv` says.** While `mpsc_create` runs, `held` is exactly
  `HeldMem ∪ SyncHeld`, and `bad_destroy` is empty. `HeldMem` is self plus
  the arrays whose field is set. `SyncHeld` is the synchronisation objects
  that the step `pc` has reached has initialised. Before an array's malloc,
  that array and all later ones are still garbage (`Fresh(k)`). The
  producer condition-variable index stays below `n_max_producers`.
* **Why `Fresh` is needed.** Without it, the rollback after a failed
  `MallocBlock(k)` could not be shown to free only blocks that are held.
  The rollback's tests of later fields must find them unassigned, and the
  model then records them in `bad_free`, not in `held`.
* **Lemmas.** `BlockOrderInjective`, `PcvsNext` (the set of initialised
  producer condition variables grows by one per loop step), and
  `DestroyedSyncType`.
* **Structure.** `TypeStep` and `InvStep` split each action on where `pc`
  lands next: the next step, the rollback, or an end state.

**Revision 0.1.0** (`MPSC010_proofs`). `TypeCorrect010` proves
`Spec => []TypeOK` and `ImplementsSlotChannel010Safety` proves
`Spec => Abs!SafeSpec`, for every value of the constants. The
assumptions are `NMaxProducers` and `MaxDepth` in Nat \ {0}, and
`BufferSize` and `MaxSends` in Nat.

* **The inductive invariant.** It is `RefInv010 == TypeOK /\ SlotLen010`.
  `SlotLen010` says a pending slot's `n` is its message's length. The
  type proof does not need it, but the refinement's deliver step does.
  `TypeOK` is inductive by itself here, since 0.1.0 has no queue whose
  `Tail` could leave the sequences.
* **`SendCallInv` and `SendCallStep`.** They cover one call of the
  recursive `mpsc_producer_send` under the lock, shared by the first call
  and by `SendRetry`. The recursion on a busy slot adds one frame, below
  `MaxDepth`, and is an abstract stutter. The deposit happens only when
  `pending_message` is false on an open channel, so it is an `Accept`.
* **The mapping.** `close`, `JoinConsumer` and `producer_done` only close
  the channel (`CloseStep010`).
* **Liveness.** `ImplementsSlotChannel010` itself (with
  `WF(Deliver \/ Drop)`) and `JoinReturns010` stay with TLC.

**The example** (`EmptyMessages_proofs`). These theorems hold for every
number of producers, threshold and `n_max_iter` bound that
`ExampleAssumption` allows.

* **`ExampleUsesChannel`: `ExampleSpec => Spec`.** Each step of the
  example is one library call of `MPSC`, or it leaves the channel alone
  (a failed `PRODUCER_ACCEPTED` assert). This is `ExampleStepIsChannelStep`.
  So every invariant proved of `MPSC` holds of the example:
  `ExampleQueueInv` and `ExampleConsInv` carry `QueueInv` and `ConsInv`
  over.
* **`ExampleTypeCorrect`: `ExampleSpec => []ExampleTypeOK`.** It proves
  `ExampleTypeOK`, which the `empty_messages` run checks. Its inductive
  invariant is `ExampleInv`. Besides the shapes of the variables,
  `ExampleInv` needs `CountersBounded`. That says a producer blocked in
  the wait loop of `mpsc_producer_send` has a counter strictly below its
  `n_max_iter`. The resumed send counts its success without testing the
  loop condition again, so without this fact the counter could not be
  shown to stay in `0 .. MaxIter`. It also says a slot not yet registered
  has counted nothing, which makes main's draw of `n_max_iter` safe.
  `ExampleInvStep` assumes `QueueInv` before and after the step; this
  gives the types of the channel and `RegisteredPrefix`.
* **`OneAfterClose`: `ExampleSpec => []AtMostOneAfterClose`.** It rests on
  `CloseAtThreshold`, which is part of `ExampleInv`. While the counter
  equals the threshold and the callback has not closed, the consumer is
  still in that callback. `CallbackReturns` is guarded, so the callback
  cannot return before its close. `close_called` implies `closed`. A
  counter one above the threshold implies the channel is closed with
  nothing pending. The only step that adds to the counter is a delivery of
  the pending message, and no deposit happens on a closed channel.
* **`CountedAtJoin`: `ExampleSpec => []CountsAtJoin`.** After join, each
  producer's counter equals `Cardinality` of its accepted messages, and
  the consumer's counter equals `Cardinality(accepted)`. Its inductive
  invariant `CountsTrack` says:
  * `accepted` is finite;
  * the counters are those cardinalities;
  * the consumer's counter is the size of the delivered set;
  * nothing is dropped;
  * join gets past the consumer only after it has exited.

  The deposit case (`CountsDeposit`) uses `SentBelowCount` and
  `BlockedHoldsOwn` of `ConsInv`: the message of a successful send was
  never accepted before. The delivery case (`CountsDeliver`) uses
  `PendingFresh`, `SlotLen` and `RangeAppend`. The cardinality facts are
  `FS_AddElement` and `FS_Subset` of FiniteSetTheorems. At join,
  `ExitedDrained` and `MessageConservation` make the delivered set equal
  `accepted`.

What the prover cannot reach stays with TLC:

* **Liveness.** `JoinReturns`, `JoinReturns010` and `ExampleTerminates`
  are liveness properties under fairness, and so is the fairness half of
  `ImplementsSlotChannel` and `ImplementsSlotChannel010`.
* **`TotalMatchesConsumerCount`.** This is the sum in main's assert.
  `CountedAtJoin` proves everything up to that sum. What remains is that
  the cardinalities of the producers' accepted sets add up to the
  cardinality of their union. That is a fact about the fold
  `SumFunction` over `0 .. NMaxProducers - 1`, which needs induction over
  the domain. The installed provers cannot instantiate the library's
  induction theorems, so this identity, and with it the property, is
  checked by TLC on the run's bounds.

## 5. Not modelled

* **The fatal-error wrappers** (628-807). `MPSCCreate` models the four
  wrappers creation calls, with their aborts as the end state
  `"aborted"`. The wrappers of lock, unlock, signal, wait, join and destroy
  abort on any pthread error; the models do not choose such an error.
* **malloc(0).** With `buffer_size` 0, `my_malloc(0)` may return NULL or a
  unique pointer. glibc, the build's platform, returns a unique pointer,
  so the model offers no NULL result for it.
* **In `MPSC010`.** The same fatal paths, creation and validation as above
  are left out.
* **The other examples and the build.** quick_example, sleeping_consumer
  and complex_message_type use the channel the way `MPSC`'s runs already
  do. fetch_multiple_urls is network I/O through libcurl. The Makefile and
  the changelog are packaging.
