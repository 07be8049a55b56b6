----------------------------- MODULE SlotChannel -----------------------------
(***************************************************************************)
(* What the channel promises its users (spec.md sections 1 and 4): a      *)
(* single-slot rendezvous.  A message is accepted only into an empty slot  *)
(* of an open channel, and it leaves the slot either by delivery to the    *)
(* consumer callback or, under the Report policy only, by a drop when the  *)
(* consumer cannot allocate its copy.  A message in the slot eventually    *)
(* leaves it.  Close is terminal.                                          *)
(***************************************************************************)
EXTENDS Sequences

CONSTANTS
    Msgs,           \* the messages producers may send
    DropAllowed     \* error_handling_enabled: the consumer may drop

VARIABLES
    slot,       \* <<>> or <<m>>: the message accepted and not yet consumed
    closed,     \* the channel is closed
    sent,       \* the messages whose send returned true
    out,        \* the messages passed to the consumer callback, in order
    lost        \* the messages dropped by the consumer

avars == <<slot, closed, sent, out, lost>>

Init ==
    /\ slot = <<>>
    /\ closed = FALSE
    /\ sent = {}
    /\ out = <<>>
    /\ lost = {}

(* mpsc_producer_send returns true: the message enters the empty slot.     *)
Accept(m) ==
    /\ ~closed
    /\ slot = <<>>
    /\ slot' = <<m>>
    /\ sent' = sent \cup {m}
    /\ UNCHANGED <<closed, out, lost>>

(* The consumer callback receives the slot's message.                      *)
Deliver ==
    /\ slot # <<>>
    /\ out' = Append(out, Head(slot))
    /\ slot' = <<>>
    /\ UNCHANGED <<closed, sent, lost>>

(* The consumer's copy cannot be allocated: the message is dropped and the *)
(* error callback is called.                                               *)
Drop ==
    /\ DropAllowed
    /\ slot # <<>>
    /\ lost' = lost \cup {Head(slot)}
    /\ slot' = <<>>
    /\ UNCHANGED <<closed, sent, out>>

(* mpsc_consumer_close, the last producer_done after join, or join.        *)
Close ==
    /\ ~closed
    /\ closed' = TRUE
    /\ UNCHANGED <<slot, sent, out, lost>>

Next ==
    \/ \E m \in Msgs : Accept(m)
    \/ Deliver
    \/ Drop
    \/ Close

SafeSpec == Init /\ [][Next]_avars

(* The consumer thread runs whenever the slot is full.                     *)
Spec == SafeSpec /\ WF_avars(Deliver \/ Drop)

=============================================================================
