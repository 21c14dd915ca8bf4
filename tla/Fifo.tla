------------------------------- MODULE Fifo -------------------------------
(***************************************************************************)
(* What a service's message queue promises: the messages that are pushed   *)
(* come out in that order, each one once.                                  *)
(***************************************************************************)
EXTENDS Naturals, Sequences

CONSTANTS Msg, NoMsg

VARIABLES items,    \* the messages in the queue
          message   \* what the last pop gave its caller

fifoVars == <<items, message>>

FifoInit == items = <<>> /\ message = NoMsg

FifoPush(m) == items' = Append(items, m) /\ UNCHANGED message

FifoPop ==
    \/ items # <<>> /\ message' = Head(items) /\ items' = Tail(items)
    \/ items = <<>> /\ message' = NoMsg /\ UNCHANGED items

FifoNext == FifoPop \/ \E m \in Msg : FifoPush(m)
FifoSpec == FifoInit /\ [][FifoNext]_fifoVars
=============================================================================
