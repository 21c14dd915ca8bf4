------------------------------ MODULE MCKernel ------------------------------
(***************************************************************************)
(* Kernel for TLC: two workers, of which one takes messages in batches.    *)
(* Service a handles messages, sends and launches b; or a and c handle one *)
(* message each, so that either may end a service that the other launches. *)
(***************************************************************************)
EXTENDS Kernel

CONSTANTS w1, w2, timer, a, b, c

MCWeight == [w \in Worker |-> IF w = w1 THEN -1 ELSE 0]

VARIABLE part
Pair == INSTANCE Kernel WITH Boot <- {a, c}, BootMsgs <- 1, MaxMsgs <- 1
SendPart == part = "send" /\ KernelNext /\ alloc'[c] = alloc[c]
PairPart == part = "pair" /\ Pair!KernelNext

MCSpec == /\ (part = "send" /\ KernelInit) \/ (part = "pair" /\ Pair!KernelInit)
          /\ [][UNCHANGED part /\ (SendPart \/ PairPart)]_<<kernelVars, part>>
          /\ KernelFairness

\* Workers and launching threads use the queues only in ways that the
\* argument about skynet_mq.c (MessageQueue) allows.
QueuesUsedWell ==
    /\ IF part = "send" THEN MQ!MqInit ELSE Pair!MQ!MqInit
    /\ [][MQ!MqNext]_(MQ!mqVars)
=============================================================================
