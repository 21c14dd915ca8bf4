---------------------------- MODULE RingBuffer ----------------------------
(***************************************************************************)
(* The array of a struct message_queue (skynet_mq.c): a ring of cap slots  *)
(* that is doubled when a push fills it.  Every operation holds the        *)
(* queue's spinlock, so each is one step.                                  *)
(***************************************************************************)
EXTENDS Integers, Sequences, FiniteSetsExt

CONSTANTS Msg, NoMsg,
          DEFAULT_QUEUE_SIZE, MQ_OVERLOAD,
          MaxLength         \* bounds the messages in the ring

ASSUME MsgAssumption == NoMsg \notin Msg
ASSUME SizeAssumption == /\ DEFAULT_QUEUE_SIZE \in Nat \ {0} /\ MQ_OVERLOAD \in Nat \ {0}
                         /\ MaxLength \in Nat

VARIABLES queue, head, tail, cap,
          overload, overload_threshold,
          message           \* the caller's message of the last pop

ringVars == <<queue, head, tail, cap, overload, overload_threshold, message>>

\* i slots after head, for i < cap
At(i) == (head + i) % cap

skynet_mq_length == IF head <= tail THEN tail - head ELSE tail + cap - head

\* The messages in the ring, oldest first
Contents == [i \in 1..skynet_mq_length |-> queue[At(i - 1)]]

RingInit ==
    /\ cap = DEFAULT_QUEUE_SIZE
    /\ queue = [i \in 0..(DEFAULT_QUEUE_SIZE - 1) |-> NoMsg]
    /\ head = 0 /\ tail = 0
    /\ overload = 0 /\ overload_threshold = MQ_OVERLOAD
    /\ message = NoMsg

\* The first doubling of the threshold that length does not exceed
Raised(threshold, length) ==
    Min({t \in {threshold * 2^k : k \in 0..length} : length <= t})

skynet_mq_pop ==
    IF head # tail
    THEN LET next == IF head + 1 >= cap THEN 0 ELSE head + 1
             length == IF tail - next < 0 THEN tail - next + cap ELSE tail - next
         IN  /\ message' = queue[head]
             /\ head' = next
             /\ overload_threshold' = Raised(overload_threshold, length)
             /\ overload' = IF length > overload_threshold THEN length ELSE overload
             /\ UNCHANGED <<queue, tail, cap>>
    ELSE /\ message' = NoMsg
         /\ overload_threshold' = MQ_OVERLOAD
         /\ UNCHANGED <<queue, head, tail, cap, overload>>

\* Mutant of expand_queue: the messages are copied from slot 0 on
ExpandUnrotated(q) ==
    /\ queue' = [i \in 0..(2 * cap - 1) |-> IF i < cap THEN q[i] ELSE NoMsg]
    /\ head' = 0 /\ tail' = cap /\ cap' = 2 * cap

\* A full ring is copied from its head on into one of twice the size
expand_queue(q) ==
    /\ queue' = [i \in 0..(2 * cap - 1) |-> IF i < cap THEN q[At(i)] ELSE NoMsg]
    /\ head' = 0 /\ tail' = cap /\ cap' = 2 * cap

skynet_mq_push(m) ==
    LET q == [queue EXCEPT ![tail] = m]
        next == IF tail + 1 >= cap THEN 0 ELSE tail + 1
    IN  /\ \/ head = next /\ expand_queue(q)
           \/ /\ head # next /\ queue' = q /\ tail' = next
              /\ UNCHANGED <<head, cap>>
        /\ UNCHANGED <<overload, overload_threshold, message>>

skynet_mq_overload ==
    /\ overload # 0
    /\ overload' = 0
    /\ UNCHANGED <<queue, head, tail, cap, overload_threshold, message>>

RingNext ==
    \/ skynet_mq_pop
    \/ skynet_mq_overload
    \/ \E m \in Msg : skynet_mq_length < MaxLength /\ skynet_mq_push(m)
RingSpec == RingInit /\ [][RingNext]_ringVars

-----------------------------------------------------------------------------
\* The ring's indices stay in the ring, and a slot is always free, so that
\* head = tail means empty and never full.
RingTypeOK ==
    /\ cap \in Nat \ {0}
    /\ head \in 0..(cap - 1) /\ tail \in 0..(cap - 1)
    /\ queue \in [0..(cap - 1) -> Msg \cup {NoMsg}]
    /\ message \in Msg \cup {NoMsg}
    /\ overload \in Nat /\ overload_threshold \in Nat \ {0}

\* skynet_mq_push and skynet_mq_pop never give out a slot that holds no
\* message, whatever wrapped around before and however often the ring grew.
NoHole == \A i \in 1..skynet_mq_length : queue[At(i - 1)] \in Msg

\* Through every wrap and growth the ring is a first-in first-out queue:
\* the loop of expand_queue copies the messages in order and the caller of
\* skynet_mq_pop gets the oldest.
Order == INSTANCE Fifo WITH items <- Contents
RingIsFifo == Order!FifoSpec
=============================================================================
