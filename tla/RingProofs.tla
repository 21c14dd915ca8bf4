----------------------------- MODULE RingProofs -----------------------------
(***************************************************************************)
(* The ring of skynet_mq.c implements a first-in first-out queue, for any  *)
(* first size and any number of messages.                                  *)
(***************************************************************************)
EXTENDS RingBuffer, TLAPS

\* The part of RingTypeOK that the order of the messages depends on
RingShape ==
    /\ cap \in Nat \ {0}
    /\ head \in 0..(cap - 1) /\ tail \in 0..(cap - 1)
    /\ queue \in [0..(cap - 1) -> Msg \cup {NoMsg}]

RingInv == RingShape /\ NoHole

LEMMA ModBelow == \A c \in Nat \ {0}, x \in Nat : x < c => x % c = x
  BY SMTT(30)

LEMMA ModAbove == \A c \in Nat \ {0}, x \in Nat : c <= x /\ x < 2 * c => x % c = x - c
  BY SMTT(30)

\* Where the slots of the ring are
Wraps ==
    /\ \A i \in 0..(cap - 1) :
          /\ At(i) = (IF head + i < cap THEN head + i ELSE head + i - cap)
          /\ At(i) \in 0..(cap - 1)
    /\ skynet_mq_length \in 0..(cap - 1)
    /\ At(skynet_mq_length) = tail
    /\ At(0) = head
    /\ \A i \in 0..(cap - 1) : At(i) = tail => i = skynet_mq_length

LEMMA AtWraps == RingShape => Wraps
  <1> SUFFICES ASSUME RingShape PROVE Wraps
    OBVIOUS
  <1>1. ASSUME NEW i \in 0..(cap - 1)
        PROVE  At(i) = (IF head + i < cap THEN head + i ELSE head + i - cap)
    <2>1. head + i \in Nat /\ head + i < 2 * cap /\ cap \in Nat \ {0}
      BY DEF RingShape
    <2>2. CASE head + i < cap
      BY <2>1, <2>2, ModBelow DEF At
    <2>3. CASE ~(head + i < cap)
      <3>1. cap <= head + i
        BY <2>1, <2>3
      <3>2. (head + i) % cap = (head + i) - cap
        BY <2>1, <3>1, ModAbove
      <3>3. At(i) = head + i - cap
        BY <2>1, <3>2 DEF At, RingShape
      <3> QED BY <2>3, <3>3
    <2> QED BY <2>2, <2>3
  <1>2. skynet_mq_length \in 0..(cap - 1)
    BY DEF RingShape, skynet_mq_length
  <1>3. At(skynet_mq_length) = tail
    BY <1>1, <1>2 DEF RingShape, skynet_mq_length
  <1>4. At(0) = head /\ \A i \in 0..(cap - 1) : At(i) \in 0..(cap - 1)
    BY <1>1 DEF RingShape
  <1>5. \A i \in 0..(cap - 1) : At(i) = tail => i = skynet_mq_length
    BY <1>1 DEF RingShape, skynet_mq_length
  <1> QED BY <1>1, <1>2, <1>3, <1>4, <1>5 DEF Wraps

Listed ==
    /\ Contents \in Seq(Msg) /\ Len(Contents) = skynet_mq_length
    /\ \A i \in 1..skynet_mq_length : Contents[i] = queue[At(i - 1)]

LEMMA ContentsSeq == RingInv => Listed
  <1> SUFFICES ASSUME RingInv PROVE Listed
    OBVIOUS
  <1>1. skynet_mq_length \in Nat
    BY AtWraps DEF RingInv, RingShape, Wraps
  <1>2. \A i \in 1..skynet_mq_length : queue[At(i - 1)] \in Msg
    BY DEF RingInv, NoHole
  <1>3. Contents \in [1..skynet_mq_length -> Msg]
    BY <1>2 DEF Contents
  <1>4. \A i \in 1..skynet_mq_length : Contents[i] = queue[At(i - 1)]
    BY DEF Contents
  <1> QED BY <1>1, <1>3, <1>4 DEF Listed

\* skynet_mq_pop of a ring that is not empty
LEMMA PopTakesHead ==
    ASSUME RingInv, skynet_mq_pop, head # tail
    PROVE  /\ RingInv'
           /\ Contents # <<>> /\ message' = Head(Contents) /\ Contents' = Tail(Contents)
  <1> DEFINE L == skynet_mq_length
  <1>1. /\ head' = (IF head + 1 >= cap THEN 0 ELSE head + 1) /\ message' = queue[head]
        /\ UNCHANGED <<queue, tail, cap>>
    BY DEF skynet_mq_pop
  <1>2. RingShape'
    BY <1>1 DEF RingInv, RingShape
  <1>3. L > 0 /\ L \in Nat /\ L' = L - 1 /\ L \in 0..(cap - 1)
    BY <1>1 DEF RingInv, RingShape, skynet_mq_length
  <1>4. \A i \in 0..(cap - 2) : At(i)' = At(i + 1)
    <2>1. Wraps /\ Wraps'
      BY AtWraps, <1>2, PTL DEF RingInv
    <2>2. \A i \in 0..(cap - 1) :
            At(i) = (IF head + i < cap THEN head + i ELSE head + i - cap)
      BY <2>1 DEF Wraps
    <2>3. \A i \in 0..(cap - 1) :
            At(i)' = (IF head' + i < cap THEN head' + i ELSE head' + i - cap)
      BY <1>1, <2>1 DEF Wraps
    <2> QED BY <1>1, <2>2, <2>3 DEF RingInv, RingShape
  <1>5. \A i \in 1..L' : i \in 0..(cap - 2) /\ i - 1 \in 0..(cap - 2) /\ i + 1 \in 1..L
    BY <1>3 DEF RingInv, RingShape
  <1>6. \A i \in 1..L' : queue'[At(i - 1)'] = queue[At(i)]
    BY <1>1, <1>4, <1>5
  <1>7. NoHole'
    BY <1>1, <1>5, <1>6, <1>3 DEF NoHole, RingInv
  <1>8. RingInv'
    BY <1>2, <1>7 DEF RingInv
  <1>9. /\ Contents \in Seq(Msg) /\ Len(Contents) = L
        /\ \A i \in 1..L : Contents[i] = queue[At(i - 1)]
    BY ContentsSeq DEF Listed
  <1>10. /\ Contents' \in Seq(Msg) /\ Len(Contents') = L'
         /\ \A i \in 1..L' : Contents'[i] = queue'[At(i - 1)']
    <2>1. Listed'
      BY ContentsSeq, <1>8, PTL
    <2> QED BY <2>1 DEF Listed
  <1>11. Contents # <<>> /\ Head(Contents) = queue[head]
    BY <1>3, <1>9, AtWraps DEF RingInv, Wraps
  <1>12. \A i \in 1..L' : Contents'[i] = Contents[i + 1]
    BY <1>5, <1>6, <1>9, <1>10
  <1>13. /\ Tail(Contents) \in Seq(Msg) /\ Len(Tail(Contents)) = L - 1
         /\ \A i \in 1..(L - 1) : Tail(Contents)[i] = Contents[i + 1]
    BY <1>3, <1>9, <1>11
  <1>14. Contents' = Tail(Contents)
    BY <1>3, <1>10, <1>12, <1>13
  <1> QED BY <1>1, <1>8, <1>11, <1>14

\* skynet_mq_push, whether the ring grows or not
LEMMA PushAppends ==
    ASSUME RingInv, NEW m \in Msg, skynet_mq_push(m)
    PROVE  RingInv' /\ Contents' = Append(Contents, m)
  <1> DEFINE L == skynet_mq_length
             next == IF tail + 1 >= cap THEN 0 ELSE tail + 1
             q == [queue EXCEPT ![tail] = m]
  <1>1. /\ L \in 0..(cap - 1) /\ At(L) = tail
        /\ \A i \in 0..(cap - 1) : At(i) \in 0..(cap - 1) /\ (At(i) = tail => i = L)
    BY AtWraps DEF RingInv, Wraps
  <1>2. /\ q \in [0..(cap - 1) -> Msg \cup {NoMsg}] /\ q[At(L)] = m
        /\ \A i \in 0..(cap - 1) : i # L => q[At(i)] = queue[At(i)]
    BY <1>1 DEF RingInv, RingShape
  <1>3. /\ RingShape' /\ L' = L + 1
        /\ \A i \in 0..L : queue'[At(i)'] = q[At(i)]
    <2>1. CASE head = next /\ expand_queue(q)
      <3>1. /\ head' = 0 /\ tail' = cap /\ cap' = 2 * cap
            /\ queue' = [i \in 0..(2 * cap - 1) |-> IF i < cap THEN q[At(i)] ELSE NoMsg]
        BY <2>1 DEF expand_queue
      <3>2. RingShape'
        BY <3>1, <1>1, <1>2, SMTT(20) DEF RingInv, RingShape
      <3>3. L = cap - 1 /\ L' = cap
        BY <2>1, <3>1 DEF RingInv, RingShape, skynet_mq_length
      <3>4. \A i \in 0..(cap' - 1) :
              At(i)' = (IF head' + i < cap' THEN head' + i ELSE head' + i - cap')
        <4>1. Wraps'
          BY AtWraps, <3>2, PTL
        <4> QED BY <4>1 DEF Wraps
      <3>5. \A i \in 0..L : At(i)' = i /\ i \in 0..(2 * cap - 1) /\ i < cap
        BY <3>1, <3>3, <3>4 DEF RingInv, RingShape
      <3>6. \A i \in 0..L : queue'[At(i)'] = q[At(i)]
        BY <3>1, <3>5
      <3>7. L' = L + 1
        BY <3>3 DEF RingInv, RingShape
      <3> QED BY <3>2, <3>6, <3>7
    <2>2. CASE head # next /\ queue' = q /\ tail' = next /\ UNCHANGED <<head, cap>>
      <3>1. RingShape'
        BY <2>2, <1>2 DEF RingInv, RingShape
      <3>2. L' = L + 1
        BY <2>2 DEF RingInv, RingShape, skynet_mq_length
      <3>3. \A i \in 0..L : At(i)' = At(i)
        BY <2>2 DEF At
      <3> QED BY <2>2, <3>1, <3>2, <3>3
    <2> QED BY <2>1, <2>2 DEF skynet_mq_push
  <1>4. /\ Contents \in Seq(Msg) /\ Len(Contents) = L
        /\ \A i \in 1..L : Contents[i] = queue[At(i - 1)]
    BY ContentsSeq DEF Listed
  <1>5. /\ \A i \in 1..L : i - 1 \in 0..L /\ i - 1 \in 0..(cap - 1) /\ i - 1 # L
        /\ L \in 0..L /\ L \in Nat
    BY <1>1 DEF RingInv, RingShape
  <1>6. /\ \A i \in 1..L : queue'[At(i - 1)'] = Contents[i]
        /\ \A i \in 0..L : i = L => queue'[At(i)'] = m
    BY <1>2, <1>3, <1>4, <1>5
  <1>7. \A i \in 1..L : queue'[At(i - 1)'] \in Msg
    BY <1>4, <1>6
  <1>8. NoHole'
    <2>1. \A i \in 1..(L + 1) : i \in 1..L \/ (i - 1 = L /\ i - 1 \in 0..L)
      BY <1>5
    <2>2. \A i \in 1..(L + 1) : queue'[At(i - 1)'] \in Msg
      BY <2>1, <1>6, <1>7
    <2> QED BY <2>2, <1>3 DEF NoHole
  <1>9. RingInv'
    BY <1>3, <1>8 DEF RingInv
  <1>10. /\ Contents' \in Seq(Msg) /\ Len(Contents') = L'
         /\ \A i \in 1..L' : Contents'[i] = queue'[At(i - 1)']
    <2>1. Listed'
      BY ContentsSeq, <1>9, PTL
    <2> QED BY <2>1 DEF Listed
  <1>11. /\ \A i \in 1..L : Contents'[i] = Contents[i]
         /\ Contents'[L + 1] = m
    <2>1. L + 1 \in 1..L' /\ (L + 1) - 1 = L /\ \A i \in 1..L : i \in 1..L'
      BY <1>3, <1>5
    <2>2. \A i \in 1..L' : i - 1 = L => queue'[At(i - 1)'] = m
      BY <1>3, <1>5, <1>6
    <2> QED BY <2>1, <2>2, <1>6, <1>10
  <1>12. Contents' = Append(Contents, m)
    BY <1>3, <1>4, <1>5, <1>10, <1>11
  <1> QED BY <1>9, <1>12

LEMMA RingStarts == RingInit => RingInv /\ Order!FifoInit
  <1> SUFFICES ASSUME RingInit PROVE RingInv /\ Order!FifoInit
    OBVIOUS
  <1>1. RingShape /\ skynet_mq_length = 0
    BY SizeAssumption DEF RingInit, RingShape, skynet_mq_length
  <1>2. RingInv
    BY <1>1 DEF RingInv, NoHole
  <1>3. Contents = <<>>
    BY <1>1, <1>2, ContentsSeq DEF Listed
  <1> QED BY <1>2, <1>3 DEF RingInit, Order!FifoInit

LEMMA RingStep == RingInv /\ [RingNext]_ringVars => RingInv' /\ [Order!FifoNext]_(Order!fifoVars)
  <1> SUFFICES ASSUME RingInv, [RingNext]_ringVars
               PROVE  RingInv' /\ [Order!FifoNext]_(Order!fifoVars)
    OBVIOUS
  <1>1. ASSUME NEW m \in Msg, skynet_mq_push(m)
        PROVE  RingInv' /\ Order!FifoPush(m)
    BY <1>1, PushAppends DEF skynet_mq_push, Order!FifoPush
  <1>2. CASE skynet_mq_pop /\ head # tail
    BY <1>2, PopTakesHead DEF Order!FifoNext, Order!FifoPop
  <1>3. CASE skynet_mq_pop /\ head = tail
    <2>1. message' = NoMsg /\ UNCHANGED <<queue, head, tail, cap>>
      BY <1>3 DEF skynet_mq_pop
    <2>2. RingInv'
      BY <2>1 DEF RingInv, RingShape, NoHole, skynet_mq_length, At
    <2>3. Contents' = Contents
      BY <2>1 DEF Contents, skynet_mq_length, At
    <2>4. skynet_mq_length = 0
      BY <1>3 DEF RingInv, RingShape, skynet_mq_length
    <2>5. Contents = <<>>
      BY <2>4, ContentsSeq DEF Listed
    <2> QED BY <2>1, <2>2, <2>3, <2>5 DEF Order!FifoNext, Order!FifoPop
  <1>4. CASE skynet_mq_overload \/ UNCHANGED ringVars
    <2>1. UNCHANGED <<queue, head, tail, cap, message>>
      BY <1>4 DEF skynet_mq_overload, ringVars
    <2>2. RingInv' /\ Contents' = Contents
      BY <2>1 DEF RingInv, RingShape, NoHole, Contents, skynet_mq_length, At
    <2> QED BY <2>1, <2>2 DEF Order!fifoVars
  <1> QED BY <1>1, <1>2, <1>3, <1>4 DEF RingNext, Order!FifoNext

\* Through every wrap and growth of the ring, skynet_mq_pop gives out the
\* messages of skynet_mq_push in their order and each of them once.
THEOREM RingImplementsFifo == RingSpec => RingIsFifo
  <1>1. RingInit => RingInv /\ Order!FifoInit
    BY RingStarts
  <1>2. RingInv /\ [RingNext]_ringVars => RingInv' /\ [Order!FifoNext]_(Order!fifoVars)
    BY RingStep
  <1> QED BY <1>1, <1>2, PTL DEF RingSpec, RingIsFifo, Order!FifoSpec

\* No slot is ever read that holds no message.
THEOREM RingHasNoHole == RingSpec => []NoHole
  <1>1. RingInv => NoHole
    BY DEF RingInv
  <1> QED BY <1>1, RingStarts, RingStep, PTL DEF RingSpec
=============================================================================
