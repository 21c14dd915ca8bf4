------------------------------ MODULE MqProofs ------------------------------
(***************************************************************************)
(* The message queues of skynet_mq.c, for any number of services, messages *)
(* and threads: a queue is always in exactly one place while it has work.  *)
(***************************************************************************)
EXTENDS MessageQueue, TLAPS

\* A queue is in the global queue or held exactly while in_global is set or,
\* in_global being cleared, its context was deleted; without in_global it is
\* empty.  The flag and the place are changed by different steps of different
\* threads, which is why OnePlace alone is not inductive.
InPlace ==
    /\ \A h \in Service : Queued(h) \/ h \in held
                            <=> alloc[h] = "live" /\ (in_global[h] \/ release[h])
    /\ \A h \in Service : ~in_global[h] => msgs[h] = <<>>

MqInv == MqTypeOK /\ OnePlace /\ InPlace

\* What an Append to the global queue and the removal of its head do to the
\* places, for skynet_globalmq_push and skynet_globalmq_pop.
LEMMA AppendedQueued ==
    ASSUME Q \in Seq(Service), NEW x \in Service, Q' = Append(Q, x)
    PROVE  /\ Q' \in Seq(Service)
           /\ \A h \in Service : Queued(h)' <=> Queued(h) \/ h = x
           /\ (~Queued(x) /\ \A i, j \in 1..Len(Q) : Q[i] = Q[j] => i = j)
                => \A i, j \in 1..Len(Q') : Q'[i] = Q'[j] => i = j
  <1>1. Q' \in Seq(Service) /\ Len(Q') = Len(Q) + 1 /\ Len(Q) \in Nat
    OBVIOUS
  <1>2. \A i \in 1..Len(Q) : Q'[i] = Q[i]
    OBVIOUS
  <1>3. Q'[Len(Q) + 1] = x
    OBVIOUS
  <1>4. \A i \in 1..Len(Q') : i \in 1..Len(Q) \/ i = Len(Q) + 1
    BY <1>1
  <1>5. \A h \in Service : Queued(h)' <=> Queued(h) \/ h = x
    BY <1>1, <1>2, <1>3, <1>4 DEF Queued
  <1>6. ASSUME ~Queued(x), \A i, j \in 1..Len(Q) : Q[i] = Q[j] => i = j,
               NEW i \in 1..Len(Q'), NEW j \in 1..Len(Q'), Q'[i] = Q'[j]
        PROVE  i = j
    BY <1>1, <1>2, <1>3, <1>4, <1>6 DEF Queued
  <1> QED BY <1>1, <1>5, <1>6

LEMMA PoppedQueued ==
    ASSUME Q \in Seq(Service), Q # <<>>, Q' = Tail(Q),
           \A i, j \in 1..Len(Q) : Q[i] = Q[j] => i = j
    PROVE  /\ Q' \in Seq(Service) /\ Head(Q) \in Service /\ Queued(Head(Q))
           /\ \A h \in Service : Queued(h)' <=> Queued(h) /\ h # Head(Q)
           /\ \A i, j \in 1..Len(Q') : Q'[i] = Q'[j] => i = j
  <1>1. /\ Q' \in Seq(Service) /\ Len(Q') = Len(Q) - 1 /\ Len(Q) \in Nat /\ Len(Q) > 0
        /\ Head(Q) = Q[1] /\ Head(Q) \in Service
    OBVIOUS
  <1>2. \A i \in 1..Len(Q') : Q'[i] = Q[i + 1] /\ i + 1 \in 1..Len(Q)
    BY <1>1
  <1>3. \A i \in 1..Len(Q) : i # 1 => i - 1 \in 1..Len(Q') /\ Q'[i - 1] = Q[i]
    BY <1>1, <1>2
  <1>4. 1 \in 1..Len(Q) /\ Queued(Head(Q))
    BY <1>1 DEF Queued
  <1>5. ASSUME NEW h \in Service
        PROVE  Queued(h)' <=> Queued(h) /\ h # Head(Q)
    <2>1. ASSUME Queued(h)' PROVE Queued(h) /\ h # Head(Q)
      <3>1. PICK i \in 1..Len(Q') : Q'[i] = h
        BY <2>1 DEF Queued
      <3>2. Q[i + 1] = h /\ i + 1 \in 1..Len(Q) /\ i + 1 # 1
        BY <3>1, <1>2
      <3> QED BY <3>2, <1>1, <1>4 DEF Queued
    <2>2. ASSUME Queued(h), h # Head(Q) PROVE Queued(h)'
      BY <2>2, <1>1, <1>3, SMTT(20) DEF Queued
    <2> QED BY <2>1, <2>2
  <1>6. ASSUME NEW i \in 1..Len(Q'), NEW j \in 1..Len(Q'), Q'[i] = Q'[j]
        PROVE  i = j
    BY <1>1, <1>2, <1>6
  <1> QED BY <1>1, <1>4, <1>5, <1>6

LEMMA MqInitInv == MqInit => MqInv
  <1> SUFFICES ASSUME MqInit PROVE MqInv
    OBVIOUS
  <1>1. MqTypeOK
    BY BootAssumption DEF MqInit, MqTypeOK
  <1>2. OnePlace
    BY DEF MqInit, OnePlace
  <1>3. ASSUME NEW h \in Service PROVE Queued(h) <=> h \in Boot
    BY DEF MqInit, Queued
  <1>4. InPlace
    BY <1>3, BootAssumption DEF MqInit, InPlace
  <1> QED BY <1>1, <1>2, <1>4 DEF MqInv

\* Steps that put a queue x into the global queue, where it was nowhere
LEMMA MqStepInv == MqInv /\ [MqNext]_mqVars => MqInv'
  <1> SUFFICES ASSUME MqInv, [MqNext]_mqVars PROVE MqInv'
    OBVIOUS
  <1> USE DEF MqInv
  <1>1. ASSUME NEW h \in Service, skynet_mq_create(h) PROVE MqInv'
    <2>1. MqTypeOK'
      BY <1>1 DEF skynet_mq_create, MqTypeOK
    <2>2. \A k \in Service : Queued(k)' <=> Queued(k)
      BY <1>1 DEF skynet_mq_create, Queued
    <2>3. ~Queued(h) /\ h \notin held
      BY <1>1 DEF skynet_mq_create, InPlace, MqTypeOK
    <2>4. OnePlace'
      BY <1>1, <2>2, <2>3 DEF skynet_mq_create, OnePlace, MqTypeOK
    <2>5. InPlace'
      BY <1>1, <2>2 DEF skynet_mq_create, InPlace, MqTypeOK
    <2> QED BY <2>1, <2>4, <2>5
  <1>2. ASSUME NEW h \in Service, skynet_globalmq_push(h) PROVE MqInv'
    <2>1. ~Queued(h) /\ Q \in Seq(Service) /\ Q' = Append(Q, h)
      BY <1>2 DEF skynet_globalmq_push, OnePlace, MqTypeOK
    <2>2. MqTypeOK'
      BY <1>2, <2>1, AppendedQueued DEF skynet_globalmq_push, MqTypeOK
    <2>3. OnePlace'
      BY <1>2, <2>1, AppendedQueued DEF skynet_globalmq_push, OnePlace, MqTypeOK
    <2>4. InPlace'
      BY <1>2, <2>1, AppendedQueued DEF skynet_globalmq_push, InPlace, MqTypeOK
    <2> QED BY <2>2, <2>3, <2>4
  <1>3. CASE skynet_globalmq_pop
    <2>1. Q \in Seq(Service) /\ Q # <<>> /\ Q' = Tail(Q)
      BY <1>3 DEF skynet_globalmq_pop, MqTypeOK
    <2>2. /\ Q' \in Seq(Service) /\ Head(Q) \in Service /\ Queued(Head(Q))
          /\ \A h \in Service : Queued(h)' <=> Queued(h) /\ h # Head(Q)
          /\ \A i, j \in 1..Len(Q') : Q'[i] = Q'[j] => i = j
      BY <2>1, PoppedQueued DEF OnePlace
    <2>3. MqTypeOK'
      BY <1>3, <2>2 DEF skynet_globalmq_pop, MqTypeOK
    <2>4. OnePlace'
      BY <1>3, <2>2 DEF skynet_globalmq_pop, OnePlace, MqTypeOK
    <2>5. InPlace'
      BY <1>3, <2>2 DEF skynet_globalmq_pop, InPlace, MqTypeOK
    <2> QED BY <2>3, <2>4, <2>5
  <1>4. ASSUME NEW h \in Service, NEW m \in Msg, skynet_mq_push(h, m) PROVE MqInv'
    <2>1. CASE in_global[h]
      <3>1. \A k \in Service : Queued(k)' <=> Queued(k)
        BY <1>4, <2>1 DEF skynet_mq_push, Queued
      <3>2. MqTypeOK'
        BY <1>4, <2>1 DEF skynet_mq_push, MqTypeOK
      <3>3. OnePlace'
        BY <1>4, <2>1, <3>1 DEF skynet_mq_push, OnePlace, MqTypeOK
      <3>4. InPlace'
        BY <1>4, <2>1, <3>1 DEF skynet_mq_push, InPlace, MqTypeOK
      <3> QED BY <3>2, <3>3, <3>4
    <2>2. CASE ~in_global[h]
      <3>1. ~Queued(h) /\ h \notin held /\ Q \in Seq(Service) /\ Q' = Append(Q, h)
        BY <1>4, <2>2 DEF skynet_mq_push, InPlace, MqTypeOK
      <3>2. MqTypeOK'
        BY <1>4, <3>1, AppendedQueued DEF skynet_mq_push, MqTypeOK
      <3>3. OnePlace'
        BY <1>4, <3>1, AppendedQueued DEF skynet_mq_push, OnePlace, MqTypeOK
      <3>4. InPlace'
        BY <1>4, <3>1, AppendedQueued DEF skynet_mq_push, InPlace, MqTypeOK
      <3> QED BY <3>2, <3>3, <3>4
    <2> QED BY <2>1, <2>2
  <1>5. ASSUME NEW h \in Service, MqTake(h) PROVE MqInv'
    <2>1. \A k \in Service : Queued(k)' <=> Queued(k)
      BY <1>5 DEF MqTake, Queued
    <2>2. msgs[h] \in Seq(Msg) /\ Tail(msgs[h]) \in Seq(Msg)
      BY <1>5 DEF MqTake, MqTypeOK
    <2>3. MqTypeOK'
      BY <1>5, <2>2 DEF MqTake, MqTypeOK
    <2>4. OnePlace'
      BY <1>5, <2>1 DEF MqTake, OnePlace, MqTypeOK
    <2>5. InPlace'
      BY <1>5, <2>1 DEF MqTake, InPlace, MqTypeOK
    <2> QED BY <2>3, <2>4, <2>5
  <1>6. ASSUME NEW h \in Service, MqEmpty(h) PROVE MqInv'
    <2>1. \A k \in Service : Queued(k)' <=> Queued(k)
      BY <1>6 DEF MqEmpty, Queued
    <2>2. MqTypeOK'
      BY <1>6 DEF MqEmpty, MqTypeOK
    <2>3. OnePlace'
      BY <1>6, <2>1 DEF MqEmpty, OnePlace, MqTypeOK
    <2>4. InPlace'
      BY <1>6, <2>1 DEF MqEmpty, InPlace, OnePlace, MqTypeOK
    <2> QED BY <2>2, <2>3, <2>4
  <1>7. ASSUME NEW h \in Service, skynet_mq_mark_release(h) PROVE MqInv'
    <2>1. CASE in_global[h]
      <3>1. \A k \in Service : Queued(k)' <=> Queued(k)
        BY <1>7, <2>1 DEF skynet_mq_mark_release, Queued
      <3>2. MqTypeOK'
        BY <1>7, <2>1 DEF skynet_mq_mark_release, MqTypeOK
      <3>3. OnePlace'
        BY <1>7, <2>1, <3>1 DEF skynet_mq_mark_release, OnePlace, MqTypeOK
      <3>4. InPlace'
        BY <1>7, <2>1, <3>1 DEF skynet_mq_mark_release, InPlace, MqTypeOK
      <3> QED BY <3>2, <3>3, <3>4
    <2>2. CASE ~in_global[h]
      <3>1. ~Queued(h) /\ h \notin held /\ Q \in Seq(Service) /\ Q' = Append(Q, h)
        BY <1>7, <2>2 DEF skynet_mq_mark_release, InPlace, MqTypeOK
      <3>2. MqTypeOK'
        BY <1>7, <3>1, AppendedQueued DEF skynet_mq_mark_release, MqTypeOK
      <3>3. OnePlace'
        BY <1>7, <3>1, AppendedQueued DEF skynet_mq_mark_release, OnePlace, MqTypeOK
      <3>4. InPlace'
        BY <1>7, <3>1, AppendedQueued DEF skynet_mq_mark_release, InPlace, MqTypeOK
      <3> QED BY <3>2, <3>3, <3>4
    <2> QED BY <2>1, <2>2
  <1>8. ASSUME NEW h \in Service, MqFree(h) PROVE MqInv'
    <2>1. \A k \in Service : Queued(k)' <=> Queued(k)
      BY <1>8 DEF MqFree, Queued
    <2>2. MqTypeOK'
      BY <1>8 DEF MqFree, MqTypeOK
    <2>3. OnePlace'
      BY <1>8, <2>1 DEF MqFree, OnePlace, MqTypeOK
    <2>4. InPlace'
      BY <1>8, <2>1 DEF MqFree, InPlace, OnePlace, MqTypeOK
    <2> QED BY <2>2, <2>3, <2>4
  <1>9. CASE UNCHANGED mqVars
    BY <1>9 DEF mqVars, MqTypeOK, OnePlace, InPlace, Queued
  <1> QED
    BY <1>1, <1>2, <1>3, <1>4, <1>5, <1>6, <1>7, <1>8, <1>9 DEF MqNext, MqPutBack

LEMMA MqInvariant == MqSpec => []MqInv
  BY MqInitInv, MqStepInv, PTL DEF MqSpec

\* Whatever the workers and the senders interleave: a queue is never in the
\* global queue twice, nor with a thread while it is in the global queue (the
\* assertion of skynet_globalmq_push holds); a queue with messages, or of a
\* deleted context, is always going to be looked at; and a queue is freed only
\* when nothing refers to it any more.
THEOREM QueuesAreKept == MqSpec => []QueuesKept
  <1>1. MqInv => OnePlace
    BY DEF MqInv
  <1>2. MqInv => NoLostQueue
    BY DEF MqInv, InPlace, NoLostQueue
  <1>3. MqInv => FreedIsGone
    BY DEF MqInv, InPlace, FreedIsGone
  <1>4. MqInv => QueuesKept
    BY <1>1, <1>2, <1>3, Zenon DEF QueuesKept
  <1> QED BY <1>4, MqInvariant, PTL
=============================================================================
