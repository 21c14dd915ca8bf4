---------------------------- MODULE SyncProofs ----------------------------
(***************************************************************************)
(* The lock of rwlock.h excludes, for any finite number of threads, and    *)
(* the critical section of lualib/skynet/queue.lua, for any number of      *)
(* coroutines, however they nest it, call other services in it and fail.   *)
(***************************************************************************)
EXTENDS SkynetQueue, RWLock, FiniteSetTheorems, TLAPS

-----------------------------------------------------------------------------
(* rwlock.h.                                                               *)

Writers == {t \in Locker : lockAt[t] \in {"draining", "writing"}}

\* read is the number of threads that counted themselves, and write is set
\* exactly while one thread is in or before the writer's section.  A writer
\* enters when it sees read = 0, which says something about the readers only
\* through the first fact, and keeps them out by the second.
LockInv ==
    /\ LockTypeOK
    /\ read = Cardinality(Counted)
    /\ \A t, u \in Writers : t = u
    /\ write <=> Writers # {}
    /\ (\E t \in Locker : lockAt[t] = "writing") => \A u \in Locker : lockAt[u] # "reading"

LEMMA CountedFinite == IsFiniteSet(Counted) /\ Cardinality(Counted) \in Nat
  <1>1. IsFiniteSet(Counted)
    BY LockerAssumption, FS_Subset DEF Counted
  <1> QED BY <1>1, FS_CardinalityType

LEMMA LockInitInv == LockInit => LockInv
  <1> SUFFICES ASSUME LockInit PROVE LockInv
    OBVIOUS
  <1>1. Counted = {} /\ Writers = {}
    BY DEF LockInit, Counted, Writers
  <1>2. Cardinality(Counted) = 0
    BY <1>1, FS_EmptySet
  <1>3. LockTypeOK /\ read = 0 /\ write = FALSE
    <2>1. read = 0 /\ write = FALSE
      BY DEF LockInit
    <2>2. lockAt \in [Locker -> {"out", "counting", "counted", "leaving", "reading",
                            "draining", "writing"}]
      BY DEF LockInit
    <2>3. write \in BOOLEAN
      BY <2>1, Zenon
    <2>4. read \in Int
      BY <2>1
    <2> QED BY <2>1, <2>2, <2>3, <2>4, Zenon DEF LockTypeOK
  <1>4. ~ \E t \in Locker : lockAt[t] = "writing"
    BY DEF LockInit
  <1>5. write <=> Writers # {}
    BY <1>1, <1>3
  <1> QED BY <1>1, <1>2, <1>3, <1>4, <1>5 DEF LockInv

LEMMA LockStepInv == LockInv /\ [LockNext]_lockVars => LockInv'
  <1> SUFFICES ASSUME LockInv, [LockNext]_lockVars PROVE LockInv'
    OBVIOUS
  <1>0. IsFiniteSet(Counted) /\ Cardinality(Counted) \in Nat /\ LockTypeOK
    BY CountedFinite DEF LockInv
  <1>1. ASSUME NEW t \in Locker, ReadTry(t) \/ ReadEnter(t) \/ ReadBackOff(t)
        PROVE  LockInv'
    <2>1. Counted' = Counted /\ Writers' = Writers
      BY <1>0, <1>1 DEF ReadTry, ReadEnter, ReadBackOff, LockMove, Counted, Writers, LockTypeOK
    <2>2. LockTypeOK' /\ UNCHANGED <<write, read>>
      BY <1>0, <1>1 DEF ReadTry, ReadEnter, ReadBackOff, LockMove, LockTypeOK
    <2>3. (\E u \in Locker : lockAt'[u] = "writing") => \A u \in Locker : lockAt'[u] # "reading"
      BY <1>0, <1>1 DEF ReadTry, ReadEnter, ReadBackOff, LockMove, Writers, LockInv, LockTypeOK
    <2> QED BY <2>1, <2>2, <2>3 DEF LockInv
  <1>2. ASSUME NEW t \in Locker, ReadCount(t) PROVE LockInv'
    <2>1. t \notin Counted /\ Counted' = Counted \cup {t} /\ Writers' = Writers
      BY <1>0, <1>2 DEF ReadCount, LockMove, Counted, Writers, LockTypeOK
    <2>2. Cardinality(Counted') = Cardinality(Counted) + 1
      BY <1>0, <2>1, FS_AddElement
    <2>3. LockTypeOK' /\ read' = read + 1 /\ UNCHANGED write
      BY <1>0, <1>2 DEF ReadCount, LockMove, LockTypeOK
    <2>4. (\E u \in Locker : lockAt'[u] = "writing") => \A u \in Locker : lockAt'[u] # "reading"
      BY <1>0, <1>2 DEF ReadCount, LockMove, LockInv, LockTypeOK
    <2> QED BY <2>1, <2>2, <2>3, <2>4 DEF LockInv
  <1>3. ASSUME NEW t \in Locker, ReadRetry(t) \/ rwlock_runlock(t) PROVE LockInv'
    <2>1. t \in Counted /\ Counted' = Counted \ {t} /\ Writers' = Writers
      BY <1>0, <1>3 DEF ReadRetry, rwlock_runlock, LockMove, Counted, Writers, LockTypeOK
    <2>2. Cardinality(Counted') = Cardinality(Counted) - 1
      BY <1>0, <2>1, FS_RemoveElement
    <2>3. LockTypeOK' /\ read' = read - 1 /\ UNCHANGED write
      BY <1>0, <1>3 DEF ReadRetry, rwlock_runlock, LockMove, LockTypeOK
    <2>4. (\E u \in Locker : lockAt'[u] = "writing") => \A u \in Locker : lockAt'[u] # "reading"
      BY <1>0, <1>3 DEF ReadRetry, rwlock_runlock, LockMove, LockInv, LockTypeOK
    <2> QED BY <2>1, <2>2, <2>3, <2>4 DEF LockInv
  <1>4. ASSUME NEW t \in Locker, WriteSet(t) PROVE LockInv'
    <2>1. Writers = {} /\ Writers' = {t} /\ Counted' = Counted
      BY <1>0, <1>4 DEF WriteSet, LockMove, Writers, Counted, LockInv, LockTypeOK
    <2>2. LockTypeOK' /\ UNCHANGED read /\ write' = TRUE
      BY <1>0, <1>4 DEF WriteSet, LockMove, LockTypeOK
    <2>3. ~ \E u \in Locker : lockAt'[u] = "writing"
      BY <1>0, <1>4, <2>1 DEF WriteSet, LockMove, Writers, LockTypeOK
    <2> QED BY <2>1, <2>2, <2>3 DEF LockInv
  <1>5. ASSUME NEW t \in Locker, WriteEnter(t) PROVE LockInv'
    <2>1. Counted = {}
      BY <1>0, <1>5, FS_EmptySet DEF WriteEnter, LockInv
    <2>2. Writers' = Writers /\ Counted' = Counted
      BY <1>0, <1>5 DEF WriteEnter, LockMove, Writers, Counted, LockTypeOK
    <2>3. LockTypeOK' /\ UNCHANGED <<write, read>>
      BY <1>0, <1>5 DEF WriteEnter, LockMove, LockTypeOK
    <2>4. \A u \in Locker : lockAt'[u] # "reading"
      BY <2>1, <2>2 DEF Counted
    <2> QED BY <2>2, <2>3, <2>4 DEF LockInv
  <1>6. ASSUME NEW t \in Locker, rwlock_wunlock(t) PROVE LockInv'
    <2>1. Writers = {t} /\ Writers' = {} /\ Counted' = Counted
      <3>1. t \in Writers
        BY <1>6 DEF rwlock_wunlock, LockMove, Writers
      <3>2. Writers = {t}
        BY <3>1 DEF LockInv
      <3> QED BY <1>0, <1>6, <3>2 DEF rwlock_wunlock, LockMove, Writers, Counted, LockTypeOK
    <2>2. LockTypeOK' /\ UNCHANGED read /\ write' = FALSE
      BY <1>0, <1>6 DEF rwlock_wunlock, LockMove, LockTypeOK
    <2>3. ~ \E u \in Locker : lockAt'[u] = "writing"
      BY <2>1 DEF Writers
    <2> QED BY <2>1, <2>2, <2>3 DEF LockInv
  <1>7. CASE UNCHANGED lockVars
    BY <1>7 DEF lockVars, LockInv, LockTypeOK, Counted, Writers
  <1> QED BY <1>1, <1>2, <1>3, <1>4, <1>5, <1>6, <1>7 DEF LockNext, LockStep

\* rwlock_wlock and rwlock_rlock keep a writer alone in its section.
THEOREM RWLockExcludes == LockSpec => []LockExcludes
  <1>1. LockInv => LockExcludes
    BY DEF LockInv, LockExcludes, Writers
  <1> QED BY <1>1, LockInitInv, LockStepInv, PTL DEF LockSpec

-----------------------------------------------------------------------------
(* queue.lua.                                                              *)

Asleep(t) == st[t] \in {"wait", "woken"}

\* One coroutine runs; the coroutines in skynet.wait are those in sleep_session.
RunsOne == \A t \in Thread : st[t] \in {"on", "woken"} <=> running = t
SleepsWait == \A t \in Thread : t \in sleep_session <=> Asleep(t)

\* current_thread is the coroutine in the section, which ref counts, or the one
\* the section was passed to, which still sleeps.
OwnerInside == \A t \in Thread : depth[t] > 0 => t = current_thread /\ ~ Asleep(t)
RefCounts ==
    /\ current_thread = NoThread => ref = 0
    /\ current_thread # NoThread =>
         IF Asleep(current_thread) THEN ref = 0
         ELSE ref = depth[current_thread] /\ ref > 0

\* Only the owner is woken; the others that wait are in the queue.
WokenOwner == \A t \in Thread : st[t] = "woken" => t = current_thread
WakesOwner == \A t \in wakeup_session : st[t] = "wait" /\ t = current_thread
QueueWaits ==
    \A i \in DOMAIN thread_queue :
        /\ st[thread_queue[i]] = "wait" /\ thread_queue[i] # current_thread
        /\ \A j \in DOMAIN thread_queue : thread_queue[i] = thread_queue[j] => i = j
WaitsInQueue ==
    \A t \in Thread : st[t] = "wait" =>
        t = current_thread \/ \E i \in DOMAIN thread_queue : thread_queue[i] = t
QueueOwned == thread_queue # <<>> => current_thread # NoThread

QueueInv ==
    /\ QueueTypeOK /\ RunsOne /\ SleepsWait /\ OwnerInside /\ RefCounts /\ WokenOwner
    /\ WakesOwner /\ NoLostWakeup /\ QueueWaits /\ WaitsInQueue /\ QueueOwned

\* What suspend does to a service whose invariant holds but for the coroutine
\* that yields: the owner, if it was to be woken, runs; otherwise nobody does.
LEMMA SuspendWakes ==
    ASSUME QueueInv, NEW states \in [Thread -> State], NEW sleeping \in SUBSET Thread,
           wakeup_session \subseteq sleeping,
           suspend(wakeup_session, sleeping, states)
    PROVE  \/ /\ wakeup_session = {} /\ wakeup_session' = {}
              /\ running' = NoThread /\ st' = states
           \/ /\ current_thread \in Thread /\ wakeup_session = {current_thread}
              /\ wakeup_session' = {} /\ running' = current_thread
              /\ st' = [states EXCEPT ![current_thread] = "woken"]
BY DEF suspend, QueueInv, WakesOwner, QueueTypeOK

LEMMA QueueInitInv == QueueInit => QueueInv
BY QueueAssumption DEF QueueInit, QueueInv, QueueTypeOK, RunsOne, SleepsWait, OwnerInside,
   RefCounts, WokenOwner, WakesOwner, NoLostWakeup, QueueWaits, WaitsInQueue, QueueOwned,
   Asleep, State

\* A message starts or resumes a coroutine that does not sleep.
LEMMA DispatchKeeps ==
    ASSUME QueueInv, NEW t \in Thread, Dispatch(t) \/ Reply(t)
    PROVE  QueueInv'
<1> USE DEF QueueInv
<1>1. /\ st' = [st EXCEPT ![t] = "on"] /\ running' = t /\ running = NoThread
      /\ st[t] \in {"idle", "call"}
      /\ UNCHANGED <<current_thread, ref, thread_queue, sleep_session, wakeup_session, depth>>
  BY DEF Dispatch, Reply
<1>2. QueueTypeOK'
  BY <1>1 DEF QueueTypeOK, State
<1>3. \A u \in Thread : Asleep(u)' = Asleep(u) /\ (st[u] = "wait" <=> st'[u] = "wait")
                         /\ (st[u] = "woken" <=> st'[u] = "woken")
  BY <1>1 DEF Asleep, QueueTypeOK
<1>4. RunsOne'
  BY <1>1, QueueAssumption DEF RunsOne, QueueTypeOK
<1>5. SleepsWait' /\ OwnerInside' /\ WokenOwner'
  BY <1>1, <1>3 DEF SleepsWait, OwnerInside, WokenOwner
<1>6. RefCounts'
  BY <1>1, <1>3 DEF RefCounts, QueueTypeOK
<1>7. WakesOwner' /\ NoLostWakeup'
  BY <1>1, <1>3 DEF WakesOwner, NoLostWakeup, QueueTypeOK
<1>8. QueueWaits' /\ WaitsInQueue' /\ QueueOwned'
  BY <1>1, <1>3 DEF QueueWaits, WaitsInQueue, QueueOwned, QueueTypeOK
<1> QED BY <1>2, <1>4, <1>5, <1>6, <1>7, <1>8

\* A coroutine that yields or ends lets the owner that was woken run.
LEMMA YieldKeeps ==
    ASSUME QueueInv, NEW t \in Thread, Call(t) \/ Return(t)
    PROVE  QueueInv'
<1> USE DEF QueueInv
<1>1. PICK x \in {"idle", "call"} :
         /\ running = t /\ st[t] = "on"
         /\ suspend(wakeup_session, sleep_session, [st EXCEPT ![t] = x])
         /\ UNCHANGED <<current_thread, ref, thread_queue, sleep_session, depth>>
  BY DEF Call, Return
<1> DEFINE states == [st EXCEPT ![t] = x]
<1>2. states \in [Thread -> State] /\ wakeup_session \subseteq sleep_session
  BY DEF QueueTypeOK, State, WakesOwner, SleepsWait, Asleep
<1>3. CASE /\ wakeup_session = {} /\ wakeup_session' = {}
           /\ running' = NoThread /\ st' = states
  <2>1. \A u \in Thread : Asleep(u)' = Asleep(u) /\ (st[u] = "wait" <=> st'[u] = "wait")
                           /\ (st[u] = "woken" <=> st'[u] = "woken")
    BY <1>1, <1>3 DEF Asleep, QueueTypeOK
  <2>2. QueueTypeOK'
    BY <1>1, <1>2, <1>3 DEF QueueTypeOK
  <2>3. RunsOne'
    BY <1>1, <1>3, QueueAssumption DEF RunsOne, QueueTypeOK
  <2>4. SleepsWait' /\ OwnerInside' /\ WokenOwner'
    BY <1>1, <2>1 DEF SleepsWait, OwnerInside, WokenOwner
  <2>5. RefCounts'
    BY <1>1, <2>1 DEF RefCounts, QueueTypeOK
  <2>6. WakesOwner' /\ NoLostWakeup'
    BY <1>1, <1>3, <2>1 DEF WakesOwner, NoLostWakeup, QueueTypeOK
  <2>7. QueueWaits' /\ WaitsInQueue' /\ QueueOwned'
    BY <1>1, <2>1 DEF QueueWaits, WaitsInQueue, QueueOwned, QueueTypeOK
  <2> QED BY <2>2, <2>3, <2>4, <2>5, <2>6, <2>7
<1>4. CASE /\ current_thread \in Thread /\ wakeup_session = {current_thread}
           /\ wakeup_session' = {} /\ running' = current_thread
           /\ st' = [states EXCEPT ![current_thread] = "woken"]
  <2> DEFINE c == current_thread
  <2>1. st[c] = "wait" /\ c # t
    BY <1>1, <1>4 DEF WakesOwner
  <2>2. /\ st'[c] = "woken" /\ st'[t] = x
        /\ \A u \in Thread \ {c, t} : st'[u] = st[u]
    BY <1>1, <1>4, <2>1 DEF QueueTypeOK
  <2>3. \A u \in Thread : Asleep(u)' = Asleep(u)
    BY <1>1, <2>1, <2>2 DEF Asleep
  <2>4. QueueTypeOK'
    BY <1>1, <1>2, <1>4 DEF QueueTypeOK, State
  <2>5. RunsOne'
    BY <1>1, <1>4, <2>1, <2>2 DEF RunsOne
  <2>6. SleepsWait' /\ OwnerInside'
    BY <1>1, <2>3 DEF SleepsWait, OwnerInside
  <2>7. WokenOwner'
    BY <1>1, <2>2 DEF WokenOwner
  <2>8. RefCounts'
    BY <1>1, <1>4, <2>3 DEF RefCounts
  <2>9. WakesOwner' /\ NoLostWakeup'
    BY <1>1, <1>4, <2>2 DEF WakesOwner, NoLostWakeup
  <2>10. QueueWaits' /\ QueueOwned'
    BY <1>1, <1>4, <2>1, <2>2 DEF QueueWaits, QueueOwned, QueueTypeOK
  <2>11. WaitsInQueue'
    BY <1>1, <2>2 DEF WaitsInQueue
  <2> QED BY <2>4, <2>5, <2>6, <2>7, <2>8, <2>9, <2>10, <2>11
<1>5. suspend(wakeup_session, sleep_session, states)
  BY <1>1
<1>6. QueueInv /\ sleep_session \in SUBSET Thread
  BY DEF QueueTypeOK
<1> HIDE DEF states, QueueInv
<1> QED BY <1>2, <1>3, <1>4, <1>5, <1>6, SuspendWakes

\* A coroutine enters when the section is free or its own.
LEMMA EnterKeeps ==
    ASSUME QueueInv, NEW t \in Thread, Enter(t)
    PROVE  QueueInv'
<1> USE DEF QueueInv
<1>1. /\ running = t /\ st[t] = "on" /\ ~ Taken(t)
      /\ current_thread' = t /\ ref' = ref + 1
      /\ depth' = [depth EXCEPT ![t] = @ + 1]
      /\ UNCHANGED <<thread_queue, sleep_session, wakeup_session, st, running>>
  BY DEF Enter
<1>2. current_thread \in {NoThread, t}
  BY <1>1 DEF Taken
<1>3. ref = depth[t]
  BY <1>1, <1>2, QueueAssumption DEF RefCounts, OwnerInside, QueueTypeOK, Asleep
<1>4. thread_queue = <<>> \/ current_thread = t
  BY <1>2 DEF QueueOwned
<1>5. QueueTypeOK'
  BY <1>1 DEF QueueTypeOK
<1>6. RunsOne' /\ SleepsWait'
  BY <1>1 DEF RunsOne, SleepsWait, Asleep
<1>7. OwnerInside'
  BY <1>1, <1>2, QueueAssumption DEF OwnerInside, QueueTypeOK, Asleep
<1>8. RefCounts'
  BY <1>1, <1>3, QueueAssumption DEF RefCounts, QueueTypeOK, Asleep
<1>9. wakeup_session = {}
  BY <1>1, <1>2, QueueAssumption DEF WakesOwner, QueueTypeOK
<1>10. WokenOwner' /\ WakesOwner' /\ NoLostWakeup'
  BY <1>1, <1>2, <1>9 DEF WokenOwner, WakesOwner, NoLostWakeup, RunsOne, QueueTypeOK
<1>11. QueueWaits' /\ QueueOwned'
  BY <1>1, <1>2, QueueAssumption DEF QueueWaits, QueueOwned, QueueTypeOK
<1>12. WaitsInQueue'
  BY <1>1, <1>2, QueueAssumption DEF WaitsInQueue
<1> QED BY <1>5, <1>6, <1>7, <1>8, <1>10, <1>11, <1>12

\* The owner that was woken finds the section empty.
LEMMA ResumeKeeps ==
    ASSUME QueueInv, NEW t \in Thread, Resume(t)
    PROVE  QueueInv'
<1> USE DEF QueueInv
<1>1. /\ running = t /\ st[t] = "woken"
      /\ sleep_session' = sleep_session \ {t}
      /\ current_thread' = t /\ ref' = ref + 1
      /\ depth' = [depth EXCEPT ![t] = @ + 1]
      /\ st' = [st EXCEPT ![t] = "on"]
      /\ UNCHANGED <<thread_queue, wakeup_session, running>>
  BY DEF Resume
<1>2. current_thread = t /\ t # NoThread
  BY <1>1, QueueAssumption DEF WokenOwner
<1>3. ref = 0 /\ depth[t] = 0
  BY <1>1, <1>2 DEF RefCounts, OwnerInside, Asleep, QueueTypeOK
<1>4. st'[t] = "on" /\ \A u \in Thread \ {t} : st'[u] = st[u]
  BY <1>1 DEF QueueTypeOK
<1>5. QueueTypeOK'
  BY <1>1 DEF QueueTypeOK, State
<1>6. RunsOne' /\ SleepsWait'
  BY <1>1, <1>4 DEF RunsOne, SleepsWait, Asleep
<1>7. OwnerInside'
  BY <1>1, <1>2, <1>4 DEF OwnerInside, Asleep, QueueTypeOK
<1>8. RefCounts'
  BY <1>1, <1>2, <1>3, <1>4 DEF RefCounts, Asleep, QueueTypeOK
<1>9. wakeup_session = {}
  BY <1>1, <1>2 DEF WakesOwner
<1>10. WokenOwner' /\ WakesOwner' /\ NoLostWakeup'
  BY <1>1, <1>2, <1>4, <1>9 DEF WokenOwner, WakesOwner, NoLostWakeup
<1>11. QueueWaits' /\ QueueOwned'
  BY <1>1, <1>2, <1>4 DEF QueueWaits, QueueOwned, QueueTypeOK
<1>12. WaitsInQueue'
  BY <1>1, <1>2, <1>4 DEF WaitsInQueue
<1> QED BY <1>5, <1>6, <1>7, <1>8, <1>10, <1>11, <1>12

\* A coroutine that finds the section taken is queued, and the owner that was
\* woken runs.
LEMMA WaitKeeps ==
    ASSUME QueueInv, NEW t \in Thread, Wait(t)
    PROVE  QueueInv'
<1> USE DEF QueueInv
<1>1. /\ running = t /\ st[t] = "on" /\ Taken(t)
      /\ thread_queue' = Append(thread_queue, t)
      /\ sleep_session' = sleep_session \cup {t}
      /\ suspend(wakeup_session, sleep_session', [st EXCEPT ![t] = "wait"])
      /\ UNCHANGED <<current_thread, ref, depth>>
  BY DEF Wait
<1> DEFINE states == [st EXCEPT ![t] = "wait"]
           q == thread_queue
           n == Len(thread_queue)
<1>2. /\ states \in [Thread -> State] /\ wakeup_session \subseteq sleep_session'
      /\ sleep_session' \in SUBSET Thread
  BY <1>1 DEF QueueTypeOK, State, WakesOwner, SleepsWait, Asleep
<1>3. current_thread \in Thread \ {t} /\ depth[t] = 0
  BY <1>1 DEF Taken, QueueTypeOK, OwnerInside
<1>4. /\ n \in Nat /\ DOMAIN q = 1..n /\ DOMAIN q' = 1..(n + 1)
      /\ q'[n + 1] = t /\ \A i \in 1..n : q'[i] = q[i] /\ q[i] \in Thread
  BY <1>1 DEF QueueTypeOK
<1>5. \A i \in 1..n : q[i] # t
  BY <1>1, <1>4 DEF QueueWaits
<1>6. CASE /\ wakeup_session = {} /\ wakeup_session' = {}
           /\ running' = NoThread /\ st' = states
  <2>1. st'[t] = "wait" /\ \A u \in Thread \ {t} : st'[u] = st[u]
    BY <1>6 DEF QueueTypeOK
  <2>2. QueueTypeOK'
    BY <1>1, <1>2, <1>6 DEF QueueTypeOK
  <2>3. RunsOne' /\ SleepsWait'
    BY <1>1, <1>6, <2>1, QueueAssumption DEF RunsOne, SleepsWait, Asleep
  <2>4. OwnerInside' /\ WokenOwner'
    BY <1>1, <1>3, <2>1 DEF OwnerInside, WokenOwner, Asleep, QueueTypeOK
  <2>5. RefCounts'
    BY <1>1, <1>3, <2>1 DEF RefCounts, Asleep
  <2>6. WakesOwner' /\ NoLostWakeup'
    BY <1>1, <1>3, <1>6, <2>1 DEF WakesOwner, NoLostWakeup
  <2>7. QueueWaits'
    BY <1>1, <1>3, <1>4, <1>5, <2>1 DEF QueueWaits
  <2>8. WaitsInQueue'
    BY <1>1, <1>4, <2>1 DEF WaitsInQueue
  <2>9. QueueOwned'
    BY <1>1, <1>3, QueueAssumption DEF QueueOwned
  <2> QED BY <2>2, <2>3, <2>4, <2>5, <2>6, <2>7, <2>8, <2>9
<1>7. CASE /\ current_thread \in Thread /\ wakeup_session = {current_thread}
           /\ wakeup_session' = {} /\ running' = current_thread
           /\ st' = [states EXCEPT ![current_thread] = "woken"]
  <2> DEFINE c == current_thread
  <2>1. /\ st[c] = "wait" /\ st'[c] = "woken" /\ st'[t] = "wait"
        /\ \A u \in Thread \ {c, t} : st'[u] = st[u]
    BY <1>3, <1>7 DEF QueueTypeOK, WakesOwner
  <2>2. QueueTypeOK'
    <3>1. thread_queue' \in Seq(Thread)
      BY <1>1 DEF QueueTypeOK
    <3>2. st' \in [Thread -> State]
      BY <1>2, <1>7 DEF State
    <3> QED BY <1>1, <1>2, <1>7, <3>1, <3>2 DEF QueueTypeOK
  <2>3. RunsOne' /\ SleepsWait'
    BY <1>1, <1>3, <1>7, <2>1 DEF RunsOne, SleepsWait, Asleep
  <2>4. OwnerInside' /\ WokenOwner'
    BY <1>1, <1>3, <2>1 DEF OwnerInside, WokenOwner, Asleep, QueueTypeOK
  <2>5. RefCounts'
    BY <1>1, <1>3, <2>1 DEF RefCounts, Asleep
  <2>6. WakesOwner' /\ NoLostWakeup'
    BY <1>1, <1>3, <1>7, <2>1 DEF WakesOwner, NoLostWakeup
  <2>7. QueueWaits'
    BY <1>1, <1>3, <1>4, <1>5, <2>1 DEF QueueWaits
  <2>8. WaitsInQueue'
    BY <1>1, <1>4, <2>1 DEF WaitsInQueue
  <2>9. QueueOwned'
    BY <1>1, <1>3, QueueAssumption DEF QueueOwned
  <2> QED BY <2>2, <2>3, <2>4, <2>5, <2>6, <2>7, <2>8, <2>9
<1>8. suspend(wakeup_session, sleep_session', states)
  BY <1>1
<1>9. QueueInv
  OBVIOUS
<1> HIDE DEF states, QueueInv
<1> QED BY <1>2, <1>6, <1>7, <1>8, <1>9, SuspendWakes

\* What Pass does to a section whose owner has just left it.
LEMMA PassHandsOver ==
    ASSUME QueueInv, NEW t \in Thread, current_thread = t, st[t] = "on", Pass
    PROVE  \/ /\ thread_queue = <<>> /\ thread_queue' = <<>>
              /\ current_thread' = NoThread /\ wakeup_session' = {}
              /\ \A u \in Thread : st[u] # "wait"
           \/ /\ thread_queue # <<>> /\ thread_queue' = Tail(thread_queue)
              /\ current_thread' = thread_queue[1] /\ current_thread' \in Thread \ {t}
              /\ st[current_thread'] = "wait"
              /\ wakeup_session' = {current_thread'}
<1> USE DEF QueueInv
<1>1. wakeup_session = {}
  BY DEF WakesOwner, QueueTypeOK
<1>2. CASE thread_queue = <<>>
  BY <1>1, <1>2 DEF Pass, WaitsInQueue
<1>3. CASE thread_queue # <<>>
  <2>1. 1 \in DOMAIN thread_queue /\ Head(thread_queue) = thread_queue[1]
        /\ thread_queue[1] \in Thread
    BY <1>3 DEF QueueTypeOK
  <2>2. st[thread_queue[1]] = "wait" /\ thread_queue[1] # t
    BY <2>1 DEF QueueWaits
  <2>3. thread_queue[1] \in sleep_session
    BY <2>1, <2>2 DEF SleepsWait, Asleep
  <2> QED BY <1>1, <1>3, <2>1, <2>2, <2>3 DEF Pass
<1> QED BY <1>2, <1>3

\* Handing the section over keeps the invariant, whatever the coroutine that
\* left does next.
LEMMA HandOverKeeps ==
    ASSUME QueueInv, NEW t \in Thread, current_thread = t, st[t] = "on", running = t,
           Pass, ref' = 0, depth' = [depth EXCEPT ![t] = 0], sleep_session' = sleep_session,
           \/ st' = st /\ running' = running
           \/ st' = [st EXCEPT ![t] = "idle"] /\ running' = NoThread
    PROVE  QueueInv'
<1> USE DEF QueueInv
<1> DEFINE q == thread_queue
           n == Len(thread_queue)
<1>1. \A u \in Thread \ {t} : st'[u] = st[u]
  BY DEF QueueTypeOK
<1>2. st'[t] \in {"on", "idle"} /\ st' \in [Thread -> State]
  BY DEF QueueTypeOK, State
<1>3. \A u \in Thread : depth'[u] = 0
  BY DEF OwnerInside, QueueTypeOK
<1>4. RunsOne'
  BY <1>1, <1>2, QueueAssumption DEF RunsOne, QueueTypeOK
<1>5. SleepsWait' /\ OwnerInside'
  BY <1>1, <1>2, <1>3 DEF SleepsWait, Asleep, OwnerInside
<1>6. \A u \in Thread : st'[u] # "woken"
  BY <1>1, <1>2 DEF RunsOne
<1>7. CASE /\ q = <<>> /\ q' = <<>>
           /\ current_thread' = NoThread /\ wakeup_session' = {}
           /\ \A u \in Thread : st[u] # "wait"
  <2>1. QueueTypeOK'
    BY <1>2, <1>7 DEF QueueTypeOK
  <2>2. RefCounts' /\ WokenOwner' /\ WakesOwner' /\ NoLostWakeup' /\ QueueOwned'
    BY <1>6, <1>7 DEF RefCounts, WokenOwner, WakesOwner, NoLostWakeup, QueueOwned
  <2>3. QueueWaits' /\ WaitsInQueue'
    BY <1>1, <1>2, <1>7 DEF QueueWaits, WaitsInQueue
  <2> QED BY <1>4, <1>5, <2>1, <2>2, <2>3
<1>8. CASE /\ q # <<>> /\ q' = Tail(q)
           /\ current_thread' = q[1] /\ current_thread' \in Thread \ {t}
           /\ st[current_thread'] = "wait"
           /\ wakeup_session' = {current_thread'}
  <2>1. q' \in Seq(Thread) /\ n \in Nat /\ n > 0 /\ DOMAIN q = 1..n /\ DOMAIN q' = 1..(n - 1)
        /\ \A i \in 1..(n - 1) : q'[i] = q[i + 1]
    BY <1>8 DEF QueueTypeOK
  <2>2. QueueTypeOK'
    BY <1>2, <1>8, <2>1 DEF QueueTypeOK
  <2>3. RefCounts' /\ WokenOwner' /\ WakesOwner' /\ NoLostWakeup' /\ QueueOwned'
    BY <1>1, <1>6, <1>8, QueueAssumption
       DEF RefCounts, WokenOwner, WakesOwner, NoLostWakeup, QueueOwned, Asleep, SleepsWait
  <2>4. QueueWaits'
    <3> SUFFICES ASSUME NEW i \in 1..(n - 1)
                 PROVE  /\ st'[q'[i]] = "wait" /\ q'[i] # current_thread'
                        /\ \A j \in 1..(n - 1) : q'[i] = q'[j] => i = j
      BY <2>1 DEF QueueWaits
    <3>1. i + 1 \in 1..n /\ 1 \in 1..n /\ i + 1 # 1 /\ q'[i] = q[i + 1] /\ q[i + 1] \in Thread
      BY <2>1 DEF QueueTypeOK
    <3>2. st[q[i + 1]] = "wait" /\ q[i + 1] # q[1]
      BY <2>1, <3>1 DEF QueueWaits
    <3>3. ASSUME NEW j \in 1..(n - 1), q'[i] = q'[j]
          PROVE  i = j
      <4>1. j + 1 \in 1..n /\ q[i + 1] = q[j + 1]
        BY <2>1, <3>1, <3>3
      <4>2. i + 1 = j + 1
        BY <2>1, <3>1, <4>1 DEF QueueWaits
      <4> QED BY <4>2
    <3> QED BY <1>1, <1>8, <3>1, <3>2, <3>3
  <2>5. WaitsInQueue'
    <3> SUFFICES ASSUME NEW u \in Thread, st'[u] = "wait", u # q[1]
                 PROVE  \E i \in 1..(n - 1) : q'[i] = u
      BY <1>8, <2>1 DEF WaitsInQueue
    <3>1. st[u] = "wait" /\ u # t
      BY <1>1, <1>2
    <3>2. PICK k \in 1..n : q[k] = u
      BY <2>1, <3>1 DEF WaitsInQueue
    <3>3. k - 1 \in 1..(n - 1) /\ q'[k - 1] = q[k]
      BY <2>1, <3>2
    <3> QED BY <3>2, <3>3
  <2> QED BY <1>4, <1>5, <2>2, <2>3, <2>4, <2>5
<1>9. QueueInv
  OBVIOUS
<1> HIDE DEF QueueInv
<1> QED BY <1>7, <1>8, <1>9, PassHandsOver

\* Leaving an inner entry keeps the section; leaving the outermost passes it on.
LEMMA LeaveKeeps ==
    ASSUME QueueInv, NEW t \in Thread, Leave(t)
    PROVE  QueueInv'
<1>1. /\ running = t /\ st[t] = "on" /\ depth[t] > 0
      /\ ref' = ref - 1
      /\ depth' = [depth EXCEPT ![t] = @ - 1]
      /\ IF ref = 1 THEN Pass
         ELSE UNCHANGED <<current_thread, thread_queue, wakeup_session>>
      /\ UNCHANGED <<sleep_session, st, running>>
  BY DEF Leave
<1>2. current_thread = t /\ t # NoThread
  BY <1>1, QueueAssumption DEF QueueInv, OwnerInside
<1>3. ref = depth[t] /\ ref \in Nat /\ depth \in [Thread -> Nat]
  BY <1>1, <1>2 DEF QueueInv, RefCounts, Asleep, QueueTypeOK
<1>4. CASE ref = 1
  <2>1. depth' = [depth EXCEPT ![t] = 0] /\ ref' = 0
    BY <1>1, <1>3, <1>4
  <2> QED BY <1>1, <1>2, <1>4, <2>1, HandOverKeeps
<1>5. CASE ref # 1
  <2>1. ref' \in Nat /\ ref' > 0 /\ ref' = depth'[t] /\ depth' \in [Thread -> Nat]
    BY <1>1, <1>3, <1>5
  <2>2. UNCHANGED <<current_thread, thread_queue, wakeup_session, sleep_session, st, running>>
    BY <1>1, <1>5
  <2>3. QueueTypeOK' /\ RunsOne' /\ SleepsWait'
    BY <2>1, <2>2 DEF QueueInv, QueueTypeOK, RunsOne, SleepsWait, Asleep
  <2>4. OwnerInside' /\ RefCounts'
    BY <1>1, <1>2, <1>3, <2>1, <2>2 DEF QueueInv, OwnerInside, RefCounts, Asleep
  <2>5. WokenOwner' /\ WakesOwner' /\ NoLostWakeup' /\ QueueWaits' /\ WaitsInQueue'
        /\ QueueOwned'
    BY <2>2 DEF QueueInv, WokenOwner, WakesOwner, NoLostWakeup, QueueWaits, WaitsInQueue,
                QueueOwned
  <2> QED BY <2>3, <2>4, <2>5 DEF QueueInv
<1> QED BY <1>4, <1>5

\* A coroutine that fails leaves the section, if it was in it.
LEMMA FailKeeps ==
    ASSUME QueueInv, NEW t \in Thread, Fail(t)
    PROVE  QueueInv'
<1>1. /\ running = t /\ st[t] = "on"
      /\ st' = [st EXCEPT ![t] = "idle"] /\ running' = NoThread
      /\ depth' = [depth EXCEPT ![t] = 0]
      /\ IF depth[t] = 0
         THEN UNCHANGED <<current_thread, ref, thread_queue, wakeup_session>>
         ELSE ref' = 0 /\ Pass
      /\ UNCHANGED sleep_session
  BY DEF Fail
<1>2. CASE depth[t] # 0
  <2>1. current_thread = t
    BY <1>2 DEF QueueInv, OwnerInside, QueueTypeOK
  <2> QED BY <1>1, <1>2, <2>1, HandOverKeeps
<1>3. CASE depth[t] = 0
  <2> USE DEF QueueInv
  <2>1. UNCHANGED <<current_thread, ref, thread_queue, wakeup_session, sleep_session, depth>>
    BY <1>1, <1>3 DEF QueueTypeOK
  <2>2. \A u \in Thread : Asleep(u)' = Asleep(u) /\ (st[u] = "wait" <=> st'[u] = "wait")
                           /\ (st[u] = "woken" <=> st'[u] = "woken")
    BY <1>1 DEF Asleep, QueueTypeOK
  <2>3. QueueTypeOK'
    BY <1>1, <2>1 DEF QueueTypeOK, State
  <2>4. RunsOne'
    BY <1>1, QueueAssumption DEF RunsOne, QueueTypeOK
  <2>5. SleepsWait' /\ OwnerInside' /\ WokenOwner'
    BY <2>1, <2>2 DEF SleepsWait, OwnerInside, WokenOwner
  <2>6. RefCounts'
    BY <2>1, <2>2 DEF RefCounts, QueueTypeOK
  <2>7. WakesOwner' /\ NoLostWakeup'
    BY <2>1, <2>2 DEF WakesOwner, NoLostWakeup, QueueTypeOK
  <2>8. QueueWaits' /\ WaitsInQueue' /\ QueueOwned'
    BY <2>1, <2>2 DEF QueueWaits, WaitsInQueue, QueueOwned, QueueTypeOK
  <2> QED BY <2>3, <2>4, <2>5, <2>6, <2>7, <2>8
<1> QED BY <1>2, <1>3

LEMMA QueueNextInv == QueueInv /\ [QueueNext]_queueVars => QueueInv'
<1> SUFFICES ASSUME QueueInv, [QueueNext]_queueVars PROVE QueueInv'
  OBVIOUS
<1>1. CASE UNCHANGED queueVars
  BY <1>1 DEF queueVars, QueueInv, QueueTypeOK, RunsOne, SleepsWait, OwnerInside, RefCounts,
              WokenOwner, WakesOwner, NoLostWakeup, QueueWaits, WaitsInQueue, QueueOwned, Asleep
<1>2. CASE QueueNext
  BY <1>2, DispatchKeeps, YieldKeeps, EnterKeeps, WaitKeeps, ResumeKeeps, LeaveKeeps, FailKeeps
     DEF QueueNext
<1> QED BY <1>1, <1>2

LEMMA QueueInvariant == QueueSpec => []QueueInv
BY QueueInitInv, QueueNextInv, PTL DEF QueueSpec

-----------------------------------------------------------------------------
\* At most one coroutine of a service is in a critical section of queue.lua,
\* however many there are, whatever they call in it and wherever they fail.
THEOREM QueueExcludes == QueueSpec => []MutualExclusion
<1>1. QueueInv => MutualExclusion
  BY DEF QueueInv, OwnerInside, MutualExclusion
<1> QED BY <1>1, QueueInvariant, PTL

\* The assertion of queue.lua:29, ref == 0 after skynet.wait, never fails.
THEOREM QueueAssertHolds == QueueSpec => []ResumedAlone
<1>1. QueueInv => ResumedAlone
  BY QueueAssumption DEF QueueInv, WokenOwner, RefCounts, Asleep, ResumedAlone
<1> QED BY <1>1, QueueInvariant, PTL

\* The wakeup of a coroutine that was handed the section is never lost.
THEOREM QueueKeepsWakeups == QueueSpec => []NoLostWakeup
<1>1. QueueInv => NoLostWakeup
  BY DEF QueueInv
<1> QED BY <1>1, QueueInvariant, PTL

\* The section is first come, first served: who does not wait overtakes nobody.
THEOREM QueueNoOvertaking == QueueSpec => NoOvertaking
<1> DEFINE A == \A t \in Thread : depth[t] = 0 /\ depth'[t] = 1 /\ st[t] # "woken" =>
                    \A u \in Thread : st[u] # "wait"
<1>1. QueueInv /\ [QueueNext]_queueVars => [A]_queueVars
  <2> SUFFICES ASSUME QueueInv, QueueNext, NEW t \in Thread,
                      depth[t] = 0, depth'[t] = 1, st[t] # "woken", NEW u \in Thread
               PROVE  st[u] # "wait"
    OBVIOUS
  <2>1. depth \in [Thread -> Nat]
    BY DEF QueueInv, QueueTypeOK
  <2>2. Enter(t)
    <3>1. PICK v \in Thread : \/ Dispatch(v) \/ Reply(v) \/ Call(v) \/ Return(v) \/ Enter(v)
                              \/ Wait(v) \/ Resume(v) \/ Leave(v) \/ Fail(v)
      BY DEF QueueNext
    <3>2. ~ (Dispatch(v) \/ Reply(v) \/ Call(v) \/ Return(v) \/ Wait(v))
      BY DEF Dispatch, Reply, Call, Return, Wait
    <3>3. ~ (Leave(v) \/ Fail(v))
      BY <2>1 DEF Leave, Fail
    <3>4. ~ Resume(v)
      BY <2>1 DEF Resume
    <3>5. Enter(v) => v = t
      BY <2>1 DEF Enter
    <3> QED BY <3>1, <3>2, <3>3, <3>4, <3>5
  <2>3. st[t] = "on" /\ current_thread \in {NoThread, t}
    BY <2>2 DEF Enter, Taken
  <2>4. current_thread = NoThread
    BY <2>1, <2>3, QueueAssumption DEF QueueInv, RefCounts, Asleep
  <2>5. thread_queue = <<>>
    BY <2>4 DEF QueueInv, QueueOwned
  <2> QED BY <2>4, <2>5, QueueAssumption DEF QueueInv, WaitsInQueue
<1> QED BY <1>1, QueueInvariant, PTL DEF QueueSpec, NoOvertaking
=============================================================================
