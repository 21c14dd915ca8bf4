------------------------------- MODULE RWLock -------------------------------
(***************************************************************************)
(* The readers-writer lock of rwlock.h, built without USE_PTHREAD_LOCK:    *)
(* each access to lock->write and lock->read is a step.                    *)
(***************************************************************************)
EXTENDS Integers, FiniteSets

CONSTANT Locker
ASSUME LockerAssumption == IsFiniteSet(Locker)

VARIABLES write, read,
          lockAt     \* where each thread is

lockVars == <<write, read, lockAt>>

LockInit == write = FALSE /\ read = 0 /\ lockAt = [t \in Locker |-> "out"]

LockMove(t, from, to) == lockAt[t] = from /\ lockAt' = [lockAt EXCEPT ![t] = to]

\* Mutant of ReadTry: a reader does not wait before it counts itself
ReadTryAnyway(t) ==
    /\ LockMove(t, "out", "counting")
    /\ UNCHANGED <<write, read>>

\* rwlock_rlock: wait for no writer, count oneself, look again
ReadTry(t) ==
    /\ LockMove(t, "out", "counting") /\ ~write
    /\ UNCHANGED <<write, read>>
ReadCount(t) ==
    /\ LockMove(t, "counting", "counted")
    /\ read' = read + 1 /\ UNCHANGED write
\* Mutant of ReadEnter: the reader does not look again
ReadEnterBlind(t) ==
    /\ LockMove(t, "counted", "reading")
    /\ UNCHANGED <<write, read>>

ReadEnter(t) ==
    /\ LockMove(t, "counted", "reading") /\ ~write
    /\ UNCHANGED <<write, read>>
ReadBackOff(t) ==
    /\ LockMove(t, "counted", "leaving") /\ write
    /\ UNCHANGED <<write, read>>
ReadRetry(t) ==
    /\ LockMove(t, "leaving", "out")
    /\ read' = read - 1 /\ UNCHANGED write

rwlock_runlock(t) ==
    /\ LockMove(t, "reading", "out")
    /\ read' = read - 1 /\ UNCHANGED write

\* rwlock_wlock: set write if nobody has, then wait for the readers
WriteSet(t) ==
    /\ LockMove(t, "out", "draining") /\ ~write
    /\ write' = TRUE /\ UNCHANGED read
WriteEnter(t) ==
    /\ LockMove(t, "draining", "writing") /\ read = 0
    /\ UNCHANGED <<write, read>>

rwlock_wunlock(t) ==
    /\ LockMove(t, "writing", "out")
    /\ write' = FALSE /\ UNCHANGED read

LockStep(t) ==
    \/ ReadCount(t) \/ ReadEnter(t) \/ ReadBackOff(t) \/ ReadRetry(t)
    \/ rwlock_runlock(t) \/ WriteEnter(t) \/ rwlock_wunlock(t)
LockNext == \E t \in Locker : LockStep(t) \/ ReadTry(t) \/ WriteSet(t)
LockSpec == LockInit /\ [][LockNext]_lockVars

\* A thread goes on, and leaves the section; nobody has to enter it
LockFairSpec == LockSpec /\ \A t \in Locker : WF_lockVars(LockStep(t))

-----------------------------------------------------------------------------
Counted == {t \in Locker : lockAt[t] \in {"counted", "leaving", "reading"}}

LockTypeOK ==
    /\ write \in BOOLEAN /\ read \in Int
    /\ lockAt \in [Locker -> {"out", "counting", "counted", "leaving", "reading",
                          "draining", "writing"}]

\* A writer is alone: a reader that counted itself between the writer's
\* steps sees write and backs off.
LockExcludes ==
    \A t, u \in Locker :
        lockAt[t] = "writing" /\ lockAt[u] \in {"reading", "writing"} => t = u

\* Readers that keep coming cannot hold up a writer that has set write: they
\* wait until write is cleared before they count themselves.
WriterEnters == \A t \in Locker : lockAt[t] = "draining" ~> lockAt[t] = "writing"
=============================================================================
