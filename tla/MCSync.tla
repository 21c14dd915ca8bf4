------------------------------- MODULE MCSync -------------------------------
(***************************************************************************)
(* The two locks for TLC, each on its own: a behaviour runs the one that   *)
(* part names, and the other stays as it starts.                           *)
(***************************************************************************)
EXTENDS SkynetQueue, RWLock

VARIABLE part

allVars == <<queueVars, lockVars, part>>

MCInit == part \in {"queue", "lock"} /\ QueueInit /\ LockInit

QueuePart(step) == part = "queue" /\ step /\ UNCHANGED <<lockVars, part>>
LockPart(step) == part = "lock" /\ step /\ UNCHANGED <<queueVars, part>>

MCNext == QueuePart(QueueNext) \/ LockPart(LockNext)

\* The fairness of QueueFairSpec and LockFairSpec, for the behaviours of each
MCFairness ==
    /\ \A t \in Thread :
          /\ WF_allVars(QueuePart(Resume(t))) /\ SF_allVars(QueuePart(Reply(t)))
          /\ \A d \in 1..MaxDepth : SF_allVars(QueuePart(Leave(t) /\ depth[t] = d))
          /\ SF_allVars(QueuePart(Return(t)))
    /\ \A t \in Locker : WF_allVars(LockPart(LockStep(t)))
MCSpec == MCInit /\ [][MCNext]_allVars /\ MCFairness
=============================================================================
