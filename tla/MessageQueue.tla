--------------------------- MODULE MessageQueue ---------------------------
(***************************************************************************)
(* The message queues of the services and the global queue of queues that  *)
(* have something to do (skynet_mq.c).  Each operation is one step: it     *)
(* holds the spinlock of its queue, and takes that of the global queue     *)
(* inside.  What a thread took out of the global queue and has not put     *)
(* back, or has just created, is held.                                     *)
(***************************************************************************)
EXTENDS Naturals, Sequences

CONSTANTS Service, Msg,
          Boot        \* the services that start before the threads do

ASSUME BootAssumption == Boot \subseteq Service

VARIABLES msgs,       \* the messages of each service's queue
          in_global,
          release,    \* the service's context is gone
          alloc,      \* none, live or freed
          Q,          \* the global queue
          held        \* the queues in the hands of a thread

mqVars == <<msgs, in_global, release, alloc, Q, held>>

MqInit ==
    /\ msgs \in [Service -> Seq(Msg)]
    /\ \A h \in Service \ Boot : msgs[h] = <<>>
    /\ in_global = [h \in Service |-> h \in Boot]
    /\ release = [h \in Service |-> FALSE]
    /\ alloc = [h \in Service |-> IF h \in Boot THEN "live" ELSE "none"]
    /\ Q \in Seq(Boot)
    /\ \A h \in Boot : \E i \in 1..Len(Q) : Q[i] = h
    /\ \A i, j \in 1..Len(Q) : Q[i] = Q[j] => i = j
    /\ held = {}

\* in_global is set at once: the launching thread pushes the queue itself
skynet_mq_create(h) ==
    /\ alloc[h] = "none"
    /\ alloc' = [alloc EXCEPT ![h] = "live"]
    /\ in_global' = [in_global EXCEPT ![h] = TRUE]
    /\ held' = held \cup {h}
    /\ UNCHANGED <<msgs, release, Q>>

skynet_globalmq_push(h) ==
    /\ h \in held
    /\ Q' = Append(Q, h)
    /\ held' = held \ {h}
    /\ UNCHANGED <<msgs, in_global, release, alloc>>

skynet_globalmq_pop ==
    /\ Q # <<>>
    /\ Q' = Tail(Q)
    /\ held' = held \cup {Head(Q)}
    /\ UNCHANGED <<msgs, in_global, release, alloc>>

\* The sender holds a reference to the service's context
skynet_mq_push(h, m) ==
    /\ alloc[h] = "live" /\ ~release[h]
    /\ msgs' = [msgs EXCEPT ![h] = Append(@, m)]
    /\ in_global' = [in_global EXCEPT ![h] = TRUE]
    /\ Q' = IF in_global[h] THEN Q ELSE Append(Q, h)
    /\ UNCHANGED <<release, alloc, held>>

\* A worker takes a message; from an empty queue it goes away without it
MqTake(h) ==
    /\ h \in held /\ msgs[h] # <<>>
    /\ msgs' = [msgs EXCEPT ![h] = Tail(@)]
    /\ UNCHANGED <<in_global, release, alloc, Q, held>>

\* Mutant of MqEmpty: in_global stays set
EmptyStaysGlobal(h) ==
    /\ h \in held /\ msgs[h] = <<>> /\ ~release[h]
    /\ held' = held \ {h}
    /\ UNCHANGED <<msgs, in_global, release, alloc, Q>>

MqEmpty(h) ==
    /\ h \in held /\ msgs[h] = <<>> /\ ~release[h]
    /\ in_global' = [in_global EXCEPT ![h] = FALSE]
    /\ held' = held \ {h}
    /\ UNCHANGED <<msgs, release, alloc, Q>>

\* The context was deleted; somebody has to come and drop the messages
skynet_mq_mark_release(h) ==
    /\ alloc[h] = "live" /\ ~release[h]
    /\ release' = [release EXCEPT ![h] = TRUE]
    /\ Q' = IF in_global[h] THEN Q ELSE Append(Q, h)
    /\ UNCHANGED <<msgs, in_global, alloc, held>>

\* skynet_mq_release puts a queue back whose context is not deleted yet and
\* drops (MqTake) and frees the others
MqPutBack(h) == ~release[h] /\ skynet_globalmq_push(h)

MqFree(h) ==
    /\ h \in held /\ release[h] /\ msgs[h] = <<>>
    /\ in_global' = [in_global EXCEPT ![h] = FALSE]
    /\ alloc' = [alloc EXCEPT ![h] = "freed"]
    /\ held' = held \ {h}
    /\ UNCHANGED <<msgs, release, Q>>

MqNext ==
    \/ skynet_globalmq_pop
    \/ \E h \in Service :
         \/ skynet_mq_create(h) \/ skynet_globalmq_push(h) \/ MqPutBack(h)
         \/ MqTake(h) \/ MqEmpty(h) \/ skynet_mq_mark_release(h) \/ MqFree(h)
         \/ \E m \in Msg : skynet_mq_push(h, m)
MqSpec == MqInit /\ [][MqNext]_mqVars

-----------------------------------------------------------------------------
MqTypeOK ==
    /\ msgs \in [Service -> Seq(Msg)]
    /\ in_global \in [Service -> BOOLEAN] /\ release \in [Service -> BOOLEAN]
    /\ alloc \in [Service -> {"none", "live", "freed"}]
    /\ Q \in Seq(Service) /\ held \subseteq Service

Queued(h) == \E i \in 1..Len(Q) : Q[i] = h

\* A queue is in one place only: once in the global queue, or with one
\* thread.  This is the assertion queue->next == NULL of skynet_globalmq_push,
\* and the reason why no service runs on two worker threads at once.
OnePlace ==
    /\ \A i, j \in 1..Len(Q) : Q[i] = Q[j] => i = j
    /\ \A h \in held : ~Queued(h)

\* A message is never left in a queue that nobody will look at: the sender
\* that finds in_global cleared puts the queue back (skynet_mq.c:203), and a
\* deleted context hands its queue over (skynet_mq.c:224).
NoLostQueue ==
    \A h \in Service :
        alloc[h] = "live" /\ (msgs[h] # <<>> \/ release[h]) => Queued(h) \/ h \in held

\* No queue is freed while the global queue or a thread still has it.
FreedIsGone == \A h \in Service : alloc[h] # "live" => ~Queued(h) /\ h \notin held

\* A queue is in one place, a queue with messages is in some place, and a freed
\* one in none (in_global and the release of a queue in skynet_mq.c)
QueuesKept == OnePlace /\ NoLostQueue /\ FreedIsGone
=============================================================================
