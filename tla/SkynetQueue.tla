---------------------------- MODULE SkynetQueue ----------------------------
(***************************************************************************)
(* lualib/skynet/queue.lua, the critical section that roomManager,         *)
(* roomAgent and playerAgent call cs, on the coroutines of one service as  *)
(* lualib/skynet.lua runs them: one at a time, each until it yields.       *)
(*                                                                         *)
(* A coroutine handles one message.  It may enter the section (again, when *)
(* it is in it), call another service and so yield, leave, end, or fail.   *)
(* A coroutine that fails leaves the section it is in, but skynet.lua does *)
(* not go on to the coroutines that were woken until another message comes.*)
(***************************************************************************)
EXTENDS Naturals, Sequences

CONSTANTS Thread,    \* the coroutines of the service
          NoThread,  \* nil
          MaxDepth   \* bound: how often a coroutine enters again

ASSUME QueueAssumption ==
    NoThread \notin Thread /\ MaxDepth \in Nat

VARIABLES current_thread, ref, thread_queue,  \* of the queue
          sleep_session, wakeup_session,      \* of skynet.lua, as sets
          st,       \* what a coroutine does: see State
          depth,    \* how often it has entered and not left
          running   \* the coroutine that runs, if any

queueVars == <<current_thread, ref, thread_queue, sleep_session, wakeup_session,
               st, depth, running>>

\* idle: no message; on: handling one; call: waiting for a reply to skynet.call;
\* wait: in skynet.wait; woken: resumed from it
State == {"idle", "on", "call", "wait", "woken"}

\* suspend, at the end of which dispatch_wakeup resumes one of the coroutines in
\* wakeup_session, if there are any
suspend(woken, sleeping, states) ==
    \/ /\ woken = {}
       /\ running' = NoThread
       /\ st' = states /\ wakeup_session' = woken
    \/ \E c \in woken :
         /\ wakeup_session' = woken \ {c}
         /\ IF c \in sleeping
            THEN running' = c /\ st' = [states EXCEPT ![c] = "woken"]
            ELSE running' = NoThread /\ st' = states

\* raw_dispatch_message: a message is handled by a new coroutine, or is the reply
\* that one waits for
Dispatch(t) ==
    /\ running = NoThread /\ st[t] = "idle"
    /\ running' = t /\ st' = [st EXCEPT ![t] = "on"]
    /\ UNCHANGED <<current_thread, ref, thread_queue, sleep_session, wakeup_session, depth>>

Reply(t) ==
    /\ running = NoThread /\ st[t] = "call"
    /\ running' = t /\ st' = [st EXCEPT ![t] = "on"]
    /\ UNCHANGED <<current_thread, ref, thread_queue, sleep_session, wakeup_session, depth>>

\* skynet.call, in the section or not
Call(t) ==
    /\ running = t /\ st[t] = "on"
    /\ suspend(wakeup_session, sleep_session, [st EXCEPT ![t] = "call"])
    /\ UNCHANGED <<current_thread, ref, thread_queue, sleep_session, depth>>

\* The end of a handler
Return(t) ==
    /\ running = t /\ st[t] = "on" /\ depth[t] = 0
    /\ suspend(wakeup_session, sleep_session, [st EXCEPT ![t] = "idle"])
    /\ UNCHANGED <<current_thread, ref, thread_queue, sleep_session, depth>>

\* Mutant of Taken: only a section that someone is in is taken
TakenInside(t) == ref > 0 /\ current_thread # t

\* The test at the entry
Taken(t) == current_thread # NoThread /\ current_thread # t

Enter(t) ==
    /\ running = t /\ st[t] = "on" /\ depth[t] < MaxDepth
    /\ ~ Taken(t)
    /\ current_thread' = t /\ ref' = ref + 1
    /\ depth' = [depth EXCEPT ![t] = @ + 1]
    /\ UNCHANGED <<thread_queue, sleep_session, wakeup_session, st, running>>

Wait(t) ==
    /\ running = t /\ st[t] = "on" /\ depth[t] < MaxDepth
    /\ Taken(t)
    /\ thread_queue' = Append(thread_queue, t)
    /\ sleep_session' = sleep_session \cup {t}
    /\ suspend(wakeup_session, sleep_session', [st EXCEPT ![t] = "wait"])
    /\ UNCHANGED <<current_thread, ref, depth>>

\* What follows skynet.wait
Resume(t) ==
    /\ running = t /\ st[t] = "woken"
    /\ sleep_session' = sleep_session \ {t}
    /\ current_thread' = t /\ ref' = ref + 1
    /\ depth' = [depth EXCEPT ![t] = @ + 1]
    /\ st' = [st EXCEPT ![t] = "on"]
    /\ UNCHANGED <<thread_queue, wakeup_session, running>>

\* Mutant of Pass: the section is free while the next coroutine is being woken
PassFree ==
    /\ current_thread' = NoThread
    /\ thread_queue' = IF thread_queue = <<>> THEN <<>> ELSE Tail(thread_queue)
    /\ wakeup_session' = wakeup_session \cup
          (IF thread_queue = <<>> THEN {} ELSE {Head(thread_queue)} \cap sleep_session)

\* xpcall_ret once ref is 0: the section goes to the first that waits
Pass ==
    /\ current_thread' = IF thread_queue = <<>> THEN NoThread ELSE Head(thread_queue)
    /\ thread_queue' = IF thread_queue = <<>> THEN <<>> ELSE Tail(thread_queue)
    /\ wakeup_session' = wakeup_session \cup
          (IF thread_queue = <<>> THEN {} ELSE {Head(thread_queue)} \cap sleep_session)

Leave(t) ==
    /\ running = t /\ st[t] = "on" /\ depth[t] > 0
    /\ ref' = ref - 1
    /\ depth' = [depth EXCEPT ![t] = @ - 1]
    /\ IF ref = 1 THEN Pass
       ELSE UNCHANGED <<current_thread, thread_queue, wakeup_session>>
    /\ UNCHANGED <<sleep_session, st, running>>

\* An error: each xpcall_ret on its way lets it pass; suspend raises it again and
\* does not reach dispatch_wakeup
Fail(t) ==
    /\ running = t /\ st[t] = "on"
    /\ st' = [st EXCEPT ![t] = "idle"] /\ running' = NoThread
    /\ depth' = [depth EXCEPT ![t] = 0]
    /\ IF depth[t] = 0 THEN UNCHANGED <<current_thread, ref, thread_queue, wakeup_session>>
       ELSE ref' = 0 /\ Pass
    /\ UNCHANGED sleep_session

QueueInit ==
    /\ current_thread = NoThread /\ ref = 0 /\ thread_queue = <<>>
    /\ sleep_session = {} /\ wakeup_session = {}
    /\ st = [t \in Thread |-> "idle"] /\ depth = [t \in Thread |-> 0]
    /\ running = NoThread

QueueNext ==
    \E t \in Thread :
        \/ Dispatch(t) \/ Reply(t) \/ Call(t) \/ Return(t) \/ Enter(t)
        \/ Wait(t) \/ Resume(t) \/ Leave(t) \/ Fail(t)

QueueSpec == QueueInit /\ [][QueueNext]_queueVars

\* The coroutine that runs goes on (the service is one Lua state); replies
\* come; a handler does not call or enter again for ever, but leaves and ends.
\* That further messages come is not assumed.
QueueFairSpec ==
    /\ QueueSpec
    /\ \A t \in Thread : /\ WF_queueVars(Resume(t))
                         /\ SF_queueVars(Reply(t))
                         /\ \A d \in 1..MaxDepth : SF_queueVars(Leave(t) /\ depth[t] = d)
                         /\ SF_queueVars(Return(t))

-----------------------------------------------------------------------------
QueueTypeOK ==
    /\ current_thread \in Thread \cup {NoThread}
    /\ ref \in Nat
    /\ thread_queue \in Seq(Thread)
    /\ sleep_session \in SUBSET Thread /\ wakeup_session \in SUBSET Thread
    /\ st \in [Thread -> State]
    /\ depth \in [Thread -> Nat]
    /\ running \in Thread \cup {NoThread}

\* One coroutine at a time is in the section, with everything that it calls
\* from there: cs keeps what joinRoom, playerPayCard and the other commands of
\* a room do apart.
MutualExclusion == \A t, u \in Thread : depth[t] > 0 /\ depth[u] > 0 => t = u

\* The assertion of queue.lua:29: nobody is in the section when a coroutine
\* that waited for it goes on, although others run between its wakeup and that.
ResumedAlone == \A t \in Thread : st[t] = "woken" => ref = 0 /\ current_thread = t

\* A coroutine that the section was passed to while it slept is going to be
\* woken by the next suspend, even if the one that passed it failed.
NoLostWakeup ==
    current_thread # NoThread /\ st[current_thread] = "wait" =>
        current_thread \in wakeup_session \cap sleep_session

\* Nobody overtakes: the section is entered without waiting only when nobody waits.
NoOvertaking ==
    [][\A t \in Thread : depth[t] = 0 /\ depth'[t] = 1 /\ st[t] # "woken" =>
            \A u \in Thread : st[u] # "wait"]_queueVars

\* A coroutine that waits gets in without any further message to its service,
\* unless a handler fails, nothing else of the service is going on, and no other
\* message ever comes: only then does a wakeup stay undelivered.
WaiterEnters ==
    \A t \in Thread :
        st[t] = "wait" ~> \/ depth[t] > 0
                         \/ [](running = NoThread /\ wakeup_session # {})
=============================================================================
