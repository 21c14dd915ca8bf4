------------------------------- MODULE Kernel -------------------------------
(***************************************************************************)
(* Services, worker threads and messages (skynet_server.c, skynet_start.c) *)
(* over the queues of MessageQueue.  A thread has a stack of the steps     *)
(* that it still has to do, each with a service and a message; a step is   *)
(* what runs under one lock or is one atomic operation.  A handle is used  *)
(* for one service only: handles repeat after 2^24 registrations.          *)
(***************************************************************************)
EXTENDS Integers, Sequences, FiniteSets

CONSTANTS Worker,            \* the worker threads
          Outside,           \* other threads that send: timer and socket
          Service, NoService,
          Boot,              \* services that exist when the threads start
          BootMsgs,          \* what each of them was sent by then
          Weight,            \* worker_parm.weight of each worker
          MaxMsgs            \* bounds the messages that are sent

ASSUME KernelAssumption ==
    /\ NoService \notin Service /\ Boot \subseteq Service /\ Boot # {}
    /\ Worker \cap Outside = {}
    /\ Weight \in [Worker -> -1..3] /\ MaxMsgs \in Nat /\ BootMsgs \in 0..MaxMsgs

VARIABLES msgs, in_global, release, alloc, Q,   \* see MessageQueue
          slot,      \* the services in the handle storage
          ref,       \* references to a context; it is deleted at 0
          init,      \* ctx->init
          total,     \* G_NODE.total
          todo,      \* the steps of each thread, innermost first
          left,      \* messages a worker goes on to take from its queue
          asleep,    \* workers in pthread_cond_wait
          sleep,     \* monitor.sleep
          quit,      \* monitor.quit
          sent       \* messages sent so far

queueVars == <<msgs, in_global, release, alloc, Q>>
contextVars == <<slot, ref, init, total>>
threadVars == <<left, asleep, sleep, quit>>
kernelVars == <<queueVars, contextVars, threadVars, todo, sent>>

Thread == Worker \cup Outside

\* A message by its source and a number; errors of dropped messages are 0
Msg == [src : Service \cup {NoService}, n : 0..MaxMsgs]
NoMsg == [src |-> NoService, n |-> 0]

Frame(op, h) == [op |-> op, h |-> h, m |-> NoMsg]
With(op, h, m) == [op |-> op, h |-> h, m |-> m]

\* The steps whose thread has the queue of the service in its hands
Owning == {"loop", "grab", "pop0", "pop", "len", "handler", "swap", "gpush",
           "init", "release", "drop", "exited"}
Frames == UNION {{t} \X DOMAIN todo[t] : t \in Thread}
At(f) == todo[f[1]][f[2]]
Held == {h \in Service : \E f \in Frames : At(f).op \in Owning /\ At(f).h = h}

MQ == INSTANCE MessageQueue WITH held <- Held

KernelInit ==
    /\ msgs = [h \in Service |->
                 [i \in 1..(IF h \in Boot THEN BootMsgs ELSE 0) |-> [src |-> h, n |-> i]]]
    /\ in_global = [h \in Service |-> h \in Boot]
    /\ release = [h \in Service |-> FALSE]
    /\ alloc = [h \in Service |-> IF h \in Boot THEN "live" ELSE "none"]
    /\ Q \in {q \in [1..Cardinality(Boot) -> Boot] : {q[i] : i \in DOMAIN q} = Boot}
    /\ slot = Boot
    /\ ref = [h \in Service |-> IF h \in Boot THEN 1 ELSE 0]
    /\ init = [h \in Service |-> h \in Boot]
    /\ total = Cardinality(Boot)
    /\ todo = [t \in Thread |-> IF t \in Worker THEN <<Frame("loop", NoService)>> ELSE <<>>]
    /\ left = [w \in Worker |-> 0]
    /\ asleep = {} /\ sleep = 0 /\ quit = FALSE
    /\ sent = BootMsgs

\* Thread t is at a step op; it goes on with the given steps
Now(t, op) == todo[t] # <<>> /\ Head(todo[t]).op = op
H(t) == Head(todo[t]).h
Then(t, frames) == todo' = [todo EXCEPT ![t] = frames \o Tail(@)]

-----------------------------------------------------------------------------
(* Contexts and sending.                                                   *)

\* skynet_handle_grab
Grabbed(h) == ref' = [ref EXCEPT ![h] = @ + 1]

\* skynet_context_push before thread t does rest: nothing is sent to a
\* handle that is not registered
skynet_context_push(t, h, m, rest) ==
    IF h \in slot
    THEN Grabbed(h) /\ Then(t, <<With("push", h, m), Frame("unref", h)>> \o rest)
    ELSE UNCHANGED ref /\ Then(t, rest)

\* Mutant of Push: the queue is put into the global queue by every push
PushAlways(t) ==
    /\ Now(t, "push")
    /\ msgs' = [msgs EXCEPT ![H(t)] = Append(@, Head(todo[t]).m)]
    /\ Q' = Append(Q, H(t))
    /\ Then(t, <<>>)
    /\ UNCHANGED <<in_global, release, alloc, contextVars, threadVars, sent>>

\* Mutant of Push: a queue that is not global is not put back
PushLost(t) ==
    /\ Now(t, "push")
    /\ msgs' = [msgs EXCEPT ![H(t)] = Append(@, Head(todo[t]).m)]
    /\ Then(t, <<>>)
    /\ UNCHANGED <<in_global, release, alloc, Q, contextVars, threadVars, sent>>

Push(t) ==
    /\ Now(t, "push")
    /\ LET h == H(t)
       IN  /\ msgs' = [msgs EXCEPT ![h] = Append(@, Head(todo[t]).m)]
           /\ in_global' = [in_global EXCEPT ![h] = TRUE]
           /\ Q' = IF in_global[h] THEN Q ELSE Append(Q, h)
    /\ Then(t, <<>>)
    /\ UNCHANGED <<release, alloc, contextVars, threadVars, sent>>

skynet_context_release(t) ==
    /\ Now(t, "unref")
    /\ ref' = [ref EXCEPT ![H(t)] = @ - 1]
    /\ Then(t, IF ref[H(t)] = 1 THEN <<Frame("delete", H(t))>> ELSE <<>>)
    /\ UNCHANGED <<queueVars, slot, init, total, threadVars, sent>>

delete_context(t) ==
    /\ Now(t, "delete")
    /\ release' = [release EXCEPT ![H(t)] = TRUE]
    /\ Q' = IF in_global[H(t)] THEN Q ELSE Append(Q, H(t))
    /\ total' = total - 1
    /\ Then(t, <<>>)
    /\ UNCHANGED <<msgs, in_global, alloc, slot, ref, init, threadVars, sent>>

\* Mutant of Retired: the reference of the handle storage is not given back
RetiredKeepsRef(t, h, rest) ==
    IF h \in slot THEN slot' = slot \ {h} /\ Then(t, rest) ELSE UNCHANGED slot /\ Then(t, rest)

\* skynet_handle_retire, which releases the context outside of its lock
Retired(t, h, rest) ==
    IF h \in slot
    THEN slot' = slot \ {h} /\ Then(t, <<Frame("unref", h)>> \o rest)
    ELSE UNCHANGED slot /\ Then(t, rest)

-----------------------------------------------------------------------------
(* What a handler, or a service's init function, may do.                   *)

InService(t) == Now(t, "handler") \/ Now(t, "init")

skynet_send(t, h) ==
    /\ InService(t) /\ sent < MaxMsgs
    /\ sent' = sent + 1
    /\ skynet_context_push(t, h, [src |-> H(t), n |-> sent + 1], <<Head(todo[t])>>)
    /\ UNCHANGED <<queueVars, slot, init, total, threadVars>>

\* EXIT, KILL and ABORT
handle_exit(t, h) ==
    /\ InService(t) /\ h \in slot
    /\ Retired(t, h, <<Head(todo[t])>>)
    /\ UNCHANGED <<queueVars, ref, init, total, threadVars, sent>>

\* skynet_context_new as far as the service's init function
skynet_context_new(t, h) ==
    /\ Now(t, "handler") /\ alloc[h] = "none"
    /\ slot' = slot \cup {h}
    /\ ref' = [ref EXCEPT ![h] = 2]
    /\ alloc' = [alloc EXCEPT ![h] = "live"]
    /\ in_global' = [in_global EXCEPT ![h] = TRUE]
    /\ total' = total + 1
    /\ Then(t, <<Frame("init", h), Head(todo[t])>>)
    /\ UNCHANGED <<msgs, release, Q, init, threadVars, sent>>

\* The launching thread gives up its reference.  A service that has ended itself
\* in its init function is deleted by that.
InitDone(t) ==
    /\ Now(t, "init")
    /\ \/ /\ ref' = [ref EXCEPT ![H(t)] = @ - 1]
          /\ Then(t, IF ref[H(t)] = 1 THEN <<Frame("delete", H(t)), Frame("gpush", H(t))>>
                     ELSE <<Frame("inited", H(t)), Frame("gpush", H(t)), Frame("launched", H(t))>>)
       \/ /\ UNCHANGED ref
          /\ Then(t, <<Frame("unref", H(t)), Frame("retire", H(t)), Frame("release", H(t))>>)
    /\ UNCHANGED <<queueVars, slot, init, total, threadVars, sent>>

\* ctx->init is written without a reference
Inited(t) ==
    /\ Now(t, "inited")
    /\ init' = [init EXCEPT ![H(t)] = TRUE]
    /\ Then(t, <<>>)
    /\ UNCHANGED <<queueVars, slot, ref, total, threadVars, sent>>

\* and the handle is read without one, for the log and by cmd_launch: of a
\* service that a worker has run and ended since, from memory that is freed
Launched(t) ==
    /\ Now(t, "launched")
    /\ Then(t, <<>>)
    /\ UNCHANGED <<queueVars, contextVars, threadVars, sent>>

RetireFailed(t) ==
    /\ Now(t, "retire")
    /\ Retired(t, H(t), <<>>)
    /\ UNCHANGED <<queueVars, ref, init, total, threadVars, sent>>

skynet_globalmq_push(t) ==
    /\ Now(t, "gpush")
    /\ Q' = Append(Q, H(t))
    /\ Then(t, <<>>)
    /\ UNCHANGED <<msgs, in_global, release, alloc, contextVars, threadVars, sent>>

-----------------------------------------------------------------------------
(* A worker: skynet_context_message_dispatch and thread_worker.            *)

\* The return of skynet_globalmq_pop() is the worker's next queue
PopGlobal(t, found, none) ==
    \/ Q = <<>> /\ UNCHANGED Q /\ Then(t, none)
    \/ Q # <<>> /\ Q' = Tail(Q) /\ Then(t, found)

FirstQueue(w) ==
    /\ Now(w, "loop") /\ ~quit /\ H(w) = NoService
    /\ PopGlobal(w, <<Frame("grab", Head(Q))>>, <<Frame("idle", NoService)>>)
    /\ UNCHANGED <<msgs, in_global, release, alloc, contextVars, threadVars, sent>>

NextQueue(w) ==
    /\ Now(w, "next")
    /\ PopGlobal(w, <<Frame("loop", Head(Q))>>, <<Frame("idle", NoService)>>)
    /\ UNCHANGED <<msgs, in_global, release, alloc, contextVars, threadVars, sent>>

GrabContext(w) ==
    /\ \/ Now(w, "grab")
       \/ Now(w, "loop") /\ ~quit /\ H(w) # NoService
    /\ \/ H(w) \in slot /\ Grabbed(H(w)) /\ Then(w, <<Frame("pop0", H(w))>>)
       \/ /\ H(w) \notin slot /\ UNCHANGED ref
          /\ Then(w, <<Frame("release", H(w)), Frame("next", NoService)>>)
    /\ UNCHANGED <<queueVars, slot, init, total, threadVars, sent>>

PopMessage(w) ==
    /\ Now(w, "pop0") \/ Now(w, "pop")
    /\ LET h == H(w)
       IN  IF msgs[h] = <<>>
           THEN /\ in_global' = [in_global EXCEPT ![h] = FALSE]
                /\ Then(w, <<Frame("unref", h), Frame("next", NoService)>>)
                /\ UNCHANGED <<msgs, left>>
           ELSE /\ msgs' = [msgs EXCEPT ![h] = Tail(@)]
                /\ Then(w, <<With(IF Now(w, "pop0") THEN "len" ELSE "handler", h, Head(msgs[h]))>>)
                /\ left' = [left EXCEPT ![w] = IF Now(w, "pop0") THEN 0 ELSE @ - 1]
                /\ UNCHANGED in_global
    /\ UNCHANGED <<release, alloc, Q, contextVars, asleep, sleep, quit, sent>>

\* A worker of weight k >= 0 goes on for a 2^k-th of what is in the queue now
BatchSize(w) ==
    /\ Now(w, "len")
    /\ LET n == IF Weight[w] < 0 THEN 1 ELSE Len(msgs[H(w)]) \div 2^Weight[w]
       IN  left' = [left EXCEPT ![w] = IF n = 0 THEN 0 ELSE n - 1]
    /\ Then(w, <<With("handler", H(w), Head(todo[w]).m)>>)
    /\ UNCHANGED <<queueVars, contextVars, asleep, sleep, quit, sent>>

Return(w) ==
    /\ Now(w, "handler")
    /\ Then(w, <<Frame(IF left[w] > 0 THEN "pop" ELSE "swap", H(w))>>)
    /\ UNCHANGED <<queueVars, contextVars, threadVars, sent>>

\* With nothing else to do the worker keeps its queue
Swap(w) ==
    /\ Now(w, "swap")
    /\ PopGlobal(w, <<Frame("gpush", H(w)), Frame("unref", H(w)), Frame("loop", Head(Q))>>,
                    <<Frame("unref", H(w)), Frame("loop", H(w))>>)
    /\ UNCHANGED <<msgs, in_global, release, alloc, contextVars, threadVars, sent>>

\* Mutant of skynet_mq_release: the queue is dropped before the context is deleted
ReleaseAtOnce(t) ==
    /\ Now(t, "release") /\ Then(t, <<Frame("drop", H(t))>>)
    /\ UNCHANGED <<queueVars, contextVars, threadVars, sent>>

skynet_mq_release(t) ==
    /\ Now(t, "release")
    /\ \/ release[H(t)] /\ UNCHANGED Q /\ Then(t, <<Frame("drop", H(t))>>)
       \/ ~release[H(t)] /\ Q' = Append(Q, H(t)) /\ Then(t, <<>>)
    /\ UNCHANGED <<msgs, in_global, release, alloc, contextVars, threadVars, sent>>

\* drop_message: the source of a dropped message gets an error
DropMessage(t) ==
    /\ Now(t, "drop") /\ msgs[H(t)] # <<>>
    /\ msgs' = [msgs EXCEPT ![H(t)] = Tail(@)]
    /\ skynet_context_push(t, Head(msgs[H(t)]).src, [src |-> H(t), n |-> 0], <<Head(todo[t])>>)
    /\ UNCHANGED <<in_global, release, alloc, Q, slot, init, total, threadVars, sent>>

FreeQueue(t) ==
    /\ Now(t, "drop") /\ msgs[H(t)] = <<>>
    /\ in_global' = [in_global EXCEPT ![H(t)] = FALSE]
    /\ alloc' = [alloc EXCEPT ![H(t)] = "freed"]
    /\ Then(t, <<>>)
    /\ UNCHANGED <<msgs, release, Q, contextVars, threadVars, sent>>

\* A worker that finds nothing sleeps unless the threads are to quit
Sleep(w) ==
    /\ Now(w, "idle")
    /\ sleep' = sleep + 1
    /\ asleep' = IF quit THEN asleep ELSE asleep \cup {w}
    /\ Then(w, <<Frame("wait", NoService)>>)
    /\ UNCHANGED <<queueVars, contextVars, left, quit, sent>>

Awake(w) ==
    /\ Now(w, "wait") /\ w \notin asleep
    /\ sleep' = sleep - 1
    /\ Then(w, <<Frame("loop", NoService)>>)
    /\ UNCHANGED <<queueVars, contextVars, left, asleep, quit, sent>>

\* The queue of a worker that ends is left to the end of the process
WorkerExit(w) ==
    /\ Now(w, "loop") /\ quit
    /\ Then(w, <<Frame("exited", H(w))>>)
    /\ UNCHANGED <<queueVars, contextVars, threadVars, sent>>

-----------------------------------------------------------------------------
(* The other threads.                                                      *)

\* Timeouts and the news of sockets have no source
OutsideSend(t, h) ==
    /\ t \in Outside /\ todo[t] = <<>> /\ ~quit /\ sent < MaxMsgs
    /\ sent' = sent + 1
    /\ IF h \in slot
       THEN /\ Grabbed(h)
            /\ todo' = [todo EXCEPT ![t] = <<With("push", h, [src |-> NoService, n |-> sent + 1]),
                                             Frame("unref", h)>>]
       ELSE UNCHANGED <<ref, todo>>
    /\ UNCHANGED <<queueVars, slot, init, total, threadVars>>

\* wakeup: the timer thread passes count - 1 as busy and the socket thread 0
wakeup(busy) ==
    /\ sleep >= Cardinality(Worker) - busy
    /\ \E w \in asleep : asleep' = asleep \ {w}
    /\ UNCHANGED <<queueVars, contextVars, todo, left, sleep, quit, sent>>

TimerWakeup == ~quit /\ total # 0 /\ wakeup(Cardinality(Worker) - 1)

SocketWakeup == wakeup(0)

\* pthread_cond_wait may also return by itself
SpuriousWakeup ==
    /\ \E w \in asleep : asleep' = asleep \ {w}
    /\ UNCHANGED <<queueVars, contextVars, todo, left, sleep, quit, sent>>

\* Mutant of TimerAbort: the workers that sleep are not woken
AbortSilently ==
    /\ total = 0 /\ ~quit /\ quit' = TRUE
    /\ UNCHANGED <<queueVars, contextVars, todo, left, asleep, sleep, sent>>

\* CHECK_ABORT of the timer thread, which then wakes everybody to quit
TimerAbort ==
    /\ total = 0 /\ ~quit
    /\ quit' = TRUE /\ asleep' = {}
    /\ UNCHANGED <<queueVars, contextVars, todo, left, sleep, sent>>

\* What a thread does on its own: a service acts only in its handlers
ThreadStep(t) ==
    \/ Push(t) \/ skynet_context_release(t) \/ delete_context(t)
    \/ InitDone(t) \/ Inited(t) \/ Launched(t) \/ RetireFailed(t) \/ skynet_globalmq_push(t)
    \/ skynet_mq_release(t) \/ DropMessage(t) \/ FreeQueue(t)
WorkerStep(w) ==
    \/ FirstQueue(w) \/ NextQueue(w) \/ GrabContext(w) \/ PopMessage(w) \/ BatchSize(w)
    \/ Return(w) \/ Swap(w) \/ Sleep(w) \/ Awake(w) \/ WorkerExit(w)
ServiceAct(t) ==
    \E h \in Service : skynet_send(t, h) \/ handle_exit(t, h) \/ skynet_context_new(t, h)

Finished ==
    /\ \A w \in Worker : Now(w, "exited")
    /\ \A t \in Outside : todo[t] = <<>>
    /\ UNCHANGED kernelVars

KernelNext ==
    \/ \E t \in Thread : ThreadStep(t)
    \/ \E w \in Worker : WorkerStep(w) \/ ServiceAct(w)
    \/ \E t \in Outside, h \in Service : OutsideSend(t, h)
    \/ TimerWakeup \/ SocketWakeup \/ SpuriousWakeup \/ TimerAbort \/ Finished

\* Threads run, handlers return, and the timer thread ticks
KernelFairness ==
    /\ \A t \in Thread : WF_kernelVars(ThreadStep(t))
    /\ \A w \in Worker : WF_kernelVars(WorkerStep(w))
    /\ WF_kernelVars(TimerWakeup) /\ WF_kernelVars(TimerAbort)

KernelSpec == KernelInit /\ [][KernelNext]_kernelVars
KernelFairSpec == KernelSpec /\ KernelFairness

-----------------------------------------------------------------------------
KernelTypeOK ==
    /\ MQ!MqTypeOK
    /\ slot \subseteq Service /\ ref \in [Service -> 0..10] /\ init \in [Service -> BOOLEAN]
    /\ total \in 0..Cardinality(Service)
    /\ left \in [Worker -> Nat] /\ asleep \subseteq Worker
    /\ sleep \in 0..Cardinality(Worker) /\ quit \in BOOLEAN
    /\ \A f \in Frames : At(f).h \in Service \cup {NoService} /\ At(f).m \in Msg

\* No two threads have the queue of one service in their hands, so that no
\* two workers run one service: a queue is returned or kept by every path of
\* skynet_context_message_dispatch and skynet_context_new, and never both.
OneHolder ==
    \A f, g \in Frames :
        At(f).op \in Owning /\ At(g).op \in Owning /\ At(f).h = At(g).h /\ At(f).h # NoService
          => f = g

\* A context is deleted exactly when its last reference goes: ref counts the
\* handle storage, the launching thread, the workers that run it and the
\* senders that grabbed it.
Counts(f, h) ==
    At(f).h = h /\ At(f).op \in {"unref", "init", "pop0", "pop", "len", "handler", "swap"}
RefsCounted ==
    \A h \in Service :
        ref[h] = Cardinality({f \in Frames : Counts(f, h)}) + (IF h \in slot THEN 1 ELSE 0)

\* The assertion ctx->init of dispatch_message: a service is never called
\* before skynet_context_new is done with it.
DispatchInited == \A f \in Frames : At(f).op = "handler" => init[At(f).h]

\* A queue that is freed was emptied, and nobody is about to push to it.
PushesToLive ==
    \A f \in Frames : At(f).op \in {"push", "pop0", "pop", "len", "drop"} =>
        alloc[At(f).h] = "live" /\ (release[At(f).h] <=> At(f).op = "drop")

\* skynet's promise to a service: one message at a time and in order, none
\* lost, and none dropped before the context is deleted, although workers,
\* senders, launches and kills interleave.
Calling(h) == {f \in Frames : At(f).op \in {"len", "handler"} /\ At(f).h = h}
Actor == INSTANCE Mailbox WITH
    box <- msgs,
    running <- [h \in Service |-> IF Calling(h) = {} THEN NoMsg
                                  ELSE At(CHOOSE f \in Calling(h) : TRUE).m],
    closed <- {h \in Service : alloc[h] # "none" /\ ref[h] = 0}
ServiceIsActor == Actor!MailboxSpec

\* Every message is taken out of its queue, handled or dropped: the global
\* queue is served in turn, and workers that sleep are woken by the timer.
Waits(n) == \E h \in Service : \E i \in 1..Len(msgs[h]) : msgs[h][i].n = n
MessagesServed == \A n \in 1..MaxMsgs : Waits(n) ~> ~Waits(n) \/ quit

\* When the last service is gone every worker thread ends, asleep or not:
\* quit is set and broadcast under the mutex that the worker sleeps with.
WorkersEnd == (total = 0) ~> (\A w \in Worker : Now(w, "exited"))

\* Contexts and queues are used only while they are there and by one worker,
\* whoever ends a service and when, its own init function included.  Left out
\* are the uses of a context that skynet_context_new and cmd_launch make after
\* they have given up their reference (Inited, Launched), which are not safe.
ContextsSafe == KernelTypeOK /\ OneHolder /\ RefsCounted /\ DispatchInited /\ PushesToLive
=============================================================================
