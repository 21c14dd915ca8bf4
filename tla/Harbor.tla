------------------------------- MODULE Harbor -------------------------------
(***************************************************************************)
(* The harbors (service_harbor.c) of two skynet nodes, the connection      *)
(* between them and their slave services.  A message that is sent before   *)
(* the other harbor is connected, or before its name is known, waits in a  *)
(* queue; on the wire it is a length and a content, which arrive in pieces *)
(* of any size.                                                            *)
(***************************************************************************)
EXTENDS Integers, FiniteSets, SequencesExt

CONSTANTS Peer,               \* the two harbor ids, 1..REMOTE_MAX-1
          GlobalName, RemoteHandle, \* names, and services of each node, not 0
          HARBOR_QUEUE_SIZE,  \* DEFAULT_QUEUE_SIZE of service_harbor.c
          Sender, MaxSent,    \* nodes that send, and how many messages
          AnyId               \* whether the node reached may have another id

ASSUME HarborAssumption ==
    /\ Peer \subseteq Nat \ {0} /\ Cardinality(Peer) = 2 /\ RemoteHandle \subseteq Nat \ {0}
    /\ HARBOR_QUEUE_SIZE \in Nat \ {0, 1} /\ MaxSent \in Nat /\ Sender \subseteq Peer /\ AnyId \in BOOLEAN

VARIABLES slaves,     \* h->s of each node
          globals,    \* h->map of each node
          wire,       \* what each node sent on the connection and did not arrive
          linked,     \* the connection, the node that made it, the ids that the nodes
                      \* have, and whether accept_slave has read the first of them
          handed,     \* messages that each node handed to its harbor
          arrived,    \* messages that each harbor forwarded to a local service
          told        \* downs of which each harbor told its slave service

harborVars == <<slaves, globals, wire, linked, handed, arrived, told>>

Other(n) == CHOOSE p \in Peer : p # n
NoQueue == [size |-> 0, head |-> 0, tail |-> 0, data |-> <<>>]
NoSlave == [fd |-> FALSE, status |-> "WAIT", queue |-> NoQueue, size |-> <<>>, recv |-> <<>>]
NoLink == [state |-> "none", from |-> 0, id |-> [n \in Peer |-> n], accepted |-> FALSE]

\* hash_insert: a name that nothing is known of.  Names are never erased, so a
\* name that is not in the hash yet is one that is.
hash_insert == [value |-> [harbor |-> 0, handle |-> 0], queue |-> NoQueue]

\* harbor_create, harbor_init
HarborInit ==
    /\ slaves = [n \in Peer |-> [p \in Peer |-> NoSlave]]
    /\ globals = [n \in Peer |-> [g \in GlobalName |-> hash_insert]]
    /\ wire = [n \in Peer |-> <<>>] /\ linked = NoLink
    /\ handed = [n \in Peer |-> <<>>] /\ arrived = [n \in Peer |-> <<>>]
    /\ told = [n \in Peer |-> FALSE]

-----------------------------------------------------------------------------
(* struct harbor_msg_queue: a ring with one slot free                      *)

new_queue == [size |-> HARBOR_QUEUE_SIZE, head |-> 0, tail |-> 0,
              data |-> [i \in 0..HARBOR_QUEUE_SIZE - 1 |-> 0]]

Expanded(q) ==
    IF (q.tail + 1) % q.size # q.head THEN q
    ELSE [size |-> q.size * 2, head |-> 0, tail |-> q.size - 1,
          data |-> [i \in 0..q.size * 2 - 1 |->
                       IF i < q.size - 1 THEN q.data[(i + q.head) % q.size] ELSE 0]]
push_queue(q, m) ==
    LET e == Expanded(q)
    IN  [e EXCEPT !.data[e.tail] = m, !.tail = (@ + 1) % e.size]

\* What the pops of a loop over pop_queue return
Queued(q) ==
    IF q = NoQueue THEN <<>>
    ELSE [i \in 1..(q.tail - q.head) % q.size |-> q.data[(q.head + i - 1) % q.size]]

release_queue(q) == NoQueue
hash_search(n, g) == globals[n][g]

-----------------------------------------------------------------------------
(* A message keeps what its sender meant (want), beside the destination    *)
(* handle of its header (to).  late tells that it waited for its name      *)
(* while its harbor was not connected.                                     *)

\* send_remote: a length of two units, big-endian, and the content, whose
\* cookie is its last unit
ContentSize(m) == 1 + (m.n % 2)
Wired(m) == <<[v |-> 0, m |-> <<>>], [v |-> ContentSize(m), m |-> <<>>]>>
            \o [i \in 1..ContentSize(m) |-> [v |-> i, m |-> <<m>>]]
Handshake(n) == <<[v |-> linked.id[n], m |-> <<>>]>>
\* skynet_socket_send: what is sent on a broken connection, or after the socket
\* was closed, is lost
Sends(n, units) ==
    wire' = IF linked.state = "up" /\ slaves[n][Other(n)].status # "DOWN" THEN [wire EXCEPT ![n] = @ \o units] ELSE wire
WiredAll(ms) == FlattenSeq([i \in DOMAIN ms |-> Wired(ms[i])])

\* remote_send_handle of harbor n
remote_send_handle(n, harbor, m) ==
    LET s == slaves[n][harbor] IN
    CASE harbor = n ->
            /\ arrived' = [arrived EXCEPT ![n] = Append(@, m)]
            /\ UNCHANGED <<slaves, wire>>
      [] harbor # n /\ (~s.fd \/ s.status = "HANDSHAKE") /\ s.status # "DOWN" ->
            /\ slaves' = [slaves EXCEPT ![n][harbor].queue =
                             push_queue(IF @ = NoQueue THEN new_queue ELSE @, m)]
            /\ UNCHANGED <<arrived, wire>>
      [] harbor # n /\ ~s.fd /\ s.status = "DOWN" ->
            UNCHANGED <<slaves, arrived, wire>>
      [] OTHER -> Sends(n, Wired(m)) /\ UNCHANGED <<slaves, arrived>>

NewMessage(n, to, via) == [n |-> Len(handed[n]), from |-> n, via |-> via, to |-> to.handle,
                           want |-> to, late |-> FALSE]

\* mainloop, a message for a handle
SendHandle(n, to) ==
    LET m == NewMessage(n, to, "handle") IN
    /\ Len(handed[n]) < MaxSent
    /\ handed' = [handed EXCEPT ![n] = Append(@, m)]
    /\ remote_send_handle(n, to.harbor, m)
    /\ UNCHANGED <<globals, linked, told>>

\* mainloop, remote_send_name
remote_send_name(n, g) ==
    LET node == hash_search(n, g)
        m == NewMessage(n, node.value, g)
    IN
    /\ Len(handed[n]) < MaxSent
    /\ handed' = [handed EXCEPT ![n] = Append(@, m)]
    /\ IF node.value.handle = 0
       THEN /\ globals' = [globals EXCEPT ![n][g].queue =
                              push_queue(IF @ = NoQueue THEN new_queue ELSE @, m)]
            /\ UNCHANGED <<slaves, arrived, wire>>
       ELSE remote_send_handle(n, node.value.harbor, m) /\ UNCHANGED globals
    /\ UNCHANGED <<linked, told>>

-----------------------------------------------------------------------------
(* harbor_command                                                          *)

\* cslave.lua, accept_slave: the node that is reached reads one unit, the id of
\* the other one, and hands the socket to its harbor.  Whatever else comes to
\* the slave service until the harbor has started the socket is lost.  (What a
\* harbor makes of the rest of such a stream is not followed.)
accept_slave(n, len) ==
    LET p == Other(n) IN
    /\ linked.state = "up" /\ linked.from = p /\ ~slaves[n][p].fd /\ len \in 1..Len(wire[p])
    /\ linked' = [linked EXCEPT !.accepted = TRUE,
                                !.state = IF linked.accepted \/ len > 1 THEN "lost" ELSE @]
    /\ wire' = [wire EXCEPT ![p] = SubSeq(@, len + 1, Len(@))]
    /\ UNCHANGED <<slaves, globals, handed, arrived, told>>

\* The destination of a message in the queue of a name
Named(m, to) == [m EXCEPT !.to = to.handle, !.want = to]

\* dispatch_name_queue, for the messages that waited for the name.  The
\* destination is completed when they are sent at once, and not when they
\* move to the queue of the harbor.
dispatch_name_queue(n, to, queue) ==
    LET s == slaves[n][to.harbor]
        ms == Queued(queue)
        Moved(m) == [m EXCEPT !.want = to, !.late = TRUE]
        named == [i \in DOMAIN ms |-> Named(ms[i], to)]
        moved == FoldLeft(push_queue, IF s.queue = NoQueue THEN new_queue ELSE s.queue,
                          [i \in DOMAIN ms |-> Moved(ms[i])])
    IN
    CASE ~s.fd /\ s.status = "DOWN" -> UNCHANGED <<slaves, arrived, wire>>
      [] ~s.fd /\ s.status # "DOWN" /\ to.harbor = n ->
            arrived' = [arrived EXCEPT ![n] = @ \o named] /\ UNCHANGED <<slaves, wire>>
      [] ~s.fd /\ s.status # "DOWN" /\ to.harbor # n ->
            /\ slaves' = [slaves EXCEPT ![n][to.harbor].queue = moved]
            /\ UNCHANGED <<arrived, wire>>
      [] OTHER -> Sends(n, WiredAll(named)) /\ UNCHANGED <<slaves, arrived>>

\* 'N': update_name
update_name(n, g, to) ==
    LET queue == hash_search(n, g).queue IN
    /\ hash_search(n, g).value # to
    /\ globals' = [globals EXCEPT ![n][g] = [value |-> to, queue |-> release_queue(queue)]]
    /\ IF queue # NoQueue THEN dispatch_name_queue(n, to, queue)
       ELSE UNCHANGED <<slaves, arrived, wire>>
    /\ UNCHANGED <<linked, handed, told>>

\* Mutant of Joined: the accepting node does not dispatch its queue.
JoinedForgets(n) ==
    LET p == Other(n)
        connector == linked.from = n
    IN
    /\ linked.state # "none" /\ ~slaves[n][p].fd /\ (connector \/ linked.accepted)
    /\ slaves' = [slaves EXCEPT ![n][p] =
                     [@ EXCEPT !.fd = TRUE, !.status = IF connector THEN "HANDSHAKE" ELSE "HEADER",
                               !.queue = IF connector THEN @ ELSE NoQueue]]
    /\ Sends(n, Handshake(n))
    /\ UNCHANGED <<globals, linked, handed, arrived, told>>

\* 'S' for the node that made the connection, 'A' for the other one
Joined(n) ==
    LET p == Other(n)
        connector == linked.from = n
    IN
    /\ linked.state # "none" /\ ~slaves[n][p].fd /\ (connector \/ linked.accepted)
    /\ slaves' = [slaves EXCEPT ![n][p] =
                     [@ EXCEPT !.fd = TRUE, !.status = IF connector THEN "HANDSHAKE" ELSE "HEADER",
                               !.queue = IF connector THEN @ ELSE NoQueue]]
    /\ Sends(n, Handshake(n) \o (IF connector THEN <<>> ELSE WiredAll(Queued(slaves[n][p].queue))))
    /\ UNCHANGED <<globals, linked, handed, arrived, told>>

-----------------------------------------------------------------------------
(* push_socket_data, as a loop over the state of the slave.  sent and      *)
(* forwarded are what it sends and forwards on the way.                    *)

close_harbor(s) == [s EXCEPT !.status = "DOWN", !.queue = release_queue(@)]

Take(data, n) == SubSeq(data, 1, n)
Skip(data, n) == SubSeq(data, n + 1, Len(data))
Least(a, b) == IF a < b THEN a ELSE b

RECURSIVE Receive(_, _, _)
Receive(r, id, data) ==
    LET s == r.s
        head == s.size \o Take(data, Least(2 - Len(s.size), Len(data)))
        length == s.size[2].v
        body == s.recv \o Take(data, Least(length - Len(s.recv), Len(data)))
    IN
    CASE s.status = "DOWN" -> r
      [] s.status = "HANDSHAKE" /\ Head(data).v # id -> [r EXCEPT !.s = close_harbor(s)]
      [] s.status = "HANDSHAKE" /\ Head(data).v = id ->
            Receive([r EXCEPT !.s = [s EXCEPT !.status = "HEADER", !.queue = NoQueue],
                              !.sent = WiredAll(Queued(s.queue))], id, Tail(data))
      [] s.status = "HEADER" /\ Len(head) < 2 -> [r EXCEPT !.s.size = head]
      [] s.status = "HEADER" /\ Len(head) = 2 /\ head[1].v # 0 -> [r EXCEPT !.s = close_harbor(s)]
      [] s.status = "HEADER" /\ Len(head) = 2 /\ head[1].v = 0 ->
            LET next == [r EXCEPT !.s.size = head, !.s.status = "CONTENT"]
                rest == Skip(data, 2 - Len(s.size))
            IN  IF rest = <<>> THEN next ELSE Receive(next, id, rest)
      [] s.status = "CONTENT" /\ Len(body) < length -> [r EXCEPT !.s.recv = body]
      [] s.status = "CONTENT" /\ Len(body) >= length ->
            LET next == [r EXCEPT !.s.size = <<>>, !.s.recv = <<>>, !.s.status = "HEADER",
                                  !.forwarded = Append(@, body)]
                rest == Skip(data, length - Len(s.recv))
            IN  IF rest = <<>> THEN next ELSE Receive(next, id, rest)

\* forward_local_messsage: the cookie at the end of the content is the header
Content(body) ==
    LET whole == \A i \in DOMAIN body : body[i] = [v |-> i, m |-> Last(body).m]
    IN  [Last(body).m[1] EXCEPT !.n = IF whole THEN @ ELSE -1]

push_socket_data(n, len) ==
    LET p == Other(n)
        r == Receive([s |-> slaves[n][p], sent |-> <<>>, forwarded |-> <<>>], p, Take(wire[p], len))
    IN
    /\ linked.state = "up" /\ len \in 1..Len(wire[p])
    /\ slaves[n][p].fd      \* the socket is started by the command
    /\ slaves' = [slaves EXCEPT ![n][p] = r.s]
    /\ wire' = [wire EXCEPT ![p] = Skip(@, len), ![n] = @ \o r.sent]
    /\ arrived' = [arrived EXCEPT ![n] = @ \o [i \in DOMAIN r.forwarded |-> Content(r.forwarded[i])]]
    /\ UNCHANGED <<globals, linked, handed, told>>

\* The end of the connection: report_harbor_down, to each slave service
HarborClosed(n) ==
    /\ linked.state = "broken" /\ slaves[n][Other(n)].fd /\ ~told[n]
    /\ told' = [told EXCEPT ![n] = TRUE]
    /\ UNCHANGED <<slaves, globals, wire, linked, handed, arrived>>

-----------------------------------------------------------------------------
\* The slave services connect the nodes; a node may be started with the id
\* of another one.  The connection may break.
Connected(n) ==
    /\ linked.state = "none"
    /\ \E id \in (IF AnyId THEN {Other(n), 0} ELSE {Other(n)}) :
           linked' = [linked EXCEPT !.state = "up", !.from = n, !.id[Other(n)] = id]
    /\ UNCHANGED <<slaves, globals, wire, handed, arrived, told>>
Broken ==
    /\ linked.state \in {"up", "lost"} /\ linked' = [linked EXCEPT !.state = "broken"]
    /\ wire' = [n \in Peer |-> <<>>]
    /\ UNCHANGED <<slaves, globals, handed, arrived, told>>

HarborNext ==
    \/ \E n \in Sender, harbor \in Peer, h \in RemoteHandle :
          \/ SendHandle(n, [harbor |-> harbor, handle |-> h])
          \/ \E g \in GlobalName : update_name(n, g, [harbor |-> harbor, handle |-> h])
    \/ \E n \in Sender, g \in GlobalName : remote_send_name(n, g)
    \/ \E n \in Peer : \/ Joined(n) \/ HarborClosed(n) \/ Connected(n)
                       \/ \E len \in 1..Len(wire[Other(n)]) :
                             push_socket_data(n, len) \/ accept_slave(n, len)
    \/ Broken
HarborSpec == HarborInit /\ [][HarborNext]_harborVars

-----------------------------------------------------------------------------
ByHandle(ms) == SelectSeq(ms, LAMBDA m : m.via = "handle")
\* Messages of a sequence of units of which the first ones are in
InFlight(units) == LET bodies == SelectSeq(units, LAMBDA u : u.m # <<>> /\ u.v = 1)
                   IN  [i \in DOMAIN bodies |-> bodies[i].m[1]]

\* Whatever the pieces, and whether they waited in the queue of the harbor,
\* the messages a node sends to handles of the other one are forwarded there
\* whole, once and in order; until the connection ends the others are in the
\* pieces received, on the wire or in the queue.  (Unless dispatch_name_queue
\* sends before the handshake is done, and what follows the id is lost.)
RemoteInOrder ==
    \A n \in Peer :
        LET p == Other(n)
            sent == SelectSeq(ByHandle(handed[n]), LAMBDA m : m.want.harbor = p)
            there == SelectSeq(ByHandle(arrived[p]), LAMBDA m : m.from = n)
            partial == InFlight(slaves[p][n].recv \o wire[n])
        IN
        /\ IsPrefix(there, sent)
        /\ linked.state \notin {"broken", "lost"} /\ "DOWN" \notin {slaves[n][p].status, slaves[p][n].status} =>
              sent = there \o ByHandle(partial \o Queued(slaves[n][p].queue))

\* A message is forwarded to the service it was sent to, by handle or by
\* name, and never to another one.  One that waited for its name before its
\* harbor was connected, which dispatch_name_queue leaves without a handle,
\* is sent to handle 0 of that node: no service has it.
RightService ==
    \A n \in Peer : \A i \in DOMAIN arrived[n] :
        LET m == arrived[n][i] IN
        /\ m.want.harbor = n /\ m.n >= 0
        /\ m.to = IF m.late THEN 0 ELSE m.want.handle

\* A harbor that shook hands has nothing left in the queue, so nothing can
\* overtake a message that waits there.
QueueOnlyBefore ==
    \A n, p \in Peer : slaves[n][p].queue # NoQueue =>
        slaves[n][p].status \in {"WAIT", "HANDSHAKE"}

\* What goes to another node arrives in order at the service that it names
HarborServes == RemoteInOrder /\ RightService /\ QueueOnlyBefore
=============================================================================
