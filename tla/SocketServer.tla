---------------------------- MODULE SocketServer ----------------------------
(***************************************************************************)
(* The socket thread of socket_server.c.  Services reserve a slot by a     *)
(* compare-and-swap on its type and write requests to a pipe; the socket   *)
(* thread alone does the rest: it reads the requests when it has waited    *)
(* for events, and then handles the events of that batch.                  *)
(*                                                                         *)
(* A request, or an event, is handled in a step: only reserve_id writes to *)
(* a slot from another thread, and only to one of type INVALID.  Its       *)
(* compare-and-swap and the stores of id and fd are two steps: in between, *)
(* the socket thread may meet a slot of type RESERVE under the id that it  *)
(* had before.  An assertion that fails ends the server.  What the network *)
(* does is a choice.  A buffer is the number of units that are still to be *)
(* written and whether some were.  Left out: which service a message goes  *)
(* to (opaque), the size of read buffers, socket options, and what a read  *)
(* or write through the old fd of a RESERVE slot does when that number is  *)
(* the descriptor of another socket by then: it is taken to fail.          *)
(***************************************************************************)
EXTENDS Integers, FiniteSets, FiniteSetsExt, SequencesExt

CONSTANTS MAX_SOCKET,
          Op,          \* the requests that services make
          MaxId,       \* bounds the ids; they wrap at 2^31
          MaxReq,      \* bounds the requests
          MaxPipe,     \* bounds those on their way
          MaxReserving \* bounds the threads inside reserve_id

ASSUME SocketAssumption == MAX_SOCKET \in Nat \ {0} /\ MaxId \in Nat /\ MaxReq \in Nat

VARIABLES ss,          \* ss->slot
          alloc_id,
          pipe,        \* the requests, oldest first
          batch,       \* the events of the last sp_wait that are still to be handled
          checkctrl,
          result,      \* the message that socket_server_poll returned last
          closing,     \* an id whose events clear_closed_event still has to clear
          reserving,   \* ids that reserve_id has a slot for and not yet stored
          issued,      \* ids that services know
          ended,       \* ids whose socket was closed
          fds,         \* open file descriptors
          reqs,
          serving      \* FALSE after an exit request, or a failed assertion

requestVars == <<pipe, reqs>>
threadVars == <<batch, checkctrl, closing, result, ended, serving>>
idVars == <<alloc_id, reserving, issued>>
socketVars == <<ss, fds, requestVars, threadVars, idVars>>

Sock == 0..MAX_SOCKET - 1
HASH_ID(id) == id % MAX_SOCKET
NoMessage == [type |-> "none", id |-> 0]

EmptySlot == [type |-> "INVALID", id |-> 0, fd |-> 0, protocol |-> "tcp", addr |-> "none",
              high |-> <<>>, low |-> <<>>, wb_size |-> 0, watch |-> "no",
              wire |-> FALSE, torn |-> FALSE]

\* socket_server_create
SocketInit ==
    /\ ss = [h \in Sock |-> EmptySlot] /\ alloc_id = 0 /\ pipe = <<>>
    /\ batch = <<>> /\ checkctrl = TRUE /\ result = NoMessage /\ closing = 0
    /\ reserving = {} /\ issued = {} /\ ended = {} /\ fds = {} /\ reqs = 0
    /\ serving = TRUE

-----------------------------------------------------------------------------
(* Requests of services.                                                   *)

NewFd == Min((1..Cardinality(fds) + 1) \ fds)
FreeIds == {id \in alloc_id + 1..alloc_id + MAX_SOCKET : ss[HASH_ID(id)].type = "INVALID"}

\* The compare-and-swap of reserve_id
Reserve(id) ==
    /\ alloc_id' = id
    /\ ss' = [ss EXCEPT ![HASH_ID(id)].type = "RESERVE"]

\* socket_server_connect, _listen, _udp and _bind up to there; the descriptor
\* of listen and udp is closed when there is no slot
reserve_id(op) ==
    LET fd == IF op \in {"L", "U"} THEN NewFd ELSE 0 IN
    /\ reqs < MaxReq /\ reqs' = reqs + 1
    /\ Cardinality(reserving) < MaxReserving
    /\ \/ /\ FreeIds # {} /\ Min(FreeIds) <= MaxId /\ Reserve(Min(FreeIds))
          /\ reserving' = reserving \cup {[op |-> op, id |-> alloc_id', fd |-> fd]}
          /\ fds' = fds \cup ({fd} \ {0})
       \/ /\ FreeIds = {} /\ alloc_id <= MaxId /\ alloc_id' = alloc_id + MAX_SOCKET
          /\ UNCHANGED <<ss, reserving, fds>>
    /\ UNCHANGED <<pipe, issued, threadVars>>

\* socket_server_udp, with the descriptor it opens or binds
socket_server_udp == reserve_id("U")

Request(op, id, fd, v) == [op |-> op, id |-> id, fd |-> fd, v |-> v]
send_request(r) == Len(pipe) < MaxPipe /\ pipe' = Append(pipe, r)

\* The rest: s->id = id, s->fd = -1 and the request
Reserved(r) ==
    /\ r \in reserving /\ reserving' = reserving \ {r}
    /\ ss' = [ss EXCEPT ![HASH_ID(r.id)].id = r.id, ![HASH_ID(r.id)].fd = 0]
    /\ send_request(Request(r.op, r.id, r.fd, "none")) /\ issued' = issued \cup {r.id}
    /\ UNCHANGED <<alloc_id, fds, reqs, threadVars>>

\* socket_server_start, _close and _shutdown
socket_server_ask(op, id, v) ==
    /\ reqs < MaxReq /\ reqs' = reqs + 1 /\ id \in issued
    /\ send_request(Request(op, id, 0, v))
    /\ UNCHANGED <<ss, fds, idVars, threadVars>>

\* socket_server_send and _send_lowpriority look at the slot first
socket_server_send(op, id, v) ==
    /\ ss[HASH_ID(id)].id = id /\ ss[HASH_ID(id)].type # "INVALID"
    /\ socket_server_ask(op, id, v)

socket_server_nodelay(id) == socket_server_ask("T", id, "none")

\* The protocol of the address that the name resolves to, or that is given
socket_server_udp_connect(id) == \E v \in {"udp", "udp6"} : socket_server_ask("C", id, v)
socket_server_udp_send(id) == \E v \in {"udp", "udp6"} : socket_server_send("A", id, v)

socket_server_exit ==
    /\ reqs < MaxReq /\ reqs' = reqs + 1
    /\ send_request(Request("X", 0, 0, "none"))
    /\ UNCHANGED <<ss, fds, idVars, threadVars>>

-----------------------------------------------------------------------------
(* What the socket thread does to a slot: a set of outcomes, each the new  *)
(* slot, the message and the open descriptors.                             *)

Out(s, m, f) == [s |-> s, m |-> m, f |-> f]
Abort(s) == Out(s, "ABORT", fds)

force_close(s, m) ==
    IF s.type = "INVALID" THEN Out(s, m, fds)
    ELSE IF s.type = "RESERVE" THEN Abort(s)
    ELSE Out([s EXCEPT !.type = "INVALID", !.high = <<>>, !.low = <<>>, !.watch = "no",
                       !.wire = FALSE, !.torn = FALSE],
             m, IF s.type = "BIND" THEN fds ELSE fds \ {s.fd})

\* new_fd with the type that its caller gives the socket
new_fd(s, id, fd, protocol, type, watch) ==
    [EmptySlot EXCEPT !.type = type, !.id = id, !.fd = fd, !.protocol = protocol, !.watch = watch]
\* Its assertions: the slot is of type RESERVE, and when the descriptor could
\* be watched, nothing is left in the lists
NewOrAbort(s, failed, outs) ==
    IF s.type # "RESERVE" THEN {Abort(s)}
    ELSE failed \cup IF s.high = <<>> /\ s.low = <<>> THEN outs ELSE {Abort(s)}
Fail(s) == [s EXCEPT !.type = "INVALID"]

open_socket(s, r) ==
    LET fd == NewFd IN
    {Out(Fail(s), "ERROR", fds)} \cup
    NewOrAbort(s, {}, {Out(new_fd(s, r.id, fd, "tcp", "CONNECTED", "r"), "OPEN", fds \cup {fd}),
                       Out(new_fd(s, r.id, fd, "tcp", "CONNECTING", "rw"), "none", fds \cup {fd})})

listen_socket(s, r) ==
    NewOrAbort(s, {}, {Out(new_fd(s, r.id, r.fd, "tcp", "PLISTEN", "no"), "none", fds)})

bind_socket(s, r) ==
    NewOrAbort(s, {Out(Fail(s), "ERROR", fds)},
               {Out(new_fd(s, r.id, r.fd, "tcp", "BIND", "r"), "OPEN", fds)})

add_udp_socket(s, r) ==
    NewOrAbort(s, {Out(Fail(s), "none", fds \ {r.fd})},
               {Out(new_fd(s, r.id, r.fd, "udp", "CONNECTED", "r"), "none", fds)})

start_socket(s, r) ==
    IF s.type = "INVALID" \/ s.id # r.id THEN {Out(s, "ERROR", fds)}
    ELSE IF s.type \in {"PACCEPT", "PLISTEN"}
    THEN {force_close(s, "ERROR"),
          Out([s EXCEPT !.type = IF s.type = "PACCEPT" THEN "CONNECTED" ELSE "LISTEN",
                        !.watch = "r"], "OPEN", fds)}
    ELSE {Out(s, IF s.type = "CONNECTED" THEN "OPEN" ELSE "none", fds)}

set_udp_address(s, r) ==
    IF s.type = "INVALID" \/ s.id # r.id THEN {Out(s, "none", fds)}
    ELSE IF r.v # s.protocol THEN {Out(s, "ERROR", fds)}
    ELSE {Out([s EXCEPT !.addr = r.v], "none", fds)}

-----------------------------------------------------------------------------
(* Sending.                                                                *)

Size(list) == FoldLeft(LAMBDA n, b : n + b.sz, 0, list)
Drop(list, j) == SubSeq(list, j + 1, Len(list))
list_uncomplete(list) == list # <<>> /\ Head(list).part

\* What a write may leave of the list: it takes whole buffers, and then
\* some units of the next
LeftTcp(list) ==
    {Drop(list, j) : j \in 0..Len(list)} \cup
    UNION {{<<[list[j] EXCEPT !.sz = @ - n, !.part = TRUE]>> \o Drop(list, j)
              : n \in 1..list[j].sz - 1} : j \in DOMAIN list}
\* udp_socket_address: sendto fails for an address of another protocol, and
\* the datagram stays
LeftUdp(s, list) ==
    {Drop(list, j) : j \in {k \in 0..Len(list) :
                              \A i \in 1..k : list[i].addr = s.protocol}}
Left(s, list) == IF s.protocol = "tcp" THEN LeftTcp(list) ELSE LeftUdp(s, list)

\* The slot after list was written down to left.  wire says that a message is
\* on the wire in part, and torn that something else was written after it.
Wrote(s, list, left) ==
    [s EXCEPT !.wb_size = @ - (Size(list) - Size(left)),
              !.wire = IF left = list THEN @ ELSE list_uncomplete(left),
              !.torn = @ \/ (left # list /\ s.wire # Head(list).part)]
send_list_high(s) == {[Wrote(s, s.high, l) EXCEPT !.high = l] : l \in Left(s, s.high)}
send_list_low(s) == {[Wrote(s, s.low, l) EXCEPT !.low = l] : l \in Left(s, s.low)}

\* Mutant of raise_uncomplete: the rest of a message stays in the low list.
NotRaised(s) == s

raise_uncomplete(s) ==
    IF list_uncomplete(s.low)
    THEN [s EXCEPT !.high = <<Head(s.low)>>, !.low = Tail(@)] ELSE s

send_buffer_empty(s) == s.high = <<>> /\ s.low = <<>>

After_high(s) ==
    IF s.high # <<>> THEN {Out(s, "none", fds)}
    ELSE IF s.low # <<>> THEN {Out(raise_uncomplete(l), "none", fds) : l \in send_list_low(s)}
    ELSE IF s.type = "HALFCLOSE" THEN {force_close(s, "CLOSE")}
    ELSE {Out([s EXCEPT !.watch = IF @ = "no" THEN @ ELSE "r"], "none", fds)}

send_buffer(s) ==
    IF list_uncomplete(s.low) \/ s.type = "RESERVE" THEN {Abort(s)}
    ELSE UNION {After_high(a) : a \in send_list_high(s)}
         \cup IF s.protocol = "tcp" /\ ~send_buffer_empty(s)
              THEN {force_close(s, "CLOSE")} ELSE {}

Buffer(r, sz, part) == [sz |-> sz, part |-> part, addr |-> r.v]

append_sendbuffer(s, b, high) ==
    [s EXCEPT !.high = IF high THEN Append(@, b) ELSE @,
              !.low = IF high THEN @ ELSE Append(@, b),
              !.wb_size = @ + b.sz]

\* The message of a request is of two units, a datagram of one
SizeOf(s) == IF s.protocol = "tcp" THEN 2 ELSE 1

send_socket(s, r) ==
    LET b == Buffer(r, SizeOf(s), FALSE)
        addr == IF r.v = "none" THEN s.addr ELSE r.v
        armed == [s EXCEPT !.watch = "rw"]
    IN
    IF s.type \in {"INVALID", "HALFCLOSE", "PACCEPT", "PLISTEN", "LISTEN"} \/ s.id # r.id
    THEN {Out(s, "none", fds)}
    ELSE IF send_buffer_empty(s) /\ s.type = "CONNECTED"
    THEN IF s.protocol = "tcp"
         THEN {force_close(s, "CLOSE"), Out([s EXCEPT !.torn = @ \/ s.wire], "none", fds)}
              \cup {Out([append_sendbuffer(armed, Buffer(r, 2 - n, n > 0), TRUE)
                           EXCEPT !.wire = n > 0, !.torn = @ \/ s.wire], "none", fds)
                       : n \in 0..1}
         ELSE {Out(append_sendbuffer(armed, [b EXCEPT !.addr = addr], r.op # "P"), "none", fds)}
              \cup IF addr = s.protocol THEN {Out(s, "none", fds)} ELSE {}
    ELSE {Out(append_sendbuffer(s, IF s.protocol = "tcp" THEN b ELSE [b EXCEPT !.addr = addr],
                                r.op # "P"), "none", fds)}

close_socket(s, r) ==
    IF s.type = "INVALID" \/ s.id # r.id THEN {Out(s, "CLOSE", fds)}
    ELSE LET sent == IF send_buffer_empty(s) THEN {Out(s, "none", fds)} ELSE send_buffer(s)
         IN  UNION {IF o.m # "none" THEN {o}
                    ELSE IF r.v = "shutdown" \/ send_buffer_empty(o.s)
                    THEN {force_close(o.s, "CLOSE")}
                    ELSE {Out([o.s EXCEPT !.type = "HALFCLOSE"], "none", fds)} : o \in sent}

-----------------------------------------------------------------------------
(* The socket thread.                                                      *)

ctrl_cmd(s, r) ==
    CASE r.op = "S" -> start_socket(s, r)
      [] r.op = "B" -> bind_socket(s, r)
      [] r.op = "L" -> listen_socket(s, r)
      [] r.op = "K" -> close_socket(s, r)
      [] r.op = "O" -> open_socket(s, r)
      [] r.op \in {"D", "P", "A"} -> send_socket(s, r)
      [] r.op = "C" -> set_udp_address(s, r)
      [] r.op = "U" -> add_udp_socket(s, r)
      [] OTHER -> {Out(s, "none", fds)}

\* The outcome o for slot h; a message is about the given id
Does(h, o, id) ==
    /\ ss' = [ss EXCEPT ![h] = o.s] /\ fds' = o.f
    /\ result' = [type |-> o.m, id |-> id]
    /\ serving' = (o.m # "ABORT")
    /\ ended' = IF ss[h].type # "INVALID" /\ o.s.type = "INVALID" /\ o.s.id = id
                THEN ended \cup {id} ELSE ended

\* A request; the events of a socket that it closed are cleared next
PollCtrl ==
    /\ serving /\ checkctrl /\ closing = 0 /\ pipe # <<>> /\ Head(pipe).op # "X"
    /\ LET r == Head(pipe) IN
       \E o \in ctrl_cmd(ss[HASH_ID(r.id)], r) :
           /\ Does(HASH_ID(r.id), o, r.id)
           /\ closing' = IF o.m \in {"CLOSE", "ERROR"} THEN r.id ELSE 0
    /\ pipe' = Tail(pipe)
    /\ UNCHANGED <<batch, checkctrl, idVars, reqs>>

clear_closed_event ==
    LET stale == {i \in DOMAIN batch : ss[batch[i].h].type = "INVALID"
                                        /\ ss[batch[i].h].id = closing}
    IN
    /\ serving /\ closing # 0 /\ closing' = 0
    /\ batch' = IF stale = {} THEN batch ELSE RemoveAt(batch, Min(stale))
    /\ result' = NoMessage
    /\ UNCHANGED <<ss, fds, requestVars, idVars, checkctrl, ended, serving>>

\* SOCKET_EXIT, and socket_server_release
PollExit ==
    /\ serving /\ checkctrl /\ closing = 0 /\ pipe # <<>> /\ Head(pipe).op = "X"
    /\ ss' = [h \in Sock |-> IF ss[h].type = "RESERVE" THEN ss[h]
                             ELSE [EmptySlot EXCEPT !.id = ss[h].id]]
    /\ fds' = fds \ {ss[h].fd : h \in {k \in Sock :
                        ss[k].type \notin {"INVALID", "RESERVE", "BIND"}}}
    /\ serving' = FALSE /\ pipe' = Tail(pipe) /\ result' = [type |-> "EXIT", id |-> 0]
    /\ UNCHANGED <<batch, checkctrl, closing, ended, idVars, reqs>>

PollNoCtrl ==
    /\ serving /\ checkctrl /\ closing = 0 /\ pipe = <<>> /\ checkctrl' = FALSE
    /\ result' = NoMessage
    /\ UNCHANGED <<ss, fds, requestVars, idVars, batch, closing, ended, serving>>

\* sp_wait: some of the watched sockets, in any order, with what they are
\* ready for
Ready(h) == {[h |-> h, read |-> rd, write |-> wr] : rd \in BOOLEAN,
               wr \in IF ss[h].watch = "rw" THEN BOOLEAN ELSE {FALSE}}
sp_wait(h) ==
    /\ serving /\ ~checkctrl /\ batch = <<>> /\ ss[h].watch # "no"
    /\ \E e \in Ready(h), g \in Sock :
          \/ batch' = <<e>>
          \/ g # h /\ ss[g].watch # "no" /\ \E d \in Ready(g) : batch' = <<e, d>>
    /\ checkctrl' = TRUE /\ result' = NoMessage
    /\ UNCHANGED <<ss, fds, requestVars, idVars, closing, ended, serving>>

\* Only the pipe is ready
WaitPipe ==
    /\ serving /\ ~checkctrl /\ batch = <<>> /\ pipe # <<>> /\ checkctrl' = TRUE
    /\ result' = NoMessage
    /\ UNCHANGED <<ss, fds, requestVars, idVars, batch, closing, ended, serving>>

report_connect(s) ==
    {force_close(s, "ERROR"),
     Out([s EXCEPT !.type = "CONNECTED",
                   !.watch = IF send_buffer_empty(s) THEN "r" ELSE @], "OPEN", fds)}

\* A slot that was reserved again has no descriptor: the read fails
forward_message_tcp(s) ==
    IF s.type = "RESERVE" THEN {force_close(s, "ERROR")}
    ELSE {Out(s, "none", fds), force_close(s, "ERROR"), force_close(s, "CLOSE"),
          Out(s, IF s.type = "HALFCLOSE" THEN "none" ELSE "DATA", fds)}
forward_message_udp(s) ==
    IF s.type = "RESERVE" THEN {force_close(s, "ERROR")}
    ELSE {Out(s, "none", fds), force_close(s, "ERROR"), Out(s, "UDP", fds)}

Event == Head(batch)
AtEvent == serving /\ ~checkctrl /\ batch # <<>>

\* report_accept: a new socket for a connection, or the listening one is
\* reported in error when descriptors run out, or nothing
report_accept ==
    /\ AtEvent /\ ss[Event.h].type = "LISTEN" /\ batch' = Tail(batch)
    /\ \/ /\ FreeIds # {} /\ Min(FreeIds) <= MaxId /\ alloc_id' = Min(FreeIds)
          /\ LET id == Min(FreeIds)
                 s == [ss[HASH_ID(id)] EXCEPT !.type = "RESERVE", !.id = id, !.fd = 0]
                 new == Out(new_fd(s, id, NewFd, "tcp", "PACCEPT", "no"), "ACCEPT", fds \cup {NewFd})
             IN  \E o \in NewOrAbort(s, {}, {new}) :
                    /\ ss' = [ss EXCEPT ![HASH_ID(id)] = o.s] /\ fds' = o.f
                    /\ issued' = issued \cup {id} /\ serving' = (o.m # "ABORT")
                    /\ result' = [type |-> o.m, id |-> ss[Event.h].id]
       \/ /\ FreeIds = {} /\ alloc_id <= MaxId /\ alloc_id' = alloc_id + MAX_SOCKET
          /\ result' = NoMessage /\ UNCHANGED <<ss, fds, issued, serving>>
       \/ \E m \in {"none", "ERROR"} :
             /\ result' = [type |-> m, id |-> ss[Event.h].id]
             /\ UNCHANGED <<ss, fds, alloc_id, issued, serving>>
    /\ UNCHANGED <<requestVars, reserving, checkctrl, closing, ended>>

\* Any other event; one that is for reading and writing is handled twice, and
\* a datagram socket is read until nothing is left
PollEvent ==
    LET e == Event
        s == ss[e.h]
        outs == CASE s.type = "INVALID" -> {Out(s, "none", fds)}
                  [] s.type = "CONNECTING" -> report_connect(s)
                  [] OTHER -> IF e.read
                              THEN IF s.protocol = "tcp" THEN forward_message_tcp(s)
                                   ELSE forward_message_udp(s)
                              ELSE IF e.write THEN send_buffer(s) ELSE {Out(s, "none", fds)}
    IN
    /\ AtEvent /\ s.type # "LISTEN"
    /\ \E o \in outs :
          /\ Does(e.h, o, s.id)
          /\ batch' = IF s.type \in {"INVALID", "CONNECTING"} \/ ~e.read THEN Tail(batch)
                      ELSE IF o.m = "UDP" THEN batch
                      ELSE IF e.write /\ o.m \notin {"CLOSE", "ERROR"}
                      THEN <<[e EXCEPT !.read = FALSE]>> \o Tail(batch)
                      ELSE Tail(batch)
    /\ UNCHANGED <<requestVars, idVars, checkctrl, closing>>

-----------------------------------------------------------------------------
SocketThread == PollCtrl \/ clear_closed_event \/ PollExit \/ PollNoCtrl \/ WaitPipe
                \/ PollEvent \/ report_accept
Requests ==
    \/ \E op \in Op \cap {"O", "L", "B"} : reserve_id(op)
    \/ "U" \in Op /\ socket_server_udp
    \/ \E r \in reserving : Reserved(r)
    \/ \E id \in issued :
          \/ "S" \in Op /\ socket_server_ask("S", id, "none")
          \/ "T" \in Op /\ socket_server_nodelay(id)
          \/ "K" \in Op /\ \E v \in {"close", "shutdown"} : socket_server_ask("K", id, v)
          \/ "C" \in Op /\ socket_server_udp_connect(id)
          \/ \E op \in Op \cap {"D", "P"} : socket_server_send(op, id, "none")
          \/ "A" \in Op /\ socket_server_udp_send(id)
    \/ "X" \in Op /\ socket_server_exit
SocketNext ==
    \/ SocketThread
    \/ \E h \in Sock : sp_wait(h)
    \/ Requests
SocketSpec == SocketInit /\ [][SocketNext]_socketVars

-----------------------------------------------------------------------------
Open(h) == ss[h].type \notin {"INVALID", "RESERVE"}

\* Messages go out whole, whatever their priority and however the writes are
\* cut: what is left of a message is written before anything else
\* (raise_uncomplete, and send_socket for a socket with nothing to write).
MessagesWhole ==
    \A h \in Sock : Open(h) =>
        /\ ~ss[h].torn
        /\ ss[h].wire => list_uncomplete(ss[h].high)
        /\ ~list_uncomplete(ss[h].low)

\* wb_size, which warns of a slow peer, is what the two lists hold.
WbCounted == \A h \in Sock : Open(h) => ss[h].wb_size = Size(ss[h].high) + Size(ss[h].low)

\* A socket with something to write waits for the descriptor to be writable:
\* no data is forgotten and a half-closed socket gets to its end.
\* (Not one of socket_server_bind, which is for reading: its fd is 0 here.)
WriteArmed ==
    \A h \in Sock : Open(h) /\ ~send_buffer_empty(ss[h]) /\ ss[h].fd # 0 => ss[h].watch = "rw"

\* A descriptor the server opened is in one slot or in a request on its way,
\* and closed otherwise: whatever fails, none leaks and none is shared.
FdHolders(f) ==
    Cardinality({h \in Sock : Open(h) /\ ss[h].fd = f})
    + Cardinality({i \in DOMAIN pipe : pipe[i].fd = f})
    + Cardinality({r \in reserving : r.fd = f})
FdsOwned == \A f \in 1..MaxReq + MaxId :
               FdHolders(f) = (IF f \in fds THEN 1 ELSE 0)

\* The ids of sockets: once a socket is closed nothing but an answer to a
\* request is reported for its id, although its slot is used again.
NothingAfterEnd ==
    [][result'.id \in ended => result'.type \in {"none", "CLOSE", "ERROR", "ABORT"}]_socketVars

\* A socket that ends is reported by the same poll, under its id (a datagram
\* socket that could not be watched is not).
EndReported ==
    [][\A id \in ended' \ ended :
         \/ result' \in [type : {"CLOSE", "ERROR"}, id : {id}]
         \/ Head(pipe).op = "U"]_socketVars

\* The socket server writes what it was given, whole and counted, and reports
\* every id up to its end and not after it
SocketsServe ==
    /\ [](MessagesWhole /\ WbCounted /\ WriteArmed /\ FdsOwned)
    /\ NothingAfterEnd
    /\ EndReported
=============================================================================
