------------------------------- MODULE NetPack -------------------------------
(***************************************************************************)
(* The Lua gate: lua-netpack.c cuts the data of the sockets into packages, *)
(* and gateserver.lua keeps the connections and dispatches the packages.   *)
(* A package is its size in two bytes, big-endian, and its data; a byte    *)
(* has NetBase values.  Clients send packages in pieces of any size.       *)
(***************************************************************************)
EXTENDS Integers, FiniteSets, SequencesExt

CONSTANTS NetFd, maxclient,
          QUEUESIZE, NetBase,
          NetStream          \* the packages the client of each fd sends

ASSUME NetAssumption ==
    /\ maxclient \in Nat /\ QUEUESIZE \in Nat \ {0} /\ NetBase \in Nat \ {0}
    /\ DOMAIN NetStream = NetFd

VARIABLES netQueue,          \* struct queue: the ring of packages
          uncomplete,        \* the package of each fd that is not complete
          connection, client_number,
          netSocket,         \* each fd in the socket server
          netPos,            \* bytes of its stream that arrived
          dispatched         \* packages of each fd given to handler.message

netVars == <<netQueue, uncomplete, connection, client_number, netSocket, netPos, dispatched>>

NoUncomplete == [read |-> -2, header |-> 0, size |-> 0, buffer |-> <<>>]

\* get_queue
EmptyQueue == [cap |-> QUEUESIZE, head |-> 0, tail |-> 0,
               slots |-> [i \in 0..QUEUESIZE - 1 |-> <<>>]]

NetInit ==
    /\ netQueue = EmptyQueue
    /\ uncomplete = [fd \in NetFd |-> NoUncomplete]
    /\ connection = [fd \in NetFd |-> "nil"] /\ client_number = 0
    /\ netSocket = [fd \in NetFd |-> "none"] /\ netPos = [fd \in NetFd |-> 0]
    /\ dispatched = [fd \in NetFd |-> <<>>]

\* lpack
lpack(data) == <<Len(data) \div NetBase, Len(data) % NetBase>> \o data
NetBytes(packs) == FlattenSeq([i \in DOMAIN packs |-> lpack(packs[i])])

-----------------------------------------------------------------------------
(* lua-netpack.c, on a state st = [q, uc, ret] of one call of filter: the  *)
(* queue, the uncomplete package of the fd, and the package it returns.    *)

read_size(buffer) == buffer[1] * NetBase + buffer[2]
NetDrop(s, n) == SubSeq(s, n + 1, Len(s))

\* Mutant of net_expand: the packages are copied without turning the ring.
ExpandUnturned(q) ==
    [cap |-> q.cap + QUEUESIZE, head |-> 0, tail |-> q.cap,
     slots |-> [i \in 0..q.cap + QUEUESIZE - 1 |-> IF i < q.cap THEN q.slots[i] ELSE <<>>]]

net_expand(q) ==
    [cap |-> q.cap + QUEUESIZE, head |-> 0, tail |-> q.cap,
     slots |-> [i \in 0..q.cap + QUEUESIZE - 1 |->
                   IF i < q.cap THEN q.slots[(q.head + i) % q.cap] ELSE <<>>]]

push_data(q, fd, data) ==
    LET p == [q EXCEPT !.slots[q.tail] = <<fd, data>>,
                       !.tail = IF @ + 1 >= q.cap THEN @ + 1 - q.cap ELSE @ + 1]
    IN  IF p.head = p.tail THEN net_expand(p) ELSE p

\* save_uncomplete, of one byte of the size, or of a part of the data
SaveHeader(st, buffer) == [st EXCEPT !.uc = [NoUncomplete EXCEPT !.read = -1, !.header = buffer[1]]]
SavePart(st, buffer, size) ==
    [st EXCEPT !.uc = [read |-> Len(buffer), header |-> 0, size |-> size, buffer |-> buffer]]

RECURSIVE push_more(_, _, _)
push_more(st, fd, buffer) ==
    LET size == read_size(buffer)
        data == NetDrop(buffer, 2)
        more == [st EXCEPT !.q = push_data(@, fd, SubSeq(data, 1, size))]
    IN
    IF Len(buffer) = 1 THEN SaveHeader(st, buffer)
    ELSE IF Len(data) < size THEN SavePart(st, data, size)
    ELSE IF Len(data) = size THEN more
    ELSE push_more(more, fd, NetDrop(data, size))

\* filter_data_, with a package to fill
FillUncomplete(st, fd, bytes) ==
    LET uc == IF st.uc.read < 0
              THEN [read |-> 0, header |-> 0, size |-> st.uc.header * NetBase + bytes[1], buffer |-> <<>>]
              ELSE st.uc
        buffer == IF st.uc.read < 0 THEN Tail(bytes) ELSE bytes
        need == uc.size - uc.read
        data == uc.buffer \o SubSeq(buffer, 1, need)
        freed == [st EXCEPT !.uc = NoUncomplete]
    IN
    IF Len(buffer) < need
    THEN [st EXCEPT !.uc = [uc EXCEPT !.read = @ + Len(buffer), !.buffer = @ \o buffer]]
    ELSE IF Len(buffer) = need THEN [freed EXCEPT !.ret = <<data>>]
    ELSE push_more([freed EXCEPT !.q = push_data(@, fd, data)], fd, NetDrop(buffer, need))

\* filter_data_, with none
FilterNew(st, fd, buffer) ==
    LET size == read_size(buffer)
        data == NetDrop(buffer, 2)
    IN
    IF Len(buffer) = 1 THEN SaveHeader(st, buffer)
    ELSE IF Len(data) < size THEN SavePart(st, data, size)
    ELSE IF Len(data) = size THEN [st EXCEPT !.ret = <<data>>]
    ELSE push_more([st EXCEPT !.q = push_data(@, fd, SubSeq(data, 1, size))], fd, NetDrop(data, size))

\* The hash of packages that are not complete is a function of the fd;
\* find_uncomplete takes the package out, and filter_data saves what is left
find_uncomplete(fd) == uncomplete[fd]

filter_data(fd, bytes) ==
    LET st == [q |-> netQueue, uc |-> find_uncomplete(fd), ret |-> <<>>] IN
    IF st.uc # NoUncomplete THEN FillUncomplete(st, fd, bytes) ELSE FilterNew(st, fd, bytes)

\* lpop, until it returns nothing: dispatch_queue and the coroutines it forks
\* take all that is there before the next message, even if a handler blocks
Popped(q) == [i \in 1..((q.tail - q.head) % q.cap) |-> q.slots[(q.head + i - 1) % q.cap]]
Emptied(q) == [q EXCEPT !.head = q.tail, !.slots = [i \in DOMAIN @ |-> <<>>]]

-----------------------------------------------------------------------------
(* gateserver.lua.  A fd of the socket server is none, accepted, open,     *)
(* closing after socketdriver.close, or closed.                            *)

\* dispatch_queue and dispatch_msg, which drops what is not of a connection
dispatch_queue(packs, fd, ret) ==
    LET ofFd(f) == LET s == SelectSeq(packs, LAMBDA p : p[1] = f) IN [i \in DOMAIN s |-> s[i][2]]
        got(f) == IF f = fd THEN ofFd(f) \o ret ELSE ofFd(f)
    IN  dispatched' = [f \in NetFd |-> IF connection[f] = "true" THEN dispatched[f] \o got(f)
                                       ELSE dispatched[f]]

\* MSG.data and MSG.more
OnNetData(fd, n) ==
    LET st == filter_data(fd, SubSeq(NetBytes(NetStream[fd]), netPos[fd] + 1, netPos[fd] + n))
    IN
    /\ netSocket[fd] \in {"open", "closing"} /\ n \in 1..Len(NetBytes(NetStream[fd])) - netPos[fd]
    /\ netPos' = [netPos EXCEPT ![fd] = @ + n]
    /\ netQueue' = Emptied(st.q)
    /\ uncomplete' = [uncomplete EXCEPT ![fd] = st.uc]
    /\ dispatch_queue(Popped(st.q), fd, st.ret)
    /\ UNCHANGED <<connection, client_number, netSocket>>

\* MSG.open
OnNetOpen(fd) ==
    /\ netSocket[fd] = "none"
    /\ IF client_number >= maxclient
       THEN netSocket' = [netSocket EXCEPT ![fd] = "closing"] /\ UNCHANGED <<connection, client_number>>
       ELSE /\ netSocket' = [netSocket EXCEPT ![fd] = "accepted"]
            /\ connection' = [connection EXCEPT ![fd] = "true"]
            /\ client_number' = client_number + 1
    /\ UNCHANGED <<netQueue, uncomplete, netPos, dispatched>>

close_uncomplete(fd) == uncomplete' = [uncomplete EXCEPT ![fd] = NoUncomplete]

\* MSG.close and MSG.error: close_uncomplete, then close_fd
OnNetClose(fd) ==
    /\ netSocket[fd] \in {"accepted", "open", "closing"}
    /\ netSocket' = [netSocket EXCEPT ![fd] = "closed"]
    /\ close_uncomplete(fd)
    /\ connection' = [connection EXCEPT ![fd] = "nil"]
    /\ client_number' = IF connection[fd] # "nil" THEN client_number - 1 ELSE client_number
    /\ UNCHANGED <<netQueue, netPos, dispatched>>

openclient(fd) ==
    /\ connection[fd] = "true"
    /\ netSocket' = [netSocket EXCEPT ![fd] = IF @ = "accepted" THEN "open" ELSE @]
    /\ UNCHANGED <<netQueue, uncomplete, connection, client_number, netPos, dispatched>>

closeclient(fd) ==
    /\ connection[fd] = "true"
    /\ connection' = [connection EXCEPT ![fd] = "false"]
    /\ netSocket' = [netSocket EXCEPT ![fd] = "closing"]
    /\ UNCHANGED <<netQueue, uncomplete, client_number, netPos, dispatched>>

NetNext ==
    \E fd \in NetFd :
        \/ OnNetOpen(fd) \/ OnNetClose(fd) \/ openclient(fd) \/ closeclient(fd)
        \/ \E n \in 1..Len(NetBytes(NetStream[fd])) : OnNetData(fd, n)
NetSpec == NetInit /\ [][NetNext]_netVars

-----------------------------------------------------------------------------
NetTypeOK ==
    /\ netQueue.head \in 0..netQueue.cap - 1 /\ netQueue.tail \in 0..netQueue.cap - 1
    /\ connection \in [NetFd -> {"nil", "true", "false"}] /\ client_number \in Nat

\* The packages that are wholly in the first n bytes
NetComplete(packs, n) ==
    SubSeq(packs, 1, CHOOSE k \in 0..Len(packs) :
        /\ Len(NetBytes(SubSeq(packs, 1, k))) <= n
        /\ k < Len(packs) => Len(NetBytes(SubSeq(packs, 1, k + 1))) > n)

\* However the bytes of a client are cut, and mixed with those of others,
\* gateserver dispatches each package, once, whole, in order, with the bytes
\* that complete it; the queue loses none when it wraps or grows.
PackagesDispatched ==
    \A fd \in NetFd : connection[fd] = "true" =>
        dispatched[fd] = NetComplete(NetStream[fd], netPos[fd])

\* client_number counts the connections that were not reported closed, those
\* that closeclient closes included: the limit is of open sockets.
ClientsCounted ==
    /\ client_number = Cardinality({fd \in NetFd : connection[fd] # "nil"})
    /\ client_number <= maxclient
    /\ \A fd \in NetFd : (connection[fd] # "nil") <=>
          \/ netSocket[fd] \in {"accepted", "open"}
          \/ netSocket[fd] = "closing" /\ connection[fd] = "false"

\* Nothing is kept of a closed socket, whose fd may be used again.
NothingKept == \A fd \in NetFd : netSocket[fd] = "closed" => uncomplete[fd] = NoUncomplete

\* The Lua gate dispatches the packages of its clients and forgets the others
PackagesServed == NetTypeOK /\ PackagesDispatched /\ ClientsCounted /\ NothingKept
=============================================================================
