---------------------------- MODULE SocketBuffer ----------------------------
(***************************************************************************)
(* A socket of a Lua service: the buffer and the pool of nodes of          *)
(* lua-socket.c, and the coroutines of lualib/socket.lua that read the     *)
(* socket and close it.  Coroutines that are woken run before the service  *)
(* takes its next message.                                                 *)
(***************************************************************************)
EXTENDS Integers, FiniteSetsExt, SequencesExt

CONSTANTS Piece,        \* what one message of the socket may hold: sequences of bytes
          Sep,          \* the separator of lines
          MaxBytes,     \* bytes that arrive
          PoolBase,     \* 8 in lpushbuffer
          LARGE_PAGE_NODE,
          ReadSize, buffer_limit

ASSUME SockAssumption ==
    /\ Sep # <<>> /\ MaxBytes \in Nat /\ PoolBase \in Nat \ {0} /\ LARGE_PAGE_NODE \in Nat
    /\ ReadSize \subseteq Nat \ {0} /\ buffer_limit \in Nat

VARIABLES sb,           \* struct socket_buffer: size, offset, and its nodes
          msg,          \* what each node holds
          free,         \* the list of free nodes
          pools,        \* the table of pools: its length
          connected, read_required, co, closing,   \* fields of s
          inPool,       \* socket_pool[id] = s
          reader, closer, \* the two coroutines
          ended,        \* the socket server reported the end
          flow, count,  \* bytes that arrived and were not read; how many arrived
          got, want,    \* what a read returned, and what it should return
          again         \* the reader waits in a read that began while a close waited

sockVars == <<sb, msg, free, pools, connected, read_required, co, closing, inPool,
              reader, closer, ended, flow, count, got, want, again>>
bufVars == <<sb, msg, free, pools>>

NoRead == <<"none">>

SockInit ==
    /\ sb = [size |-> 0, offset |-> 0, list |-> <<>>]      \* lnewbuffer
    /\ msg = <<>> /\ free = <<>> /\ pools = 0
    /\ connected = TRUE /\ read_required = NoRead /\ co = "none" /\ closing = FALSE /\ inPool = TRUE
    /\ reader = NoRead /\ closer = "idle" /\ ended = FALSE
    /\ flow = <<>> /\ count = 0 /\ got = <<>> /\ want = <<>> /\ again = FALSE

-----------------------------------------------------------------------------
(* lua-socket.c                                                            *)

\* lpushbuffer takes a node from the list, or from a new pool (lnewpool)
PoolSize == LET tsz == IF pools = 0 THEN 1 ELSE pools
            IN  PoolBase * 2 ^ (IF tsz <= LARGE_PAGE_NODE - 3 THEN tsz ELSE LARGE_PAGE_NODE - 3)
Nodes(n) == [i \in 1..n |-> Len(msg) + i]
lpushbuffer(data) ==
    LET list == IF free # <<>> THEN free ELSE Nodes(PoolSize)
        held == IF free # <<>> THEN msg ELSE msg \o [i \in 1..PoolSize |-> <<>>]
    IN
    [sb |-> [sb EXCEPT !.size = @ + Len(data), !.list = Append(@, Head(list))],
     msg |-> [held EXCEPT ![Head(list)] = data], free |-> Tail(list), str |-> <<>>]
\* the table has the list of free nodes in its first place
Grow == pools' = IF free # <<>> THEN pools ELSE (IF pools = 0 THEN 1 ELSE pools) + 1

\* The buffer, the nodes and the list of free nodes as one value
Buf == [sb |-> sb, msg |-> msg, free |-> free, str |-> <<>>]
SetBuf(b) == sb' = b.sb /\ msg' = b.msg /\ free' = b.free

Offset(k) == IF k = 1 THEN sb.offset ELSE 0
Bytes(k) == Len(msg[sb.list[k]]) - Offset(k)
\* Bytes of the first k nodes
Before[k \in 0..Len(sb.list)] == IF k = 0 THEN 0 ELSE Before[k - 1] + Bytes(k)

\* pop_lstring takes sz bytes, and leaves the last skip out of the string.
\* Its loop takes a part of each node, and return_free_node returns the
\* nodes it takes wholly.
NodePart(k, sz, skip) ==
    LET real == sz - Before[k - 1] - skip
        n == IF real < Bytes(k) THEN real ELSE Bytes(k)
    IN  SubSeq(msg[sb.list[k]], Offset(k) + 1, Offset(k) + n)
\* Mutant of NewOffset: the bytes of the first node that were read are forgotten.
OffsetReset(wholly, sz) == sz - Before[wholly]

NewOffset(wholly, sz) == IF wholly = 0 THEN sb.offset + sz ELSE sz - Before[wholly]
pop_lstring(sz, skip) ==
    LET wholly == Max({k \in DOMAIN Before : Before[k] <= sz})
        last == IF Before[wholly] = sz THEN wholly ELSE wholly + 1
    IN
    [sb |-> [size |-> sb.size - sz, list |-> SubSeq(sb.list, wholly + 1, Len(sb.list)),
             offset |-> NewOffset(wholly, sz)],
     msg |-> [i \in DOMAIN msg |-> IF i \in Range(SubSeq(sb.list, 1, wholly)) THEN <<>> ELSE msg[i]],
     free |-> Reverse(SubSeq(sb.list, 1, wholly)) \o free,
     str |-> FlattenSeq([k \in 1..last |-> NodePart(k, sz, skip)])]

\* The loops of lreadall and lclearbuffer return all the nodes
HeldBytes(b) == LET all == FlattenSeq([i \in DOMAIN b.sb.list |-> b.msg[b.sb.list[i]]])
           IN  SubSeq(all, b.sb.offset + 1, Len(all))

lclearbuffer(b) ==
    [sb |-> [size |-> 0, offset |-> 0, list |-> <<>>],
     msg |-> [i \in DOMAIN b.msg |-> IF i \in Range(b.sb.list) THEN <<>> ELSE b.msg[i]],
     free |-> Reverse(b.sb.list) \o b.free, str |-> <<>>]
lreadall == [lclearbuffer(Buf) EXCEPT !.str = HeldBytes(Buf)]

\* check_sep, from a byte of a node on, over the nodes that follow
RECURSIVE check_sep(_, _, _)
check_sep(k, from, sep) ==
    LET node == msg[sb.list[k]]
        sz == Len(node) - from
    IN
    IF sz >= Len(sep) THEN SubSeq(node, from + 1, from + Len(sep)) = sep
    ELSE /\ SubSeq(node, from + 1, Len(node)) = SubSeq(sep, 1, sz)
         /\ check_sep(k + 1, 0, SubSeq(sep, sz + 1, Len(sep)))

\* The loop of lreadline: the number of bytes before the separator, or -1
RECURSIVE Scan(_, _, _)
Scan(i, k, from) ==
    IF i > sb.size - Len(Sep) THEN -1
    ELSE IF check_sep(k, from, Sep) THEN i
    ELSE IF from + 1 < Len(msg[sb.list[k]]) THEN Scan(i + 1, k, from + 1)
    ELSE IF k = Len(sb.list) THEN -1
    ELSE Scan(i + 1, k + 1, 0)
LineEnd == IF sb.list = <<>> THEN -1 ELSE Scan(0, 1, sb.offset)

-----------------------------------------------------------------------------
(* The reads: an operation is <<"read", sz>>, <<"some">>, <<"line">> or    *)
(* <<"all">>.  ReadNow is what the driver returns for it, if anything.     *)

ReadNow(op) ==
    CASE op[1] = "read" -> IF sb.size >= op[2] THEN <<pop_lstring(op[2], 0)>> ELSE <<>>
      [] op[1] = "line" -> IF LineEnd >= 0 THEN <<pop_lstring(LineEnd + Len(Sep), Len(Sep))>> ELSE <<>>
      [] op[1] = "some" -> IF lreadall.str # <<>> THEN <<lreadall>> ELSE <<>>
      [] op[1] = "all" -> IF ~connected THEN <<lreadall>> ELSE <<>>

\* The same, of the bytes that arrived
SepAt == {i \in 0..Len(flow) - Len(Sep) : SubSeq(flow, i + 1, i + Len(Sep)) = Sep}
RefTaken(op) ==
    CASE op[1] = "read" -> IF Len(flow) >= op[2] THEN op[2] ELSE -1
      [] op[1] = "line" -> IF SepAt # {} THEN Min(SepAt) + Len(Sep) ELSE -1
      [] OTHER -> Len(flow)
RefString(op, n) == SubSeq(flow, 1, IF op[1] = "line" THEN n - Len(Sep) ELSE n)

\* A read that returns: its string, and the rest of the buffer
Finish(op, b) ==
    LET n == RefTaken(op) IN
    /\ SetBuf(b) /\ got' = b.str
    /\ want' = IF n < 0 THEN flow ELSE RefString(op, n)
    /\ flow' = SubSeq(flow, (IF n < 0 THEN Len(flow) ELSE n) + 1, Len(flow))
    /\ reader' = NoRead

RequiredOf(op) == IF op[1] = "some" THEN <<"read", 0>> ELSE op

\* socket.read, socket.readline, socket.readall: what they cannot return now
\* they wait for, unless a coroutine waits already (the two assertions)
socket_read(op) ==
    /\ reader = NoRead /\ inPool
    /\ IF ReadNow(op) # <<>> \/ ~connected
       THEN /\ Finish(op, IF ReadNow(op) # <<>> THEN ReadNow(op)[1] ELSE lreadall)
            /\ UNCHANGED <<read_required, co, again>>
       ELSE /\ read_required = NoRead
            /\ read_required' = RequiredOf(op)
            /\ IF co = "none" THEN co' = "reader" /\ reader' = op /\ again' = (closer # "idle")
               ELSE UNCHANGED <<co, reader, again>>
            /\ UNCHANGED <<sb, msg, free, flow, got, want>>
    /\ UNCHANGED <<pools, connected, closing, inPool, closer, ended, count>>

\* The reader after suspend: it wakes a coroutine that waits to close
ReaderResumes ==
    /\ reader # NoRead /\ co # "reader"
    /\ LET now == IF reader[1] = "line" /\ ~connected THEN <<>> ELSE ReadNow(reader)
       IN  Finish(reader, IF now # <<>> THEN now[1] ELSE lreadall)
    /\ closer' = IF closing /\ closer = "waiting" THEN "woken" ELSE closer
    /\ UNCHANGED <<pools, connected, read_required, co, closing, inPool, ended, count, again>>

\* socket.close; nobody runs between the wakeup of a reader and the reader
socket_close ==
    /\ closer = "idle" /\ inPool /\ (co = "reader" \/ reader = NoRead)
    /\ IF ~connected THEN closer' = "woken" /\ UNCHANGED <<co, closing>>
       ELSE /\ closer' = "waiting"
            /\ IF co = "reader" THEN closing' = TRUE /\ UNCHANGED co
               ELSE co' = "closer" /\ UNCHANGED closing
    /\ UNCHANGED <<bufVars, connected, read_required, inPool, reader, ended, flow, count, got, want, again>>
CloserResumes ==
    /\ closer = "woken"
    /\ closer' = "done" /\ connected' = FALSE /\ inPool' = FALSE
    /\ SetBuf(lclearbuffer(Buf)) /\ flow' = <<>>
    /\ UNCHANGED <<pools, read_required, co, closing, reader, ended, count, got, want, again>>

-----------------------------------------------------------------------------
(* Messages of the socket server, when no coroutine is woken               *)

Settled == closer # "woken" /\ (reader = NoRead \/ co = "reader")
wakeup == co' = "none" /\ closer' = IF co = "closer" THEN "woken" ELSE closer

\* socket_message[1]
SocketData(data) ==
    LET sz == sb.size + Len(data)
        rr == read_required
    IN
    /\ Settled /\ ~ended /\ count + Len(data) <= MaxBytes /\ count' = count + Len(data)
    /\ IF ~inPool THEN UNCHANGED <<bufVars, flow, read_required, co, closer>>
       ELSE IF rr[1] # "read" /\ sz > buffer_limit
       THEN /\ Grow /\ SetBuf(lclearbuffer(lpushbuffer(data))) /\ flow' = <<>>
            /\ UNCHANGED <<read_required, co, closer>>
       ELSE /\ Grow /\ SetBuf(lpushbuffer(data)) /\ flow' = flow \o data
            /\ IF \/ rr[1] = "read" /\ sz >= rr[2]
                  \/ rr[1] = "line" /\ LineEnd' >= 0
               THEN read_required' = NoRead /\ wakeup
               ELSE UNCHANGED <<read_required, co, closer>>
    /\ UNCHANGED <<connected, closing, inPool, reader, ended, got, want, again>>

\* socket_message[3] and [5]
SocketEnd ==
    /\ Settled /\ ~ended /\ ended' = TRUE
    /\ IF inPool THEN connected' = FALSE /\ wakeup ELSE UNCHANGED <<connected, co, closer>>
    /\ UNCHANGED <<bufVars, read_required, closing, inPool, reader, flow, count, got, want, again>>

SockOps == {<<"read", n>> : n \in ReadSize} \cup {<<"some">>, <<"line">>, <<"all">>}
SockNext ==
    \/ \E op \in SockOps : socket_read(op)
    \/ \E data \in Piece : SocketData(data)
    \/ ReaderResumes \/ socket_close \/ CloserResumes \/ SocketEnd
SockSpec == SockInit /\ [][SockNext]_sockVars

-----------------------------------------------------------------------------
\* What a read returns is the beginning of the bytes that arrived and were
\* not read, up to the size or the first separator, whatever the nodes that
\* hold them; lreadline finds a separator that two nodes share.
ReadsTheStream == got = want

\* The buffer holds exactly the bytes that were not read, and size counts them.
BufferIsFlow ==
    HeldBytes(Buf) = flow /\ sb.size = Len(flow)

\* Each node is in the buffer or in the list of free ones, once, and a free
\* node holds nothing.
NodesKept ==
    LET all == sb.list \o free IN
    /\ Range(all) = DOMAIN msg /\ Len(all) = Len(msg)
    /\ \A i \in Range(free) : msg[i] = <<>>

\* socket.close clears the buffer only when no coroutine is in a read, unless
\* the reader, which wakes the close, reads again before the close goes on.
CloseAfterRead == closer = "done" => reader = NoRead \/ again

\* No other wakeup is lost: when the end of the socket was reported and the woken
\* coroutines ran, none is left in suspend, be it in a read or in a close.  (The
\* read of CloseAfterRead is: the close has taken the socket out of the pool.)
NoneLeftWaiting == ended /\ Settled => (reader = NoRead \/ again) /\ closer # "waiting"

\* The reads of socket.lua return the stream of the socket, keep every block,
\* and leave no coroutine asleep but one that reads while a close waits for it
SocketReads == ReadsTheStream /\ BufferIsFlow /\ NodesKept /\ CloseAfterRead /\ NoneLeftWaiting
=============================================================================
