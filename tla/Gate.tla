-------------------------------- MODULE Gate --------------------------------
(***************************************************************************)
(* The gate service (service_gate.c) with its table of connections         *)
(* (hashid.h) and its buffers (databuffer.h): it cuts the bytes that a     *)
(* client sends into messages and forwards them.  A byte has GateBase      *)
(* values here, and 16M is GateMax.  The environment is the socket server, *)
(* as the gate sees it, and clients that send the messages of Streams in   *)
(* pieces of any size.                                                     *)
(***************************************************************************)
EXTENDS Integers, FiniteSetsExt, SequencesExt

CONSTANTS GateId,          \* socket ids that are accepted, positive
          max_connection,
          hashcap,         \* 16 or more, a power of 2, in hashid_init
          GateBase, header_size, GateMax,
          Streams,         \* what the client of each id may send: sequences of payloads
          watchdog         \* whether the gate has one

ASSUME GateAssumption ==
    /\ GateId \subseteq Nat \ {0} /\ max_connection \in Nat \ {0} /\ hashcap \in Nat \ {0}
    /\ GateBase \in Nat \ {0} /\ header_size \in Nat \ {0} /\ watchdog \in BOOLEAN

VARIABLES node, chain,     \* hashid: the ids by index, and the indexes by hash
          conn,            \* the agent and the buffer of each index
          listening,       \* g->listen_id is still the id
          broker,
          client,          \* of each id: its state in the socket server
          stream, pos,     \* what the client sends, and how much of it arrived
          out,             \* the messages of each id that were forwarded
          reported,        \* opens and closes that the watchdog heard of
          gateDied

gateVars == <<node, chain, conn, listening, broker, client, stream, pos, out, reported, gateDied>>

NoBuffer == [header |-> 0, offset |-> 0, size |-> 0, list |-> <<>>]
NoConn == [agent |-> FALSE, buffer |-> NoBuffer]

\* The bytes of a stream: a header, big-endian, before each payload
Digit(n, i) == (n \div GateBase ^ (header_size - i)) % GateBase
Framed(payload) == [i \in 1..header_size |-> Digit(Len(payload), i)] \o payload
Bytes(payloads) == FlattenSeq([i \in DOMAIN payloads |-> Framed(payloads[i])])

\* gate_init
GateInit ==
    /\ node = [i \in 0..max_connection - 1 |-> -1]
    /\ chain = [h \in 0..hashcap - 1 |-> <<>>]
    /\ conn = [i \in 0..max_connection - 1 |-> NoConn]
    /\ listening = TRUE /\ broker = FALSE
    /\ client = [id \in GateId |-> "none"]
    /\ stream \in {f \in [GateId -> UNION Range(Streams)] : \A id \in GateId : f[id] \in Streams[id]}
    /\ pos = [id \in GateId |-> 0]
    /\ out = [id \in GateId |-> <<>>] /\ reported = [id \in GateId |-> <<>>]
    /\ gateDied = FALSE

-----------------------------------------------------------------------------
(* hashid.h                                                                *)

Bucket(id) == id % hashcap
hashid_lookup(id) ==
    LET found == {i \in Range(chain[Bucket(id)]) : node[i] = id}
    IN  IF found = {} THEN -1 ELSE Min(found)
hashid_full == \A i \in DOMAIN node : node[i] # -1

\* The first free index from id on; it becomes the head of its list
InsertIndex(id) ==
    LET i == Min({k \in 0..max_connection - 1 : node[(k + id) % max_connection] = -1})
    IN  (i + id) % max_connection
hashid_insert(id) ==
    /\ node' = [node EXCEPT ![InsertIndex(id)] = id]
    /\ chain' = [chain EXCEPT ![Bucket(id)] = <<InsertIndex(id)>> \o @]

hashid_remove(id) ==
    LET i == hashid_lookup(id) IN
    /\ node' = [node EXCEPT ![i] = -1]
    /\ chain' = [chain EXCEPT ![Bucket(id)] = SelectSeq(@, LAMBDA k : k # i)]

-----------------------------------------------------------------------------
(* databuffer.h: a list of the pieces that arrived; offset bytes of the    *)
(* first one are read.                                                     *)

databuffer_push(db, data) == [db EXCEPT !.size = @ + Len(data), !.list = Append(@, data)]

RECURSIVE ReadPieces(_, _)
ReadPieces(db, sz) ==
    LET current == Head(db.list)
        bsz == Len(current) - db.offset
        rest == [db EXCEPT !.list = Tail(@), !.offset = 0]
    IN
    IF bsz > sz
    THEN [db |-> [db EXCEPT !.offset = @ + sz],
          data |-> SubSeq(current, db.offset + 1, db.offset + sz)]
    ELSE IF bsz = sz
    THEN [db |-> rest, data |-> SubSeq(current, db.offset + 1, Len(current))]
    ELSE LET r == ReadPieces(rest, sz - bsz)
         IN  [r EXCEPT !.data = SubSeq(current, db.offset + 1, Len(current)) \o @]
databuffer_read(db, sz) ==
    LET r == ReadPieces(db, sz) IN [r EXCEPT !.db.size = @ - sz]

Value(bytes) == FoldLeft(LAMBDA v, b : v * GateBase + b, 0, bytes)

\* Mutant of databuffer_readheader: a message is complete one byte later.
ReadHeaderLate(db) ==
    LET r == databuffer_read(db, header_size)
        h == IF db.header = 0 THEN [r.db EXCEPT !.header = Value(r.data)] ELSE db
    IN
    IF db.header = 0 /\ db.size < header_size THEN [db |-> db, ret |-> -1]
    ELSE [db |-> h, ret |-> IF h.size <= h.header THEN -1 ELSE h.header]

\* The buffer after databuffer_readheader, and what it returns
databuffer_readheader(db) ==
    LET r == databuffer_read(db, header_size)
        h == IF db.header = 0 THEN [r.db EXCEPT !.header = Value(r.data)] ELSE db
    IN
    IF db.header = 0 /\ db.size < header_size THEN [db |-> db, ret |-> -1]
    ELSE [db |-> h, ret |-> IF h.size < h.header THEN -1 ELSE h.header]

-----------------------------------------------------------------------------
(* Messages for the gate.                                                  *)

\* _forward reads a message for the broker, the agent or the watchdog, and
\* leaves it where it is if there is none of them
_forward(st, size) ==
    LET to == IF broker THEN "broker" ELSE IF st.agent THEN "agent" ELSE "watchdog"
        r == databuffer_read(st.db, size)
    IN
    IF to = "watchdog" /\ ~watchdog THEN st
    ELSE [st EXCEPT !.db = r.db, !.out = Append(@, r.data)]

\* The loop of dispatch_message
RECURSIVE Dispatch(_)
Dispatch(st) ==
    LET h == databuffer_readheader(st.db)
        next == [st EXCEPT !.db = h.db]
    IN
    IF h.ret < 0 THEN next
    ELSE IF h.ret = 0 THEN Dispatch(next)
    ELSE IF h.ret >= GateMax THEN [next EXCEPT !.db = NoBuffer, !.close = TRUE]
    ELSE Dispatch([_forward(next, h.ret) EXCEPT !.db.header = 0])

dispatch_message(i, data) ==
    Dispatch([db |-> databuffer_push(conn[i].buffer, data), agent |-> conn[i].agent,
              out |-> <<>>, close |-> FALSE])

\* skynet_socket_close: the server answers later
Closing(id) == client' = [client EXCEPT ![id] = IF @ \in {"accepted", "open"} THEN "closing" ELSE @]
Rest == <<listening, broker, stream, reported, gateDied>>

OnData(id, n) ==
    LET data == SubSeq(Bytes(stream[id]), pos[id] + 1, pos[id] + n)
        i == hashid_lookup(id)
        d == dispatch_message(i, data)
    IN
    /\ client[id] \in {"open", "closing"} /\ n \in 1..Len(Bytes(stream[id])) - pos[id]
    /\ pos' = [pos EXCEPT ![id] = @ + n]
    /\ IF i >= 0
       THEN /\ conn' = [conn EXCEPT ![i].buffer = d.db]
            /\ out' = [out EXCEPT ![id] = @ \o d.out]
            /\ IF d.close THEN Closing(id) ELSE UNCHANGED client
       ELSE Closing(id) /\ UNCHANGED <<conn, out>>
    /\ UNCHANGED <<node, chain, Rest>>

\* CONNECT follows the start of the socket; the gate does nothing for an id it knows
OnConnect(id) ==
    /\ client[id] = "starting"
    /\ client' = [client EXCEPT ![id] = IF hashid_lookup(id) < 0 THEN "closing" ELSE "open"]
    /\ UNCHANGED <<node, chain, conn, pos, out, Rest>>

\* CLOSE and ERROR
OnClose(id) ==
    LET i == hashid_lookup(id) IN
    /\ client[id] \in {"accepted", "starting", "open", "closing"}
    /\ client' = [client EXCEPT ![id] = "closed"]
    /\ IF i >= 0
       THEN /\ hashid_remove(id) /\ conn' = [conn EXCEPT ![i] = NoConn]
            /\ reported' = [reported EXCEPT ![id] = Append(@, "close")]
       ELSE UNCHANGED <<node, chain, conn, reported>>
    /\ UNCHANGED <<pos, out, listening, broker, stream, gateDied>>

\* ACCEPT, which may be on its way when "close" gives up the listen id
OnAccept(id) ==
    /\ client[id] = "none"
    /\ \/ /\ ~listening /\ gateDied' = TRUE /\ UNCHANGED <<node, chain, client, reported>>
       \/ /\ listening /\ hashid_full
          /\ client' = [client EXCEPT ![id] = "closing"]
          /\ UNCHANGED <<node, chain, reported, gateDied>>
       \/ /\ listening /\ ~hashid_full /\ hashid_insert(id)
          /\ client' = [client EXCEPT ![id] = "accepted"]
          /\ reported' = [reported EXCEPT ![id] = Append(@, "open")]
          /\ UNCHANGED gateDied
    /\ UNCHANGED <<conn, pos, out, listening, broker, stream>>

\* _ctrl
kick(id) ==
    /\ hashid_lookup(id) >= 0 /\ Closing(id)
    /\ UNCHANGED <<node, chain, conn, pos, out, Rest>>
forward(id) ==
    LET i == hashid_lookup(id) IN
    /\ i >= 0 /\ conn' = [conn EXCEPT ![i].agent = TRUE]
    /\ UNCHANGED <<node, chain, client, pos, out, Rest>>
start(id) ==
    /\ hashid_lookup(id) >= 0
    /\ client' = [client EXCEPT ![id] = IF @ = "accepted" THEN "starting" ELSE @]
    /\ UNCHANGED <<node, chain, conn, pos, out, Rest>>
set_broker ==
    /\ ~broker /\ broker' = TRUE
    /\ UNCHANGED <<node, chain, conn, client, pos, out, listening, stream, reported, gateDied>>
close ==
    /\ listening /\ listening' = FALSE
    /\ UNCHANGED <<node, chain, conn, client, pos, out, broker, stream, reported, gateDied>>

GateNext ==
    /\ ~gateDied
    /\ \/ \E id \in GateId :
             \/ OnAccept(id) \/ OnConnect(id) \/ OnClose(id)
             \/ kick(id) \/ forward(id) \/ start(id)
             \/ \E n \in 1..Len(Bytes(stream[id])) : OnData(id, n)
       \/ set_broker \/ close
GateSpec == GateInit /\ [][GateNext]_gateVars

-----------------------------------------------------------------------------
GateTypeOK ==
    /\ \A i \in DOMAIN node : node[i] \in GateId \cup {-1}
    /\ \A id \in GateId : client[id] \in {"none", "accepted", "starting", "open", "closing", "closed"}

\* The payloads that are wholly in the first n bytes of a stream
Complete(payloads, n) ==
    LET k == Max({j \in 0..Len(payloads) : Len(Bytes(SubSeq(payloads, 1, j))) <= n})
    IN  SelectSeq(SubSeq(payloads, 1, k), LAMBDA p : p # <<>>)

\* However the bytes are cut, dispatch_message forwards each message as soon
\* as it is complete, whole and in order (empty messages are skipped), until
\* it closes the socket for a message that is too long.
TooLong(id) == \E i \in DOMAIN stream[id] : Len(stream[id][i]) >= GateMax
FramesForwarded ==
    \A id \in GateId : hashid_lookup(id) >= 0 =>
        \/ out[id] = Complete(stream[id], pos[id])
        \/ TooLong(id) /\ client[id] = "closing"

\* databuffer: size is what is left to read in the pieces, and no piece that
\* was read stays at the head of the list.
BufferSized ==
    \A i \in DOMAIN conn :
        LET db == conn[i].buffer IN
        /\ db.size = Len(FlattenSeq(db.list)) - db.offset
        /\ db.list # <<>> => db.offset < Len(Head(db.list))

\* The table has a connection for each socket that was accepted and not
\* reported closed, at one index, found through its list, and no other.
ConnectionsFound ==
    \A id \in GateId :
        LET at == {i \in DOMAIN node : node[i] = id}
            open == reported[id] = <<"open">>
        IN  /\ at = (IF open THEN {hashid_lookup(id)} ELSE {})
            /\ client[id] \in {"accepted", "starting", "open"} => open
            /\ open => \A i \in at : 1 = Cardinality({k \in DOMAIN chain[Bucket(id)] :
                                                         chain[Bucket(id)][k] = i})

\* The C gate forwards the packages of each connection that it knows
GateServes == GateTypeOK /\ FramesForwarded /\ BufferSized /\ ConnectionsFound
=============================================================================
