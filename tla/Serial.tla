------------------------------ MODULE Serial ------------------------------
(***************************************************************************)
(* What services write to bytes and read back: the values of a Lua message *)
(* (lua-seri.c), the requests and responses between nodes (lua-cluster.c,  *)
(* with the parts of clusterd.lua and socketchannel.lua that put them on a *)
(* connection and together again), the documents and the messages of       *)
(* MongoDB (lua-bson.c, lua-mongo.c) and the texts of lua-crypt.c.  Bytes, *)
(* words, dwords and 64-bit integers are those of Sproto.                  *)
(*                                                                         *)
(* A Lua value is a tuple: <<"nil">>, <<"bool", b>>, <<"int", i>>,         *)
(* <<"real", r>>, <<"ptr", p>>, <<"str", bytes>>, <<"meta", pairs>> for a  *)
(* table with a __pairs of its own, or <<"table", pairs, n>> for another,  *)
(* where pairs come in the order of lua_next and n is the length of its    *)
(* array.  What is read back is compared as a set of pairs.                *)
(***************************************************************************)
EXTENDS Sproto

CONSTANTS
    MAX_COOKIE, BLOCK_SIZE, SERI_DEPTH,     \* of lua-seri.c
    Messages,                               \* sequences of values that are packed
    MULTI_PART,                             \* a larger message goes in parts
    Calls,                                  \* [addr, msg, ok, answer] of each call of a node
    Documents,                              \* pairs <<key, value>> that make a document
    BSON_DEPTH,
    Replacement,                            \* values a field is replaced by
    DES_BLOCK, TextBytes, TextLength,       \* texts that are encrypted or encoded
    U,                                      \* 2^2: a character holds U^3, a byte U^4
    DH_P, DH_G, DH_MOD                      \* the prime, the generator, the width of its integers

VARIABLES
    seri,       \* [stage, in, out] of a message of values
    clu,        \* the node that calls, the connection and the node called
    doc,        \* [stage, in, bytes, out] of a document
    crypt       \* [stage, in, out] of a text or of a key exchange

-----------------------------------------------------------------------------
\* lua-seri.c

TYPE_NIL == 0
TYPE_BOOLEAN == 1
TYPE_NUMBER == 2
TYPE_USERDATA == 3
TYPE_SHORT_STRING == 4
TYPE_LONG_STRING == 5
TYPE_TABLE == 6
ZERO == 0
BYTE == 1
WORD == 2
DWORD == 4
QWORD == 6
REAL == 8
COMBINE_TYPE(t, v) == <<t + v * 8>>

\* The blocks written so far, the first one on the stack
wb_init == [blocks |-> <<<<>>>>, err |-> FALSE]
NewBlock(wb) == IF Len(Last(wb.blocks)) = BLOCK_SIZE THEN [wb EXCEPT !.blocks = Append(@, <<>>)] ELSE wb
Fill(wb, buf) == [wb EXCEPT !.blocks[Len(wb.blocks)] = @ \o buf]
RECURSIVE Push(_, _)
wb_push(wb, buf) == Push(NewBlock(wb), buf)
Push(wb, buf) ==
    LET copy == BLOCK_SIZE - Len(Last(wb.blocks)) IN
    IF Len(buf) <= copy THEN Fill(wb, buf)
    ELSE Push([Fill(wb, SubSeq(buf, 1, copy)) EXCEPT !.blocks = Append(@, <<>>)], SubSeq(buf, copy + 1, Len(buf)))

wb_nil(wb) == wb_push(wb, COMBINE_TYPE(TYPE_NIL, 0))
Number(wb, cookie, payload) == wb_push(wb_push(wb, COMBINE_TYPE(TYPE_NUMBER, cookie)), payload)
wb_integer(wb, v) ==
    CASE v = 0 -> wb_push(wb, COMBINE_TYPE(TYPE_NUMBER, ZERO))
      [] v # 0 /\ ~Is32(v) -> Number(wb, QWORD, Digits(v, 8))
      [] v < 0 /\ Is32(v) -> Number(wb, DWORD, Digits(v, 4))
      [] v \in 1..B - 1 -> Number(wb, BYTE, Digits(v, 1))
      [] v \in B..B^2 - 1 -> Number(wb, WORD, Digits(v, 2))
      [] v >= B^2 /\ Is32(v) -> Number(wb, DWORD, Digits(v, 4))
wb_string(wb, str) ==
    IF Len(str) < MAX_COOKIE
    THEN LET w == wb_push(wb, COMBINE_TYPE(TYPE_SHORT_STRING, Len(str))) IN
         IF str = <<>> THEN w ELSE wb_push(w, str)
    ELSE LET n == IF Len(str) < B^2 THEN 2 ELSE 4 IN
         wb_push(wb_push(wb_push(wb, COMBINE_TYPE(TYPE_LONG_STRING, n)), Digits(Len(str), n)), str)

ArrayOf(t) == [i \in 1..t[3] |-> IF \E k \in DOMAIN t[2] : t[2][k][1] = <<"int", i>>
                                 THEN t[2][CHOOSE k \in DOMAIN t[2] : t[2][k][1] = <<"int", i>>][2] ELSE LuaNil]
HashOf(t) == SelectSeq(t[2], LAMBDA p : ~(p[1][1] = "int" /\ p[1][2] \in 1..t[3]))
RECURSIVE pack_one(_, _, _)
\* What one value after the other writes, unless an error ended the call
PackAll(wb, vs, depth) == FoldLeft(LAMBDA w, v : IF w.err THEN w ELSE pack_one(w, v, depth), wb, vs)
Closed(wb) == IF wb.err THEN wb ELSE wb_nil(wb)
ArrayHead(wb, n) ==
    IF n >= MAX_COOKIE - 1 THEN wb_integer(wb_push(wb, COMBINE_TYPE(TYPE_TABLE, MAX_COOKIE - 1)), n)
    ELSE wb_push(wb, COMBINE_TYPE(TYPE_TABLE, n))
wb_table_array(wb, t, depth) == PackAll(ArrayHead(wb, t[3]), ArrayOf(t), depth)
wb_table_hash(wb, pairs, depth) == Closed(PackAll(wb, FlattenSeq(pairs), depth))
wb_table(wb, t, depth) ==
    IF t[1] = "meta" THEN wb_table_hash(wb_push(wb, COMBINE_TYPE(TYPE_TABLE, 0)), t[2], depth)
    ELSE wb_table_hash(wb_table_array(wb, t, depth), HashOf(t), depth)
pack_one(wb, v, depth) ==
    IF depth > SERI_DEPTH THEN [wb EXCEPT !.err = TRUE]
    ELSE CASE v[1] = "nil" -> wb_nil(wb)
           [] v[1] = "int" -> wb_integer(wb, v[2])
           [] v[1] = "real" -> Number(wb, REAL, Digits(v[2], 8))
           [] v[1] = "bool" -> wb_push(wb, COMBINE_TYPE(TYPE_BOOLEAN, IF v[2] THEN 1 ELSE 0))
           [] v[1] = "str" -> wb_string(wb, v[2])
           [] v[1] = "ptr" -> wb_push(wb_push(wb, COMBINE_TYPE(TYPE_USERDATA, 0)), Digits(v[2], 8))
           [] OTHER -> wb_table(wb, v, depth + 1)
luaseri_pack(vs) == PackAll(wb_init, vs, 0)
\* The blocks one after the other, in a buffer of the length that was counted
seri_concat(wb) == FlattenSeq(wb.blocks)

\* A value read at i of the stream, [v, at], where at is 0 for an invalid stream
Got(v, at) == [v |-> v, at |-> at]
Invalid == Got(LuaNil, 0)
Read(s, i, n, v(_)) == IF Len(s) - i + 1 < n THEN Invalid ELSE Got(v(SubSeq(s, i, i + n - 1)), i + n)
get_integer(s, i, cookie) ==
    CASE cookie = ZERO -> Got(<<"int", 0>>, i)
      [] cookie = BYTE -> Read(s, i, 1, LAMBDA d : <<"int", Unsigned(d)>>)
      [] cookie = WORD -> Read(s, i, 2, LAMBDA d : <<"int", Unsigned(d)>>)
      [] cookie = DWORD -> Read(s, i, 4, LAMBDA d : <<"int", Signed(d)>>)
      [] cookie = QWORD -> Read(s, i, 8, LAMBDA d : <<"int", Signed(d)>>)
      [] OTHER -> Invalid
get_buffer(s, i, len) == Read(s, i, len, LAMBDA d : <<"str", d>>)
LongString(s, i, n) ==
    IF n \notin {2, 4} \/ Len(s) - i + 1 < n THEN Invalid
    ELSE get_buffer(s, i + n, Unsigned(SubSeq(s, i, i + n - 1)))

rawset(t, k, v) == {p \in t : p[1] # k} \union IF v = LuaNil THEN {} ELSE {<<k, v>>}
RECURSIVE unpack_one(_, _), ArrayPart(_, _, _, _, _), HashPart(_, _, _)
HashPart(s, i, t) ==
    LET k == unpack_one(s, i) IN
    IF k.at = 0 THEN Invalid
    ELSE IF k.v = LuaNil THEN Got(<<"table", t>>, k.at)
    ELSE LET v == unpack_one(s, k.at) IN IF v.at = 0 THEN Invalid ELSE HashPart(s, v.at, rawset(t, k.v, v.v))
ArrayPart(s, i, k, n, t) ==
    IF k > n THEN HashPart(s, i, t)
    ELSE LET v == unpack_one(s, i) IN
         IF v.at = 0 THEN Invalid ELSE ArrayPart(s, v.at, k + 1, n, rawset(t, <<"int", k>>, v.v))
\* The size of a long array is a number of its own
ArraySize(s, i) ==
    IF i > Len(s) THEN Invalid
    ELSE IF s[i] % 8 # TYPE_NUMBER \/ s[i] \div 8 = REAL THEN Invalid ELSE get_integer(s, i + 1, s[i] \div 8)
unpack_table(s, i, n) ==
    IF n # MAX_COOKIE - 1 THEN ArrayPart(s, i, 1, n, {})
    ELSE LET size == ArraySize(s, i) IN IF size.at = 0 THEN Invalid ELSE ArrayPart(s, size.at, 1, size.v[2], {})
push_value(s, i, type, cookie) ==
    CASE type = TYPE_NIL -> Got(LuaNil, i)
      [] type = TYPE_BOOLEAN -> Got(<<"bool", cookie # 0>>, i)
      [] type = TYPE_NUMBER -> IF cookie = REAL THEN Read(s, i, 8, LAMBDA d : <<"real", Unsigned(d)>>)
                               ELSE get_integer(s, i, cookie)
      [] type = TYPE_USERDATA -> Read(s, i, 8, LAMBDA d : <<"ptr", Unsigned(d)>>)
      [] type = TYPE_SHORT_STRING -> get_buffer(s, i, cookie)
      [] type = TYPE_LONG_STRING -> LongString(s, i, cookie)
      [] type = TYPE_TABLE -> unpack_table(s, i, cookie)
      [] OTHER -> Invalid
unpack_one(s, i) == IF i > Len(s) THEN Invalid ELSE push_value(s, i + 1, s[i] % 8, s[i] \div 8)
\* The values until the stream ends, or an error
RECURSIVE luaseri_unpack(_, _, _)
luaseri_unpack(s, i, vs) ==
    IF i > Len(s) THEN [ok |-> TRUE, vs |-> vs]
    ELSE LET v == unpack_one(s, i) IN
         IF v.at = 0 THEN [ok |-> FALSE, vs |-> <<>>] ELSE luaseri_unpack(s, v.at, Append(vs, v.v))

SeriInit == \E m \in Messages : seri = [stage |-> "pack", in |-> m, out |-> <<>>]
SeriPack ==
    /\ seri.stage = "pack"
    /\ LET wb == luaseri_pack(seri.in) IN
       seri' = IF wb.err THEN [seri EXCEPT !.stage = "refused"]
               ELSE [seri EXCEPT !.stage = "packed", !.out = seri_concat(wb)]
\* The receiver may hold only the first n bytes
SeriUnpack(n) ==
    /\ seri.stage = "packed" /\ n <= Len(seri.out)
    /\ LET r == luaseri_unpack(SubSeq(seri.out, 1, n), 1, <<>>) IN
       seri' = [seri EXCEPT !.stage = IF ~r.ok THEN "invalid" ELSE IF n = Len(seri.out) THEN "all" ELSE "some",
                            !.out = r.vs]
SeriNext == SeriPack \/ \E n \in 0..Len(seri.out) : SeriUnpack(n)

RECURSIVE Plain(_), Nesting(_)
\* A value as a set of pairs, and how deep its tables are nested
Plain(v) == IF v[1] \in {"table", "meta"} THEN <<"table", {<<Plain(v[2][i][1]), Plain(v[2][i][2])>> : i \in DOMAIN v[2]}>> ELSE v
Nesting(v) == IF v[1] \in {"table", "meta"} /\ v[2] # <<>> THEN 1 + Max({Nesting(v[2][i][2]) : i \in DOMAIN v[2]}) ELSE 0
\* Values are unpacked as they were packed; of a stream that was cut, either
\* the first values or an error, and only a message nested too deep is refused
ValuesKept ==
    LET sent == [i \in DOMAIN seri.in |-> Plain(seri.in[i])] IN
    /\ seri.stage = "all" => seri.out = sent
    /\ seri.stage = "some" => Len(seri.out) < Len(sent) /\ seri.out = SubSeq(sent, 1, Len(seri.out))
    /\ seri.stage = "refused" <=> /\ seri.stage # "pack"
                                  /\ \E i \in DOMAIN seri.in : Nesting(seri.in[i]) >= SERI_DEPTH + 1

-----------------------------------------------------------------------------
\* lua-cluster.c; a package is what netpack hands on, without its header

fill_uint32(n) == Digits(n, 4)
PartsOf(msg) == [i \in 1..(Len(msg) - 1) \div MULTI_PART + 1 |->
                    SubSeq(msg, (i - 1) * MULTI_PART + 1, IF i * MULTI_PART < Len(msg) THEN i * MULTI_PART ELSE Len(msg))]
\* The request, or the head of one in parts
packreq_number(addr, session, msg) ==
    IF Len(msg) < MULTI_PART THEN <<0>> \o fill_uint32(addr) \o fill_uint32(session) \o msg
    ELSE <<1>> \o fill_uint32(addr) \o fill_uint32(session) \o fill_uint32(Len(msg))
packreq_string(name, session, msg) ==
    IF Len(msg) < MULTI_PART THEN <<128, Len(name)>> \o name \o fill_uint32(session) \o msg
    ELSE <<129, Len(name)>> \o name \o fill_uint32(session) \o fill_uint32(Len(msg))
packreq_multi(session, msg) ==
    LET part == PartsOf(msg) IN
    [i \in DOMAIN part |-> <<IF i < Len(part) THEN 2 ELSE 3>> \o fill_uint32(session) \o part[i]]
\* Mutant of lpackrequest: a message of just one part is sent without it
lpackrequestEq(addr, session, msg) ==
    [request |-> IF addr[1] = "int" THEN packreq_number(addr[2], session, msg) ELSE packreq_string(addr[2], session, msg),
     session |-> IF session + 1 < B^4 \div 2 THEN session + 1 ELSE 1,
     padding |-> IF Len(msg) <= MULTI_PART THEN <<>> ELSE packreq_multi(session, msg)]
lpackrequest(addr, session, msg) ==
    [request |-> IF addr[1] = "int" THEN packreq_number(addr[2], session, msg) ELSE packreq_string(addr[2], session, msg),
     session |-> IF session + 1 < B^4 \div 2 THEN session + 1 ELSE 1,
     padding |-> IF Len(msg) < MULTI_PART THEN <<>> ELSE packreq_multi(session, msg)]

Uint32(buf, i) == Unsigned(SubSeq(buf, i, i + 3))
From(buf, i) == SubSeq(buf, i, Len(buf))
NoAddress == <<"bool", FALSE>>
Request(addr, session, msg, padding) == [addr |-> addr, session |-> session, msg |-> msg, padding |-> padding]
unpackreq_number(buf) == Request(<<"int", Uint32(buf, 2)>>, Uint32(buf, 6), <<"str", From(buf, 10)>>, FALSE)
unpackmreq_number(buf) == Request(<<"int", Uint32(buf, 2)>>, Uint32(buf, 6), <<"int", Uint32(buf, 10)>>, TRUE)
unpackmreq_part(buf) == Request(NoAddress, Uint32(buf, 2), <<"str", From(buf, 6)>>, buf[1] = 2)
NameOf(buf) == <<"str", SubSeq(buf, 3, buf[2] + 2)>>
unpackreq_string(buf) == Request(NameOf(buf), Uint32(buf, buf[2] + 3), <<"str", From(buf, buf[2] + 7)>>, FALSE)
unpackmreq_string(buf) == Request(NameOf(buf), Uint32(buf, buf[2] + 3), <<"int", Uint32(buf, buf[2] + 7)>>, TRUE)
lunpackrequest(buf) ==
    CASE buf[1] = 0 -> unpackreq_number(buf)
      [] buf[1] = 1 -> unpackmreq_number(buf)
      [] buf[1] \in {2, 3} -> unpackmreq_part(buf)
      [] buf[1] = 128 -> unpackreq_string(buf)
      [] buf[1] = 129 -> unpackmreq_string(buf)

\* One package, or several that are written with low priority
lpackresponse(session, ok, msg) ==
    IF ok /\ Len(msg) > MULTI_PART
    THEN <<fill_uint32(session) \o <<2>> \o fill_uint32(Len(msg))>>
         \o LET part == PartsOf(msg) IN
            [i \in DOMAIN part |-> fill_uint32(session) \o <<IF i < Len(part) THEN 3 ELSE 4>> \o part[i]]
    ELSE <<fill_uint32(session) \o <<IF ok THEN 1 ELSE 0>>
           \o IF Len(msg) > MULTI_PART THEN SubSeq(msg, 1, MULTI_PART) ELSE msg>>
lunpackresponse(buf) ==
    [session |-> Uint32(buf, 1), ok |-> buf[5] # 0, padding |-> buf[5] \in {2, 3},
     data |-> IF buf[5] = 2 THEN <<"int", Uint32(buf, 6)>> ELSE <<"str", From(buf, 6)>>]
\* The parts in one, or nil when they are not of the length announced
lconcat(t) ==
    IF t = <<>> \/ t[1][1] # "int" THEN LuaNil
    ELSE LET strings == {n \in 1..Len(t) : \A i \in 2..n : t[i][1] = "str"}
             buff == FlattenSeq([i \in 1..Max(strings) - 1 |-> t[i + 1][2]]) IN
         IF Len(buff) = t[1][2] THEN <<"str", buff>> ELSE LuaNil

\* A connection has a queue of each priority in each direction
NoConnection == [high |-> <<>>, low |-> <<>>]
Write(c, ps) == IF Len(ps) = 1 THEN [c EXCEPT !.high = @ \o ps] ELSE [c EXCEPT !.low = @ \o ps]
NextPackage(c) == IF c.high # <<>> THEN Head(c.high) ELSE Head(c.low)
PopPackage(c) == IF c.high # <<>> THEN [c EXCEPT !.high = Tail(@)] ELSE [c EXCEPT !.low = Tail(@)]
Waits(c) == c.high # <<>> \/ c.low # <<>>
NoSession == [x \in {} |-> <<>>]
NotAt(f, s) == [x \in DOMAIN f \ {s} |-> f[x]]
With(f, s, v) == [x \in DOMAIN f \union {s} |-> IF x = s THEN v ELSE f[x]]
AtOr(f, s, v) == IF s \in DOMAIN f THEN f[s] ELSE v

ClusterInit ==
    \E first \in {1, B^4 \div 2 - 1} :
      clu = [session |-> first,         \* node_session
             calls |-> 0,               \* how many calls were made
             of |-> NoSession,              \* which call a session is of
             thread |-> {},             \* sessions whose caller waits
             result |-> NoSession,          \* __result_data of a waiting caller
             ended |-> NoSession,           \* what the caller of a session got
             up |-> NoConnection, down |-> NoConnection,
             conn |-> 1, known |-> 1,   \* the connection, and the last one the other node saw open
             large |-> NoSession,           \* large_request
             served |-> {},             \* [session, addr, msg, conn] that a service was called with
             answered |-> {}]           \* those it answered

\* send_request and channel:request
ClusterRequest ==
    /\ clu.calls < Len(Calls)
    /\ LET call == Calls[clu.calls + 1]
           r == lpackrequest(call.addr, clu.session, call.msg) IN
       clu' = [clu EXCEPT !.calls = @ + 1, !.session = r.session, !.thread = @ \union {clu.session},
                          !.of = With(@, clu.session, clu.calls + 1),
                          !.up = Write(@, <<r.request>> \o r.padding)]

Serve(c, r, addr, msg) ==
    IF msg = LuaNil \/ addr = NoAddress
    THEN [c EXCEPT !.down = Write(@, lpackresponse(r.session, FALSE, <<0>>))]
    ELSE [c EXCEPT !.served = @ \union {[session |-> r.session, addr |-> addr, msg |-> msg[2], conn |-> c.conn]}]
\* command.socket: a part is kept, the last one or a whole request is served
SocketData(c, r) ==
    IF r.padding
    THEN [c EXCEPT !.large = With(@, r.session, LET q == AtOr(@, r.session, [addr |-> r.addr, parts |-> <<>>]) IN
                                                [q EXCEPT !.parts = Append(@, r.msg)])]
    ELSE IF r.session \in DOMAIN c.large
    THEN LET q == c.large[r.session] IN
         Serve([c EXCEPT !.large = NotAt(@, r.session)], r, q.addr, lconcat(Append(q.parts, r.msg)))
    ELSE Serve(c, r, r.addr, r.msg)
ClusterArrive ==
    /\ Waits(clu.up)
    /\ clu' = SocketData([clu EXCEPT !.up = PopPackage(@)], lunpackrequest(NextPackage(clu.up)))

\* The service answers; its answer to a connection that is gone is lost
ClusterRespond(q) ==
    /\ q \in clu.served \ clu.answered
    /\ LET call == Calls[clu.of[q.session]] IN
       clu' = [clu EXCEPT !.answered = @ \union {q},
                          !.down = IF q.conn # clu.conn THEN @
                                   ELSE Write(@, lpackresponse(q.session, call.ok, call.answer))]

\* dispatch_by_session
Finish(c, session, v) ==
    [c EXCEPT !.thread = @ \ {session}, !.result = NotAt(@, session), !.ended = With(@, session, v)]
Dispatch(c, r) ==
    IF r.session \notin c.thread THEN c
    ELSE IF r.padding THEN [c EXCEPT !.result = With(@, r.session, Append(AtOr(@, r.session, <<>>), r.data))]
    ELSE IF ~r.ok THEN Finish(c, r.session, <<"error", r.data[2]>>)
    ELSE IF r.session \in DOMAIN c.result
    THEN Finish(c, r.session, lconcat(Append(c.result[r.session], r.data)))
    ELSE Finish(c, r.session, r.data)
ClusterReturn ==
    /\ Waits(clu.down)
    /\ clu' = Dispatch([clu EXCEPT !.down = PopPackage(@)], lunpackresponse(NextPackage(clu.down)))

\* close_channel_socket and wakeup_all: what is under way is lost with the
\* connection, every caller gets an error, and the next call connects again
ClusterDrop ==
    /\ clu.conn = 1 /\ clu.calls > 0
    /\ clu' = [clu EXCEPT !.conn = 2, !.up = NoConnection, !.down = NoConnection, !.thread = {}, !.result = NoSession,
                          !.ended = [s \in DOMAIN @ \union clu.thread |-> IF s \in clu.thread THEN <<"error", <<>>>> ELSE @[s]]]
\* The other node is told so at any time after, and forgets every part it has
ClusterClose ==
    /\ clu.known < clu.conn
    /\ clu' = [clu EXCEPT !.known = clu.conn, !.large = NoSession]

ClusterNext ==
    \/ ClusterRequest \/ ClusterArrive \/ ClusterReturn \/ ClusterDrop \/ ClusterClose
    \/ \E q \in clu.served : ClusterRespond(q)

CallOf(s) == Calls[clu.of[s]]
Answer(call) ==
    IF call.ok THEN <<"str", call.answer>>
    ELSE <<"error", SubSeq(call.answer, 1, Min({MULTI_PART, Len(call.answer)}))>>
\* A service is called with exactly the message and at the address of a
\* request, however its parts and other packages are mixed; the caller gets
\* that service's answer, or an error if the connection broke; and when
\* nothing is under way nobody waits (large_request, __thread)
RequestsServed ==
    /\ \A q \in clu.served : q.addr = CallOf(q.session).addr /\ q.msg = CallOf(q.session).msg
    /\ \A s \in DOMAIN clu.ended : \/ clu.ended[s] = Answer(CallOf(s))
                                   \/ clu.conn > 1 /\ clu.ended[s][1] = "error"
    /\ ~Waits(clu.up) /\ ~Waits(clu.down) /\ clu.served = clu.answered => clu.thread = {}

-----------------------------------------------------------------------------
\* lua-bson.c and lua-mongo.c; <<"len", pairs, n>> is a table with a __len,
\* <<"doc", bytes>> a document that is encoded already

BSON_REAL == 1
BSON_STRING == 2
BSON_DOCUMENT == 3
BSON_ARRAY == 4
BSON_BINARY == 5
BSON_OBJECTID == 7
BSON_BOOLEAN == 8
BSON_DATE == 9
BSON_NULL == 10
BSON_REGEX == 11
BSON_DBPOINTER == 12
BSON_JSCODE == 13
BSON_SYMBOL == 14
BSON_CODEWS == 15
BSON_INT32 == 16
BSON_TIMESTAMP == 17
BSON_INT64 == 18
BSON_MINKEY == 255
BSON_MAXKEY == 127

\* The characters of a decimal and of a hexadecimal number
RECURSIVE bson_numstr(_)
bson_numstr(i) == IF i < 10 THEN <<48 + i>> ELSE Append(bson_numstr(i \div 10), 48 + (i % 10))
strtol(s) == FoldLeft(LAMBDA n, c : 10 * n + c - 48, 0, s)
HexChar(n) == IF n < 10 THEN 48 + n ELSE 87 + n
HexText(s) == FlattenSeq([i \in DOMAIN s |-> <<HexChar(s[i] \div 16), HexChar(s[i] % 16)>>])
hextoint(c) == IF c \in 48..57 THEN c - 48 ELSE c - 87
FromHex(s) == [i \in 1..Len(s) \div 2 |-> hextoint(s[2 * i - 1]) * 16 + hextoint(s[2 * i])]

\* Bytes and whether an error was raised
Written(out) == [out |-> out, err |-> FALSE]
BsonError == [out |-> <<>>, err |-> TRUE]
write_string(s) == Append(s, 0)
append_key(type, key) == <<type>> \o write_string(key)
DateBytes(data) == Digits(Unsigned(data) * 1000, 8)
\* Where the options of a regex start: after the last zero but the final one
RegexCut(s) == Max({0} \union {i \in 1..Len(s) - 1 : s[i] = 0})
\* An object that Lua holds as a string: a zero, its type and its data
Malformed(type, data) ==
    \/ type \notin {BSON_BINARY, BSON_OBJECTID, BSON_JSCODE, BSON_DBPOINTER, BSON_SYMBOL, BSON_CODEWS, BSON_DATE,
                    BSON_TIMESTAMP, BSON_REGEX, BSON_MINKEY, BSON_MAXKEY, BSON_NULL}
    \/ type = BSON_OBJECTID /\ Len(data) # 12
    \/ type = BSON_DATE /\ Len(data) # 4
    \/ type = BSON_TIMESTAMP /\ Len(data) # 8
append_object(key, type, data) ==
    LET body == CASE type = BSON_BINARY -> Digits(Len(data) - 1, 4) \o data
                  [] type = BSON_DATE -> DateBytes(data)
                  [] type = BSON_REGEX -> write_string(SubSeq(data, 1, RegexCut(data) - 1))
                                          \o write_string(SubSeq(data, RegexCut(data) + 1, Len(data) - 1))
                  [] type \in {BSON_MINKEY, BSON_MAXKEY, BSON_NULL} -> <<>>
                  [] OTHER -> data IN
    IF Malformed(type, data)
    THEN BsonError ELSE Written(append_key(type, key) \o body)
append_number(key, v) ==
    CASE v[1] = "real" -> append_key(BSON_REAL, key) \o Digits(v[2], 8)
      [] v[1] = "int" /\ Is32(v[2]) -> append_key(BSON_INT32, key) \o Digits(v[2], 4)
      [] v[1] = "int" /\ ~Is32(v[2]) -> append_key(BSON_INT64, key) \o Digits(v[2], 8)
append_string(key, s) ==
    IF Len(s) > 1 /\ s[1] = 0 THEN append_object(key, s[2], From(s, 3))
    ELSE Written(append_key(BSON_STRING, key) \o Digits(Len(s) + 1, 4) \o write_string(s))

RECURSIVE append_one(_, _, _)
\* A document: its length, its fields, a zero
Document(fields) ==
    IF \E i \in DOMAIN fields : fields[i].err THEN BsonError
    ELSE LET out == FlattenSeq([i \in DOMAIN fields |-> fields[i].out]) IN
         Written(Digits(Len(out) + 5, 4) \o out \o <<0>>)
pack_array(t, depth, len) == Document([i \in 1..len |-> append_one(bson_numstr(i - 1), ArrayOf(t)[i], depth)])
\* The text of a key, which is a number or a string
KeyText(k) == IF k[1] = "int" THEN IF k[2] < 0 THEN <<45>> \o bson_numstr(-k[2]) ELSE bson_numstr(k[2]) ELSE k[2]
pack_dict_data(p, depth) == IF p[1][1] \in {"int", "str"} THEN append_one(KeyText(p[1]), p[2], depth) ELSE BsonError
pack_dict(pairs, depth) == Document([i \in DOMAIN pairs |-> pack_dict_data(pairs[i], depth)])
\* lua_next has nothing after the last index of the array
is_rawarray(t) == t[3] > 0 /\ Last(t[2])[1] = <<"int", t[3]>>
Field(key, type, d) == IF d.err THEN d ELSE Written(append_key(type, key) \o d.out)
append_table(key, t, depth) ==
    CASE depth > BSON_DEPTH -> BsonError
      [] depth <= BSON_DEPTH /\ t[1] = "len" -> Field(key, BSON_ARRAY, pack_array(t, depth, t[3]))
      [] depth <= BSON_DEPTH /\ t[1] = "meta" -> Field(key, BSON_DOCUMENT, pack_dict(t[2], depth))
      [] depth <= BSON_DEPTH /\ t[1] = "table" ->
            IF is_rawarray(t) THEN Field(key, BSON_ARRAY, pack_array(t, depth, t[3]))
            ELSE Field(key, BSON_DOCUMENT, pack_dict(t[2], depth))
append_one(key, v, depth) ==
    CASE v[1] \in {"int", "real"} -> Written(append_number(key, v))
      [] v[1] = "doc" -> Written(append_key(BSON_DOCUMENT, key) \o v[2])
      [] v[1] = "str" -> append_string(key, v[2])
      [] v[1] \in {"table", "meta", "len"} -> append_table(key, v, depth + 1)
      [] v[1] = "bool" -> Written(append_key(BSON_BOOLEAN, key) \o <<IF v[2] THEN 1 ELSE 0>>)
      [] OTHER -> BsonError
lencode(pairs) == pack_dict(pairs, 0)

read_int32(s, i) == Signed(SubSeq(s, i, i + 3))
\* Where the zero is that ends the text at i
Cstring(s, i) == Min({j \in i..Len(s) : s[j] = 0})
make_object(type, data) == <<"str", <<0, type>> \o data>>
\* Read(s, i, n, v) with an object made of n bytes
Bytes(s, i, n, type) == Got(make_object(type, SubSeq(s, i, i + n - 1)), i + n)
RegexAt(s, i) ==
    LET a == Cstring(s, i)  b == Cstring(s, a + 1) IN
    Got(make_object(BSON_REGEX, SubSeq(s, i, a - 1) \o <<0>> \o SubSeq(s, a + 1, b - 1) \o <<0>>), b + 1)
RECURSIVE unpack_dict(_, _, _), Fields(_, _, _, _, _)
Element(s, i, bt) ==
    CASE bt = BSON_REAL -> Read(s, i, 8, LAMBDA d : <<"real", Unsigned(d)>>)
      [] bt = BSON_BOOLEAN -> Got(<<"bool", s[i] # 0>>, i + 1)
      [] bt = BSON_STRING -> Got(<<"str", SubSeq(s, i + 4, i + 2 + read_int32(s, i))>>, i + 4 + read_int32(s, i))
      [] bt = BSON_DOCUMENT -> unpack_dict(s, i, FALSE)
      [] bt = BSON_ARRAY -> unpack_dict(s, i, TRUE)
      [] bt = BSON_BINARY -> Bytes(s, i + 4, read_int32(s, i) + 1, bt)
      [] bt = BSON_OBJECTID -> Bytes(s, i, 12, bt)
      [] bt = BSON_DATE -> Got(make_object(bt, Digits(Signed(SubSeq(s, i, i + 7)) \div 1000, 4)), i + 8)
      [] bt \in {BSON_MINKEY, BSON_MAXKEY, BSON_NULL} -> Got(make_object(bt, <<>>), i)
      [] bt = BSON_REGEX -> RegexAt(s, i)
      [] bt = BSON_INT32 -> Read(s, i, 4, LAMBDA d : <<"int", Signed(d)>>)
      [] bt = BSON_TIMESTAMP -> Bytes(s, i, 8, bt)
      [] bt = BSON_INT64 -> Read(s, i, 8, LAMBDA d : <<"int", Signed(d)>>)
      [] bt = BSON_DBPOINTER -> Bytes(s, i, read_int32(s, i) + 16, bt)
      [] bt \in {BSON_JSCODE, BSON_SYMBOL} -> Bytes(s, i, read_int32(s, i) + 4, bt)
      [] bt = BSON_CODEWS -> Bytes(s, i, read_int32(s, i), bt)
Fields(s, i, end, array, t) ==
    IF i = end THEN Got(<<"table", t>>, end + 1)
    ELSE LET z == Cstring(s, i + 1)
             key == SubSeq(s, i + 1, z - 1)
             v == Element(s, z + 1, s[i]) IN
         Fields(s, v.at, end, array, rawset(t, IF array THEN <<"int", strtol(key) + 1>> ELSE <<"str", key>>, v.v))
unpack_dict(s, i, array) == Fields(s, i + 4, i + read_int32(s, i) - 1, array, {})
ldecode(s) == unpack_dict(s, 1, FALSE).v

\* How many bytes of a field are skipped, and whether it can be replaced
FieldSize(s, i, bt) ==
    CASE bt \in {BSON_INT64, BSON_TIMESTAMP, BSON_DATE, BSON_REAL} -> 8
      [] bt = BSON_BOOLEAN -> 1
      [] bt \in {BSON_JSCODE, BSON_SYMBOL, BSON_STRING} -> read_int32(s, i) + 4
      [] bt \in {BSON_CODEWS, BSON_ARRAY, BSON_DOCUMENT} -> read_int32(s, i)
      [] bt = BSON_BINARY -> read_int32(s, i) + 5
      [] bt = BSON_OBJECTID -> 12
      [] bt \in {BSON_MINKEY, BSON_MAXKEY, BSON_NULL} -> 0
      [] bt = BSON_REGEX -> Cstring(s, Cstring(s, i) + 1) + 1 - i
      [] bt = BSON_INT32 -> 4
      [] bt = BSON_DBPOINTER -> read_int32(s, i) + 16
FixedSize == {BSON_INT64, BSON_TIMESTAMP, BSON_DATE, BSON_REAL, BSON_BOOLEAN, BSON_OBJECTID, BSON_INT32}
\* From a key to the type of its field and where that starts
RECURSIVE MakeIndex(_, _, _)
MakeIndex(s, i, index) ==
    IF i = Len(s) THEN index
    ELSE LET z == Cstring(s, i + 1) IN
         MakeIndex(s, z + 1 + FieldSize(s, z + 1, s[i]),
                   IF s[i] \in FixedSize THEN With(index, SubSeq(s, i + 1, z - 1), <<s[i], z + 1>>) ELSE index)
lmakeindex(s) == MakeIndex(s, 5, NoSession)
Overwrite(s, at, bytes) == [i \in DOMAIN s |-> IF i \in at..at + Len(bytes) - 1 THEN bytes[i - at + 1] ELSE s[i]]
replace_object(type, data) ==
    IF data[1] # "str" \/ Len(data[2]) < 6 THEN <<>>
    ELSE IF data[2][1] # 0 \/ data[2][2] # type THEN <<>>
    ELSE IF type = BSON_DATE THEN DateBytes(From(data[2], 3)) ELSE From(data[2], 3)
\* The bytes of the new value, <<>> for an error; an integer may lose digits
Replaced(type, v) ==
    CASE type = BSON_REAL -> IF v[1] = "real" THEN Digits(v[2], 8) ELSE <<>>
      [] type = BSON_BOOLEAN -> <<IF v = <<"bool", FALSE>> \/ v = LuaNil THEN 0 ELSE 1>>
      [] type \in {BSON_OBJECTID, BSON_DATE, BSON_TIMESTAMP} -> replace_object(type, v)
      [] type = BSON_INT32 -> IF v[1] = "int" THEN Digits(v[2], 4) ELSE <<>>
      [] type = BSON_INT64 -> IF v[1] = "int" THEN Digits(v[2], 8) ELSE <<>>

\* ltype and the functions that make an object from what it tells
ltype(v) ==
    LET s == v[2]  data == From(s, 3) IN
    IF v[1] # "str" \/ Len(s) < 2 THEN <<"plain", v>>
    ELSE IF s[1] # 0 THEN <<"plain", v>>
    ELSE IF Malformed(s[2], data) THEN <<"error", s>>
    ELSE CASE s[2] = BSON_BINARY -> <<"binary", Tail(data), data[1]>>
           [] s[2] = BSON_OBJECTID -> <<"objectid", HexText(data)>>
           [] s[2] = BSON_DATE -> <<"date", Signed(data)>>
           [] s[2] = BSON_TIMESTAMP -> <<"timestamp", Unsigned(SubSeq(data, 5, 8)), Unsigned(SubSeq(data, 1, 4))>>
           [] s[2] = BSON_REGEX -> <<"regex", SubSeq(data, 1, RegexCut(data) - 1), SubSeq(data, RegexCut(data) + 1, Len(data) - 1)>>
           [] s[2] \in {BSON_MINKEY, BSON_MAXKEY, BSON_NULL} -> <<"constant", s[2]>>
           [] OTHER -> <<"unsupported", s>>
ldate(d) == make_object(BSON_DATE, Digits(d, 4))
ltimestamp(d, inc) == make_object(BSON_TIMESTAMP, Digits(inc, 4) \o Digits(d, 4))
lregex(s, options) == make_object(BSON_REGEX, s \o <<0>> \o options \o <<0>>)
lbinary(s) == make_object(BSON_BINARY, <<0>> \o s)
lobjectid(hex) == make_object(BSON_OBJECTID, FromHex(hex))
MadeOf(t) ==
    CASE t[1] = "plain" -> t[2]
      [] t[1] = "binary" -> lbinary(t[2])
      [] t[1] = "objectid" -> lobjectid(t[2])
      [] t[1] = "date" -> ldate(t[2])
      [] t[1] = "timestamp" -> ltimestamp(t[2], t[3])
      [] t[1] = "regex" -> lregex(t[2], t[3])
      [] t[1] = "constant" -> make_object(t[2], <<>>)
      [] t[1] \in {"unsupported", "error"} -> <<"str", t[2]>>

\* A message to the database: its length, id, 0, what it is, and the rest
Message(id, op, rest) == Digits(Len(rest) + 16, 4) \o Digits(id, 4) \o Digits(0, 4) \o Digits(op, 4) \o rest
Int32s(vs) == FlattenSeq([i \in DOMAIN vs |-> Digits(vs[i], 4)])
CollectionName == <<7, 7>>
\* The length of a document is the one it starts with
DocumentBytes(d) == SubSeq(d, 1, read_int32(d, 1))
op_query(d) == Message(1, 2004, Digits(4, 4) \o write_string(CollectionName) \o Int32s(<<0, 1>>) \o DocumentBytes(d))
op_query_select(d) == Message(1, 2004, Digits(4, 4) \o write_string(CollectionName) \o Int32s(<<0, 1>>) \o DocumentBytes(d) \o DocumentBytes(d))
op_kill(cursor) == Message(0, 2007, Int32s(<<0, 1>>) \o cursor)
op_delete(d) == Message(0, 2006, Digits(0, 4) \o write_string(CollectionName) \o Digits(1, 4) \o DocumentBytes(d))
op_get_more(cursor) == Message(1, 2005, Digits(0, 4) \o write_string(CollectionName) \o Digits(2, 4) \o cursor)
op_update(d) == Message(0, 2001, Digits(0, 4) \o write_string(CollectionName) \o Digits(0, 4) \o DocumentBytes(d) \o DocumentBytes(d))
op_insert(ds) == Message(0, 2002, Digits(0, 4) \o write_string(CollectionName) \o FlattenSeq([i \in DOMAIN ds |-> DocumentBytes(ds[i])]))
\* What the messages above must end with
Sends(d) == {<<op_query(d), <<d>>>>, <<op_query_select(d), <<d, d>>>>, <<op_delete(d), <<d>>>>, <<op_update(d), <<d, d>>>>,
             <<op_insert(<<d>>), <<d>>>>, <<op_insert(<<d, d, d>>), <<d, d, d>>>>,
             <<op_kill(Digits(9, 8)), <<>>>>, <<op_get_more(Digits(9, 8)), <<>>>>}
reply_length(head) == Signed(head) - 4
\* What the database sends (external): n documents, or a failure
Reply(flags, cursor, n, ds) == Message(5, 1, Digits(flags, 4) \o cursor \o Int32s(<<0, n>>) \o FlattenSeq(ds))
RECURSIVE ReadReply(_, _, _)
\* The documents one after the other, put into the table from its index i on
ReadReply(s, i, t) ==
    IF Len(s) <= 4 THEN <<s, i, t>>
    ELSE ReadReply(From(s, read_int32(s, 1) + 1), i + 1,
                    IF i > Len(t) THEN Append(t, DocumentBytes(s)) ELSE [t EXCEPT ![i] = DocumentBytes(s)])
\* data lacks the length; t is the table that the last reply was read into
op_reply(data, t) ==
    LET id == Signed(SubSeq(data, 5, 8))
        number == Signed(SubSeq(data, 29, 32))
        r == ReadReply(From(data, 33), 1, t) IN
    IF (Signed(SubSeq(data, 13, 16)) \div 2) % 2 = 1 THEN [ok |-> FALSE, id |-> id, docs |-> <<From(data, 33)>>, more |-> FALSE]
    ELSE IF r[2] # number + 1 \/ r[1] # <<>> THEN [ok |-> FALSE, id |-> id, docs |-> <<>>, more |-> FALSE]
    ELSE [ok |-> TRUE, id |-> id, docs |-> SubSeq(r[3], 1, number), more |-> Unsigned(SubSeq(data, 17, 24)) # 0]

DocInit == \E d \in Documents : doc = [stage |-> "encode", in |-> d, bytes |-> <<>>, want |-> {}, out |-> <<>>]
RECURSIVE Stored(_)
\* What a value is after it was a field of a document
Stored(v) ==
    CASE v[1] = "table" /\ ~is_rawarray(v) -> <<"table", {<<<<"str", KeyText(v[2][i][1])>>, Stored(v[2][i][2])>> : i \in DOMAIN v[2]}>>
      [] v[1] = "meta" -> <<"table", {<<<<"str", KeyText(v[2][i][1])>>, Stored(v[2][i][2])>> : i \in DOMAIN v[2]}>>
      [] v[1] = "len" \/ (v[1] = "table" /\ is_rawarray(v)) -> <<"table", {<<<<"int", i>>, Stored(ArrayOf(v)[i])>> : i \in 1..v[3]}>>
      [] v[1] = "doc" -> ldecode(v[2])
      [] OTHER -> v
DocEncode ==
    /\ doc.stage = "encode"
    /\ LET r == lencode(doc.in) IN
       doc' = IF r.err THEN [doc EXCEPT !.stage = "refused"]
              ELSE [doc EXCEPT !.stage = "encoded", !.bytes = r.out,
                               !.want = Stored(<<"meta", doc.in>>)[2]]
DocDecode ==
    /\ doc.stage = "encoded"
    /\ doc' = [doc EXCEPT !.stage = "decoded", !.out = ldecode(doc.bytes)[2]]
\* makeindex and an assignment to a field; an integer keeps what fits
Narrow(type, v) == IF type = BSON_INT32 THEN <<"int", Signed(Digits(v[2], 4))>>
                   ELSE IF type = BSON_BOOLEAN THEN <<"bool", v \notin {<<"bool", FALSE>>, LuaNil}>> ELSE v
DocReplace(key, v) ==
    /\ doc.stage = "encoded" /\ doc.out = <<>>
    /\ LET index == lmakeindex(doc.bytes) IN
       /\ key \in DOMAIN index
       /\ LET type == index[key][1]
              bytes == Replaced(type, v) IN
          doc' = IF bytes = <<>> THEN [doc EXCEPT !.stage = "mismatch"]
                 ELSE [doc EXCEPT !.bytes = Overwrite(@, index[key][2], bytes), !.out = <<key>>,
                                  !.want = rawset(@, <<"str", key>>, Narrow(type, v))]
DocSend ==
    /\ doc.stage = "encoded"
    /\ \E m \in Sends(doc.bytes) : doc' = [doc EXCEPT !.stage = "sent", !.out = m]
\* A reply of n documents into a table that holds those of an earlier one;
\* the database may announce one more than it sends
DocReply(n, said, old, flags) ==
    /\ doc.stage = "encoded"
    /\ LET m == Reply(flags, Digits(n, 8), said, [i \in 1..n |-> doc.bytes]) IN
       doc' = [doc EXCEPT !.stage = "replied",
                          !.out = <<n, said, flags, op_reply(SubSeq(m, 5, reply_length(SubSeq(m, 1, 4)) + 4),
                                                             IF old THEN <<<<0>>, <<0>>, <<0>>>> ELSE <<>>)>>]
DocNext ==
    \/ DocEncode \/ DocDecode \/ DocSend
    \/ \E p \in doc.want, v \in Replacement : DocReplace(p[1][2], v)
    \/ \E n \in 0..2, old \in BOOLEAN, flags \in {0, 2} : \E said \in {n, n + 1} : DocReply(n, said, old, flags)

\* A document is decoded as it was encoded, with the field that was assigned
\* to and no other changed; an object made from its type is itself; a message
\* has the length it announces and ends with its documents; and a reply gives
\* the documents of the database and none of an earlier reply
DocumentsKept ==
    /\ doc.stage = "decoded" => doc.out = doc.want
    /\ doc.stage = "encode" => \A i \in DOMAIN doc.in : MadeOf(ltype(doc.in[i][2])) = doc.in[i][2]
    /\ doc.stage = "sent" => LET end == FlattenSeq(doc.out[2]) IN
          /\ Unsigned(SubSeq(doc.out[1], 1, 4)) = Len(doc.out[1])
          /\ IsSuffix(end, doc.out[1])
    /\ doc.stage = "replied" => LET n == doc.out[1]  r == doc.out[4] IN
          /\ r.id = 0 /\ r.ok = (doc.out[3] = 0 /\ doc.out[2] = n)
          /\ r.ok => r.docs = [i \in 1..n |-> doc.bytes] /\ r.more = (n # 0)

-----------------------------------------------------------------------------
\* lua-crypt.c

Texts == UNION {[1..n -> TextBytes] : n \in 0..TextLength}
\* DES is a bijection of blocks for each key, here a tag on the block
des_crypt(key, block) == <<key, block>>
des_uncrypt(key, block) == block[2]
ldesencode(key, text) ==
    LET whole == Len(text) \div DES_BLOCK
        rest == From(text, whole * DES_BLOCK + 1)
        tail == [j \in 1..DES_BLOCK |-> IF j <= Len(rest) THEN rest[j] ELSE IF j = Len(rest) + 1 THEN 128 ELSE 0] IN
    [i \in 1..whole |-> des_crypt(key, SubSeq(text, (i - 1) * DES_BLOCK + 1, i * DES_BLOCK))]
    \o <<des_crypt(key, tail)>>
\* A nil is an error: the padding is zeros after the last 128 of the last block
ldesdecode(key, blocks) ==
    LET buffer == FlattenSeq([i \in DOMAIN blocks |-> des_uncrypt(key, blocks[i])])
        mark == Max({0} \union {i \in DOMAIN buffer : buffer[i] # 0}) IN
    IF mark <= Len(buffer) - DES_BLOCK THEN LuaNil ELSE IF buffer[mark] # 128 THEN LuaNil
    ELSE <<"str", SubSeq(buffer, 1, mark - 1)>>

ltohex(text) == HexText(text)
lfromhex(text) == IF Len(text) % 2 = 1 THEN LuaNil ELSE <<"str", FromHex(text)>>

\* A character is its index in the alphabet; Padding is '=', Other is none of it
Padding == -2
Other == -1
CharsOf(v, n) == [i \in 1..n |-> (v \div (U^3)^(n - i)) % U^3]
lb64encode(text) ==
    LET n == Len(text) \div 3
        group(i) == CharsOf(text[i] * U^8 + text[i + 1] * U^4 + text[i + 2], 4)
        i == 3 * n + 1 IN
    FlattenSeq([g \in 1..n |-> group(3 * g - 2)])
    \o CASE Len(text) % 3 = 0 -> <<>>
         [] Len(text) % 3 = 1 -> <<text[i] \div U, (text[i] % U) * U^2, Padding, Padding>>
         [] Len(text) % 3 = 2 -> LET v == text[i] * U^4 + text[i + 1] IN
                                 <<v \div U^5, (v \div U^2) % U^3, (v % U^2) * U, Padding>>
\* The bytes of four characters, <<Stale>> for an error
B64Group(c) ==
    IF Padding \in {c[1], c[2]} THEN <<Stale>> ELSE
    CASE c[4] # Padding /\ c[3] # Padding ->
            LET v == c[1] * U^9 + c[2] * U^6 + c[3] * U^3 + c[4] IN <<v \div U^8, (v \div U^4) % U^4, v % U^4>>
      [] c[4] = Padding /\ c[3] # Padding ->
            IF c[3] % U # 0 THEN <<Stale>>
            ELSE LET v == c[1] * U^5 + c[2] * U^2 + c[3] \div U IN <<v \div U^4, v % U^4>>
      [] c[4] = Padding /\ c[3] = Padding ->
            IF c[2] % U^2 # 0 THEN <<Stale>> ELSE <<c[1] * U + c[2] \div U^2>>
      [] c[4] # Padding /\ c[3] = Padding -> <<Stale>>
\* Other characters are skipped before and in a group of four, but after the
\* last group they begin one that is never complete
lb64decode(text) ==
    LET c == SelectSeq(text, LAMBDA x : x # Other)
        out == FlattenSeq([g \in 1..Len(c) \div 4 |-> B64Group(SubSeq(c, 4 * g - 3, 4 * g))])
        ended == text = <<>> \/ text[Len(text)] # Other IN
    IF ~ended \/ Len(c) % 4 # 0 \/ Stale \in Range(out) THEN LuaNil ELSE <<"str", out>>

\* Integers of the width DH_MOD; a sum may not leave it
RECURSIVE MulMod(_, _, _), pow_mod_p(_, _)
MulMod(a, b, m) ==
    IF b = 0 THEN m
    ELSE MulMod(IF a >= DH_P - a THEN (a * 2 - DH_P) % DH_MOD ELSE (a * 2) % DH_MOD, b \div 2,
                IF b % 2 = 0 THEN m ELSE IF m >= DH_P - a THEN m - (DH_P - a) ELSE (m + a) % DH_MOD)
mul_mod_p(a, b) == MulMod(a, b, 0)
\* t is the power with half the exponent
PowStep(t, a, b) == IF b % 2 = 1 THEN mul_mod_p(mul_mod_p(t, t), a) ELSE mul_mod_p(t, t)
pow_mod_p(a, b) == IF b = 1 THEN a ELSE PowStep(pow_mod_p(a, b \div 2), a, b)
powmodp(a, b) == pow_mod_p(IF a > DH_P THEN a % DH_P ELSE a, b)
ldhexchange(x) == powmodp(DH_G, x)
ldhsecret(x, y) == powmodp(x, y)

CryptInit ==
    \/ \E t \in Texts, way \in {"des", "hex", "b64"} : crypt = [way |-> way, stage |-> "in", in |-> t, out |-> <<>>]
    \/ \E x, y \in 1..DH_MOD - 1 : crypt = [way |-> "dh", stage |-> "in", in |-> <<x, y>>, out |-> <<>>]
CryptEncode ==
    /\ crypt.stage = "in"
    /\ crypt' = [crypt EXCEPT !.stage = "coded",
                   !.out = CASE crypt.way = "des" -> ldesencode(1, crypt.in)
                             [] crypt.way = "hex" -> ltohex(crypt.in)
                             [] crypt.way = "b64" -> lb64encode(crypt.in)
                             [] crypt.way = "dh" -> <<ldhexchange(crypt.in[1]), ldhexchange(crypt.in[2])>>]
\* On its way a base64 text may be broken into lines, get a line end after its
\* last group, or lose its end
CryptBreak(n) ==
    /\ crypt.stage = "coded" /\ crypt.way = "b64" /\ n <= Len(crypt.out)
    /\ \/ crypt' = [crypt EXCEPT !.stage = IF n < Len(crypt.out) THEN "broken" ELSE "cut",
                          !.out = SubSeq(@, 1, n) \o <<Other>> \o From(@, n + 1)]
       \/ crypt' = [crypt EXCEPT !.stage = "cut", !.out = SubSeq(@, 1, n)]
CryptDecode ==
    /\ crypt.stage \in {"coded", "broken", "cut"}
    /\ crypt' = [crypt EXCEPT !.stage = IF @ = "cut" THEN "part" ELSE "out",
                   !.out = CASE crypt.way = "des" -> ldesdecode(1, crypt.out)
                             [] crypt.way = "hex" -> lfromhex(crypt.out)
                             [] crypt.way = "b64" -> lb64decode(crypt.out)
                             [] crypt.way = "dh" -> <<ldhsecret(crypt.out[2], crypt.in[1]),
                                                      ldhsecret(crypt.out[1], crypt.in[2])>>]
CryptNext == CryptEncode \/ CryptDecode \/ \E n \in 0..Len(crypt.out) : CryptBreak(n)

\* A text is decoded as it was encoded, also with line ends between its
\* characters; of one that was cut, or ends with a line end, either its start
\* or an error; and both sides of a key exchange have the same secret, not 0
TextsKept ==
    /\ crypt.stage = "out" /\ crypt.way # "dh" => crypt.out = <<"str", crypt.in>>
    /\ crypt.stage = "part" => crypt.out = LuaNil \/ IsPrefix(crypt.out[2], crypt.in)
    /\ crypt.stage = "out" /\ crypt.way = "dh" => crypt.out[1] = crypt.out[2] /\ crypt.out[1] \in 1..DH_P - 1
=============================================================================
