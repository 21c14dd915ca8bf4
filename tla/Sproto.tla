------------------------------ MODULE Sproto ------------------------------
(***************************************************************************)
(* lualib-src/sproto: the schema a service loads (sproto.c, from what      *)
(* lualib/sprotoparser.lua writes), the encoder and the decoder of the     *)
(* objects of a schema, with the buffers lsproto.c grows and calls them    *)
(* again with, the packing of zero bytes, and the memory pool of a schema. *)
(*                                                                         *)
(* A byte is a decimal digit: a word is two of them, a dword four, and an  *)
(* integer of 64 bits eight, in two's complement.  A segment of the        *)
(* packing has SEG bytes (8 in the code) and a run RUN segments (256).     *)
(***************************************************************************)
EXTENDS Integers, Sequences, FiniteSets, SequencesExt, FiniteSetsExt

CONSTANTS
    SEG, RUN,               \* bytes of a segment and segments of a run
    ENCODE_BUFFERSIZE,      \* the first size of the three buffers of lsproto.c
    ENCODE_MAXSIZE,         \* no buffer grows beyond
    ENCODE_DEEPLEVEL,       \* structs nested deeper are refused
    Schema,                 \* [type : Seq([name, f]), proto : Seq([name, tag, request, response])]
    Objects, NextObjects,   \* pairs <<type index, object>> a service encodes, at first and later
    Reader,                 \* for a type, the indices of the types it is decoded with
    PackBits,               \* lengths of the byte strings packed by themselves
    CHUNK_SIZE, PoolSizes, PoolCalls

VARIABLES
    schema,     \* the schema, once loaded
    spIn,       \* what goes through: <<type, object>> or the bytes to pack
    spStage,    \* "new", "encode", "pack", "unpack", "decode", "done", "raised"
    spWire,     \* the bytes the last call returned
    spOut,      \* the object decoded
    spBuf,      \* the sizes of the buffers that encode, pack and unpack keep
    pool        \* the memory of a schema
spVars == <<schema, spIn, spStage, spWire, spOut, spBuf>>

B == 10
Stale == -1             \* a byte nobody wrote
LuaNil == <<"nil">>
Digits(v, n) == [i \in 1..n |-> (v \div B^(i - 1)) % B]
Unsigned(d) == FoldRight(LAMBDA x, acc : x + B * acc, d, 0)
Signed(d) == IF Unsigned(d) >= B^Len(d) \div 2 THEN Unsigned(d) - B^Len(d) ELSE Unsigned(d)
toword(s, i) == Unsigned(SubSeq(s, i, i + 1))
todword(s, i) == Unsigned(SubSeq(s, i, i + 3))
Word(v) == Digits(v, 2)
Dword(v) == Digits(v, 4)
SIZEOF_LENGTH == 4
SIZEOF_HEADER == 2
SIZEOF_FIELD == 2

\* The value of a field of a Lua table, a set of pairs of a name and a value
getfield(obj, name) ==
    IF \E p \in obj : p[1] = name THEN (CHOOSE p \in obj : p[1] = name)[2] ELSE LuaNil
setfield(obj, name, v) == {p \in obj : p[1] # name} \union {<<name, v>>}

-----------------------------------------------------------------------------
\* lualib/sprotoparser.lua: the bundle of a schema

buildin == <<"integer", "boolean", "string">>
packbytes(s) == Dword(Len(s)) \o s
packvalue(id) == Word((id + 1) * 2)
packfield(f) ==
    LET own == IF f.type = "struct" THEN Word(1) \o packvalue(f.st)
               ELSE packvalue(CHOOSE i \in 0..2 : buildin[i + 1] = f.type) \o Word(1)
    IN  packbytes(Word(IF f.array THEN IF f.key >= 0 THEN 6 ELSE 5 ELSE 4)
                  \o Word(0) \o own \o packvalue(f.tag)
                  \o (IF f.array THEN packvalue(1) ELSE <<>>)
                  \o (IF f.key >= 0 THEN packvalue(f.key) ELSE <<>>)
                  \o packbytes(f.name))
packtype(t) ==
    packbytes(IF t.f = <<>> THEN Word(1) \o Word(0) \o packbytes(t.name)
              ELSE Word(2) \o Word(0) \o Word(0) \o packbytes(t.name)
                   \o packbytes(FlattenSeq([i \in DOMAIN t.f |-> packfield(t.f[i])])))
\* A request or a response of -1 is none
packproto(p) ==
    packbytes(Word(IF p.request < 0 /\ p.response < 0 THEN 2 ELSE IF p.response < 0 THEN 3 ELSE 4)
              \o Word(0) \o packvalue(p.tag)
              \o (IF p.request < 0 /\ p.response < 0 THEN <<>>
                  ELSE (IF p.request < 0 THEN Word(1) ELSE packvalue(p.request))
                       \o (IF p.response < 0 THEN <<>> ELSE packvalue(p.response)))
              \o packbytes(p.name))
packgroup(s) ==
    LET tt == packbytes(FlattenSeq([i \in DOMAIN s.type |-> packtype(s.type[i])]))
        tp == packbytes(FlattenSeq([i \in DOMAIN s.proto |-> packproto(s.proto[i])]))
    IN  IF s.proto = <<>> THEN Word(1) \o Word(0) \o tt
        ELSE Word(2) \o Word(0) \o Word(0) \o tt \o tp

-----------------------------------------------------------------------------
\* create_from_bundle and what it calls; NULL, NoData and NoName are its failures

NULL == [failed |-> TRUE]
NoData == <<<<Stale>>>>
NoName == <<Stale>>
\* The elements of the array at i, or NULL
RECURSIVE ArrayAt(_, _, _, _)
ArrayAt(s, i, length, acc) ==
    IF length = 0 THEN acc
    ELSE IF length < SIZEOF_LENGTH \/ todword(s, i) + SIZEOF_LENGTH > length THEN NoData
    ELSE ArrayAt(s, i + SIZEOF_LENGTH + todword(s, i), length - SIZEOF_LENGTH - todword(s, i),
                 Append(acc, SubSeq(s, i + SIZEOF_LENGTH, i + SIZEOF_LENGTH + todword(s, i) - 1)))
count_array(s) == ArrayAt(s, SIZEOF_LENGTH + 1, todword(s, 1), <<>>)

\* The records of a struct and its data, in order; a record of 0 takes the next data
RECURSIVE DataOf(_, _, _)
DataOf(s, i, n) ==
    IF n = 0 THEN <<>>
    ELSE IF Len(s) - i + 1 < SIZEOF_LENGTH \/ Len(s) - i + 1 < SIZEOF_LENGTH + todword(s, i) THEN NoData
    ELSE <<SubSeq(s, i, i + 3 + todword(s, i))>> \o DataOf(s, i + SIZEOF_LENGTH + todword(s, i), n - 1)
RecordsOf(s) == [i \in 1..toword(s, 1) |-> toword(s, SIZEOF_HEADER + 1 + SIZEOF_FIELD * (i - 1))]
struct_field(s) ==
    IF Len(s) < SIZEOF_LENGTH \/ Len(s) < SIZEOF_HEADER + SIZEOF_FIELD * toword(s, 1) THEN <<NoName, NoName>>
    ELSE LET rec == RecordsOf(s)
             data == DataOf(s, SIZEOF_HEADER + SIZEOF_FIELD * Len(rec) + 1,
                            Cardinality({i \in DOMAIN rec : rec[i] = 0}))
         IN  IF \E i \in DOMAIN data : data[i] = NoName THEN <<NoName, NoName>> ELSE <<rec, data>>
import_string(data) == SubSeq(data, SIZEOF_LENGTH + 1, SIZEOF_LENGTH + todword(data, 1))

NoField == [tag |-> -1, type |-> "none", array |-> FALSE, name |-> NoName, st |-> -1, key |-> -1]
\* One record of a field, whose tag is the number of its key
FieldRecord(s, f, tag, value, data) ==
    CASE tag = 0 -> IF value # 0 THEN NULL ELSE [f EXCEPT !.name = import_string(data[1])]
      [] tag # 0 /\ value = 0 -> NULL
      [] tag = 1 /\ value # 0 -> IF value \div 2 - 1 >= 3 THEN NULL
                                 ELSE [f EXCEPT !.type = buildin[value \div 2]]
      [] tag = 2 /\ value # 0 -> IF value \div 2 - 1 >= Len(s.type) \/ f.type # "none" THEN NULL
                                 ELSE [f EXCEPT !.type = "struct", !.st = value \div 2 - 1]
      [] tag = 3 /\ value # 0 -> [f EXCEPT !.tag = value \div 2 - 1]
      [] tag = 4 /\ value # 0 -> [f EXCEPT !.array = value \div 2 - 1 # 0]
      [] tag = 5 /\ value # 0 -> [f EXCEPT !.key = value \div 2 - 1]
      [] OTHER -> NULL
RECURSIVE FieldRecords(_, _, _, _, _)
FieldRecords(s, f, rd, i, tag) ==
    IF f = NULL \/ i > Len(rd[1]) THEN f
    ELSE IF rd[1][i] % 2 = 1 THEN FieldRecords(s, f, rd, i + 1, tag + 1 + rd[1][i] \div 2)
    ELSE FieldRecords(s, FieldRecord(s, f, tag, rd[1][i], rd[2]), rd, i + 1, tag + 1)
WholeField(f) == IF f = NULL THEN f ELSE IF f.tag < 0 \/ f.type = "none" \/ f.name = NoName THEN NULL ELSE f
FieldOf(s, rd) == IF rd[1] = NoName THEN NULL ELSE WholeField(FieldRecords(s, NoField, rd, 1, 0))
import_field(s, bytes) == FieldOf(s, struct_field(bytes))

\* The fields of a type: the gaps between their tags are the records that a
\* header may need beyond one per field
Gaps(f) == Cardinality({i \in DOMAIN f : f[i].tag > IF i = 1 THEN 0 ELSE f[i - 1].tag + 1})
TypeOf(name, f) ==
    [name |-> name, n |-> Len(f), f |-> f, maxn |-> Len(f) + Gaps(f),
     base |-> IF f[Len(f)].tag - f[1].tag + 1 = Len(f) THEN f[1].tag ELSE -1]
EmptyType(name) == [name |-> name, n |-> 0, f |-> <<>>, maxn |-> 0, base |-> 0]
WholeType(name, f) ==
    IF \E i \in DOMAIN f : f[i] = NULL THEN NULL
    ELSE IF \E i \in 2..Len(f) : f[i].tag <= f[i - 1].tag THEN NULL
    ELSE TypeOf(name, f)
FieldsOf(s, name, items) ==
    IF items = NoData THEN NULL ELSE WholeType(name, [i \in DOMAIN items |-> import_field(s, items[i])])
TypeRecords(s, rd) ==
    IF rd[1] = NoName THEN NULL
    ELSE IF Len(rd[1]) \notin 1..2 \/ \E i \in DOMAIN rd[1] : rd[1][i] # 0 THEN NULL
    ELSE IF Len(rd[1]) = 1 THEN EmptyType(import_string(rd[2][1]))
    ELSE FieldsOf(s, import_string(rd[2][1]), count_array(rd[2][2]))
import_type(s, bytes) == TypeRecords(s, struct_field(bytes))

\* A record is told by its place, not by its tag: a skipped tag takes a record
ProtocolRecord(s, p, i, value, data) ==
    CASE i = 1 -> IF value # 0 THEN NULL ELSE [p EXCEPT !.name = import_string(data[1])]
      [] i = 2 -> IF value = 0 THEN NULL ELSE [p EXCEPT !.tag = value \div 2 - 1]
      [] i = 3 -> IF value \div 2 - 1 \notin 0..Len(s.type) - 1 THEN NULL
                  ELSE [p EXCEPT !.request = value \div 2 - 1]
      [] i = 4 -> IF value \div 2 - 1 \notin 0..Len(s.type) - 1 THEN NULL
                  ELSE [p EXCEPT !.response = value \div 2 - 1]
      [] OTHER -> NULL
RECURSIVE ProtocolRecords(_, _, _, _)
ProtocolRecords(s, p, rd, i) ==
    IF p = NULL \/ i > Len(rd[1]) THEN p
    ELSE IF rd[1][i] % 2 = 1 THEN ProtocolRecords(s, p, rd, i + 1)
    ELSE ProtocolRecords(s, ProtocolRecord(s, p, i, rd[1][i], rd[2]), rd, i + 1)
import_protocol(s, bytes) ==
    LET p == ProtocolRecords(s, [name |-> NoName, tag |-> -1, request |-> -1, response |-> -1],
                             struct_field(bytes), 1)
    IN  IF p = NULL THEN NULL ELSE IF p.name = NoName \/ p.tag < 0 THEN NULL ELSE p

ImportAll(s, types, protos) ==
    [type |-> [i \in DOMAIN types |-> import_type(s, types[i])],
     proto |-> [i \in DOMAIN protos |-> import_protocol(s, protos[i])]]
Whole(s) == IF NULL \in Range(s.type) \union Range(s.proto) THEN NULL ELSE s
Arrays(types, protos) ==
    IF types = NoData \/ protos = NoData THEN NULL ELSE Whole(ImportAll([type |-> types], types, protos))
Bundle(rd) ==
    IF rd[1] = NoName THEN NULL
    ELSE IF Len(rd[1]) > 2 \/ \E i \in DOMAIN rd[1] : rd[1][i] # 0 THEN NULL
    ELSE Arrays(count_array(rd[2][1]), IF Len(rd[2]) = 1 THEN <<>> ELSE count_array(rd[2][2]))
create_from_bundle(bytes) == Bundle(struct_field(bytes))

\* query_proto and findtag: a search by halves; the tags are in ascending order
RECURSIVE Halves(_, _, _, _)
Halves(items, tag, begin, end) ==
    IF begin >= end THEN NULL
    ELSE LET mid == (begin + end) \div 2 IN
         IF items[mid + 1].tag = tag THEN items[mid + 1]
         ELSE IF tag > items[mid + 1].tag THEN Halves(items, tag, mid + 1, end)
         ELSE Halves(items, tag, begin, mid)
query_proto(s, tag) == Halves(s.proto, tag, 0, Len(s.proto))
sproto_prototag(s, name) ==
    IF \E p \in Range(s.proto) : p.name = name THEN (CHOOSE p \in Range(s.proto) : p.name = name).tag ELSE -1
findtag(st, tag) ==
    IF st.base >= 0
    THEN IF tag - st.base \notin 0..st.n - 1 THEN NULL ELSE st.f[tag - st.base + 1]
    ELSE Halves(st.f, tag, 0, st.n)

-----------------------------------------------------------------------------
\* sproto_encode with lsproto.c's callback.  What a call returns: [sz, bytes],
\* where sz is 0 for a field that is left out, Full when the buffer is too
\* small, and Raised for a Lua error; value is what a record holds itself

Full == -1
Raised == -2
Put(bytes) == [sz |-> Len(bytes), value |-> 0, bytes |-> bytes]
Short(sz) == [sz |-> sz, value |-> 0, bytes |-> <<>>]
Is32(v) == v \in -(B^4 \div 2)..B^4 \div 2 - 1
Negative(dword) == dword[4] >= B \div 2
\* Mutant of uint32_to_uint64: a number that grows to 64 bits loses its sign
uint32_to_uint64Zero(negative) == [i \in 1..4 |-> 0]
uint32_to_uint64(negative) == [i \in 1..4 |-> IF negative THEN B - 1 ELSE 0]
Wide(dword) == dword \o uint32_to_uint64(Negative(dword))

\* A number of 32 bits whose value fits goes into the record
encode_integer(v, size) ==
    IF Is32(v) THEN IF v \in 0..B^2 \div 2 - 2 THEN [sz |-> 2, value |-> (v + 1) * 2, bytes |-> <<>>]
                    ELSE IF size < 8 THEN Short(Full) ELSE Put(packbytes(Digits(v, 4)))
    ELSE IF size < 12 THEN Short(Full) ELSE Put(packbytes(Digits(v, 8)))

\* The first number that needs 64 bits widens those before it
Rearrange(out) == FlattenSeq([i \in 1..Len(out) \div 4 |-> Wide(SubSeq(out, 4 * i - 3, 4 * i))])
RECURSIVE IntegerArray(_, _, _, _, _)
IntegerArray(vs, i, size, intlen, out) ==
    IF i > Len(vs) THEN IF out = <<>> THEN Put(Dword(0)) ELSE Put(packbytes(<<intlen>> \o out))
    ELSE IF size < 8 THEN Short(Full)
    ELSE IF Is32(vs[i][2])
    THEN IntegerArray(vs, i + 1, size - intlen, intlen,
                      out \o IF intlen = 8 THEN Wide(Digits(vs[i][2], 4)) ELSE Digits(vs[i][2], 4))
    ELSE IF intlen = 8 THEN IntegerArray(vs, i + 1, size - 8, 8, out \o Digits(vs[i][2], 8))
    ELSE IF size - (i - 1) * 4 < 8 THEN Short(Full)
    ELSE IntegerArray(vs, i + 1, size - (i - 1) * 4 - 8, 8, Rearrange(out) \o Digits(vs[i][2], 8))
encode_integer_array(vs, size) == IF size < 1 THEN Short(Full) ELSE IntegerArray(vs, 1, size - 1, 4, <<>>)

encode_boolean_array(vs, size) ==
    IF Len(vs) > size THEN Short(Full)
    ELSE Put(packbytes([i \in DOMAIN vs |-> IF vs[i][2] THEN 1 ELSE 0]))

\* The callback for a string or a struct
RECURSIVE sproto_encode(_, _, _, _, _)
encode(s, f, v, length, deep) ==
    IF deep >= ENCODE_DEEPLEVEL THEN Short(Raised)
    ELSE IF f.type = "string" THEN IF Len(v[2]) > length THEN Short(Full) ELSE Put(v[2])
    ELSE sproto_encode(s, s.type[f.st + 1], v[2], length, deep + 1)
encode_object(s, f, v, size, deep) ==
    IF size < SIZEOF_LENGTH THEN Short(Full)
    ELSE LET r == encode(s, f, v, size - SIZEOF_LENGTH, deep) IN
         IF r.sz < 0 THEN r ELSE Put(packbytes(r.bytes))

RECURSIVE ObjectArray(_, _, _, _, _, _)
ObjectArray(s, f, vs, size, out, deep) ==
    IF size < SIZEOF_LENGTH THEN Short(Full)
    ELSE IF vs = <<>> THEN Put(packbytes(out))
    ELSE LET r == encode(s, f, Head(vs), size - SIZEOF_LENGTH, deep) IN
         IF r.sz < 0 THEN r
         ELSE ObjectArray(s, f, Tail(vs), size - SIZEOF_LENGTH - r.sz, out \o packbytes(r.bytes), deep)

\* The elements of an array; those of a map come in the order of lua_next
Elements(f, v) == IF f.key >= 0 THEN SetToSeq({p[2] : p \in v[2]}) ELSE v[2]
encode_array(s, f, v, size, deep) ==
    IF size < SIZEOF_LENGTH THEN Short(Full)
    ELSE IF deep >= ENCODE_DEEPLEVEL THEN Short(Raised)
    ELSE IF v = LuaNil THEN Short(0)
    ELSE CASE f.type = "integer" -> encode_integer_array(Elements(f, v), size - SIZEOF_LENGTH)
           [] f.type = "boolean" -> encode_boolean_array(Elements(f, v), size - SIZEOF_LENGTH)
           [] OTHER -> ObjectArray(s, f, Elements(f, v), size - SIZEOF_LENGTH, <<>>, deep)
EncodeField(s, f, v, size, deep) ==
    IF f.array THEN encode_array(s, f, v, size, deep)
    ELSE IF deep >= ENCODE_DEEPLEVEL THEN Short(Raised)
    ELSE IF v = LuaNil THEN Short(0)
    ELSE CASE f.type = "integer" -> encode_integer(v[2], size)
           [] f.type = "boolean" -> encode_integer(IF v[2] THEN 1 ELSE 0, size)
           [] OTHER -> encode_object(s, f, v, size, deep)

\* The records, where a field says how many tags it skips, and the data
AddField(acc, f, r) ==
    LET skip == f.tag - acc.last - 1
        skipped == IF skip > 0 THEN <<(skip - 1) * 2 + 1>> ELSE <<>>
    IN  [sz |-> acc.sz - Len(r.bytes), last |-> f.tag,
         recs |-> acc.recs \o skipped \o <<r.value>>, data |-> acc.data \o r.bytes]
RECURSIVE EncodeFields(_, _, _, _, _, _)
EncodeFields(s, st, obj, i, acc, deep) ==
    IF i > st.n
    THEN [sz |-> SIZEOF_HEADER + SIZEOF_FIELD * Len(acc.recs) + Len(acc.data), value |-> Len(acc.recs),
          bytes |-> Word(Len(acc.recs)) \o FlattenSeq([k \in DOMAIN acc.recs |-> Word(acc.recs[k])]) \o acc.data]
    ELSE LET r == EncodeField(s, st.f[i], getfield(obj, st.f[i].name), acc.sz, deep) IN
         IF r.sz < 0 THEN r
         ELSE EncodeFields(s, st, obj, i + 1, IF r.sz = 0 THEN acc ELSE AddField(acc, st.f[i], r), deep)
sproto_encode(s, st, obj, size, deep) ==
    IF size < SIZEOF_HEADER + SIZEOF_FIELD * st.maxn THEN Short(Full)
    ELSE EncodeFields(s, st, obj, 1,
             [sz |-> size - SIZEOF_HEADER - SIZEOF_FIELD * st.maxn, last |-> -1, recs |-> <<>>, data |-> <<>>], deep)

-----------------------------------------------------------------------------
\* sproto_decode with lsproto.c's callback: [r, obj, key], where r is the
\* number of bytes read, Full for an invalid stream and Raised for a Lua error

expand64(dword) == Signed(dword)
Decoded(r, obj, key) == [r |-> r, obj |-> obj, key |-> key]
DecodeFailed(r) == Decoded(r, {}, LuaNil)
\* An element of an array or a map, and a field, once decoded
Elem(v) == [r |-> 0, v |-> v]
NoElem(r) == [r |-> r, v |-> LuaNil]

RECURSIVE sproto_decode(_, _, _, _, _)
\* A struct of a map is put under its main key, which it must have
MapElem(d) == IF d.key = LuaNil THEN NoElem(Raised) ELSE Elem(<<d.key, <<"struct", d.obj>>>>)
decode(s, f, bytes, deep) ==
    IF deep >= ENCODE_DEEPLEVEL THEN NoElem(Raised)
    ELSE IF f.type = "string" THEN Elem(<<"str", bytes>>)
    ELSE LET d == sproto_decode(s, s.type[f.st + 1], bytes, f.key, deep + 1) IN
         IF d.r < 0 THEN NoElem(d.r)
         ELSE IF d.r # Len(bytes) THEN NoElem(Full)
         ELSE IF f.key >= 0 THEN MapElem(d) ELSE Elem(<<"struct", d.obj>>)

RECURSIVE decode_array_object(_, _, _, _, _)
decode_array_object(s, f, bytes, acc, deep) ==
    IF bytes = <<>> THEN Elem(acc)
    ELSE IF Len(bytes) < SIZEOF_LENGTH THEN NoElem(Full)
    ELSE IF todword(bytes, 1) > Len(bytes) - SIZEOF_LENGTH THEN NoElem(Full)
    ELSE LET n == todword(bytes, 1)
             e == decode(s, f, SubSeq(bytes, SIZEOF_LENGTH + 1, SIZEOF_LENGTH + n), deep)
         IN  IF e.r < 0 THEN NoElem(e.r)
             ELSE decode_array_object(s, f, SubSeq(bytes, SIZEOF_LENGTH + n + 1, Len(bytes)), Append(acc, e.v), deep)
\* What the elements make: a map keeps the last struct of a key
AsTable(f, elems) ==
    IF f.key < 0 THEN <<"arr", elems>>
    ELSE <<"map", {elems[i] : i \in {j \in DOMAIN elems : \A k \in j + 1..Len(elems) : elems[k][1] # elems[j][1]}}>>
Numbers(bytes, w) == [i \in 1..Len(bytes) \div w |-> <<"int", Signed(SubSeq(bytes, w * (i - 1) + 1, w * i))>>]
decode_array(s, f, bytes, deep) ==
    IF deep >= ENCODE_DEEPLEVEL THEN NoElem(Raised)
    ELSE IF bytes = <<>> THEN Elem(AsTable(f, <<>>))
    ELSE CASE f.type = "integer" ->
                IF Head(bytes) \notin {4, 8} THEN NoElem(Full)
                ELSE IF (Len(bytes) - 1) % Head(bytes) # 0 THEN NoElem(Full)
                ELSE Elem(AsTable(f, Numbers(Tail(bytes), Head(bytes))))
           [] f.type = "boolean" -> Elem(AsTable(f, [i \in DOMAIN bytes |-> <<"bool", bytes[i] # 0>>]))
           [] OTHER -> LET e == decode_array_object(s, f, bytes, <<>>, deep) IN
                       IF e.r < 0 THEN e ELSE Elem(AsTable(f, e.v))

\* A field whose record refers to data, and one whose record is its value
FieldData(s, f, bytes, deep) ==
    IF f.array THEN decode_array(s, f, bytes, deep)
    ELSE IF deep >= ENCODE_DEEPLEVEL THEN NoElem(Raised)
    ELSE CASE f.type = "integer" -> IF Len(bytes) \notin {4, 8} THEN NoElem(Full) ELSE Elem(<<"int", Signed(bytes)>>)
           [] f.type = "boolean" -> NoElem(Full)
           [] OTHER -> decode(s, f, bytes, deep)
FieldValue(f, value, deep) ==
    IF f.array \/ f.type \notin {"integer", "boolean"} THEN NoElem(Full)
    ELSE IF deep >= ENCODE_DEEPLEVEL THEN NoElem(Raised)
    ELSE Elem(IF f.type = "integer" THEN <<"int", value>> ELSE <<"bool", value # 0>>)
\* The struct so far, with the field, if the type has the tag
Keep(acc, f, e, main) ==
    IF e.r < 0 THEN [acc EXCEPT !.r = e.r]
    ELSE [acc EXCEPT !.obj = setfield(@, f.name, e.v), !.key = IF f.tag = main /\ ~f.array THEN e.v ELSE @]
DecodeField(s, st, acc, value, bytes, main, deep) ==
    LET f == findtag(st, acc.tag) IN
    IF f = NULL THEN acc
    ELSE Keep(acc, f, IF value < 0 THEN FieldData(s, f, bytes, deep) ELSE FieldValue(f, value, deep), main)
RECURSIVE DecodeFields(_, _, _, _, _, _, _)
DecodeFields(s, st, b, i, acc, main, deep) ==
    IF acc.r < 0 THEN DecodeFailed(acc.r)
    ELSE IF i > toword(b, 1) THEN Decoded(acc.at - 1, acc.obj, acc.key)
    ELSE LET rec == toword(b, SIZEOF_HEADER + 1 + SIZEOF_FIELD * (i - 1))
             room == Len(b) - acc.at + 1
             n == IF room < SIZEOF_LENGTH THEN 0 ELSE todword(b, acc.at)
         IN  IF rec % 2 = 1 THEN DecodeFields(s, st, b, i + 1, [acc EXCEPT !.tag = @ + rec \div 2 + 1], main, deep)
             ELSE IF rec # 0 THEN DecodeFields(s, st, b, i + 1,
                      [DecodeField(s, st, acc, rec \div 2 - 1, <<>>, main, deep) EXCEPT !.tag = @ + 1], main, deep)
             ELSE IF room < SIZEOF_LENGTH \/ room < n + SIZEOF_LENGTH THEN DecodeFailed(Full)
             ELSE DecodeFields(s, st, b, i + 1,
                      [DecodeField(s, st, acc, -1, SubSeq(b, acc.at + SIZEOF_LENGTH, acc.at + SIZEOF_LENGTH + n - 1),
                                   main, deep) EXCEPT !.tag = @ + 1, !.at = @ + SIZEOF_LENGTH + n], main, deep)
sproto_decode(s, st, b, main, deep) ==
    IF Len(b) < SIZEOF_HEADER THEN DecodeFailed(Full)
    ELSE IF Len(b) - SIZEOF_HEADER < SIZEOF_FIELD * toword(b, 1) THEN DecodeFailed(Full)
    ELSE DecodeFields(s, st, b, 1, [r |-> 0, tag |-> 0, at |-> SIZEOF_HEADER + SIZEOF_FIELD * toword(b, 1) + 1,
                                    obj |-> {}, key |-> LuaNil], main, deep)

-----------------------------------------------------------------------------
\* sproto_pack and sproto_unpack, into a buffer whose bytes are stale at first

Blank(n) == [i \in 1..n |-> Stale]
\* Bytes that do not fit are not written
WriteAt(out, at, bytes) ==
    [i \in DOMAIN out |-> IF i \in at..at + Len(bytes) - 1 THEN bytes[i - at + 1] ELSE out[i]]
Fits(bytes, room) == SubSeq(bytes, 1, IF room < 0 THEN 0 ELSE IF room < Len(bytes) THEN room ELSE Len(bytes))
Padded(bytes, n) == bytes \o [i \in 1..n - Len(bytes) |-> 0]
Mask(seg) == SumSet({2^(i - 1) : i \in {j \in DOMAIN seg : seg[j] # 0}})
NotZero(seg) == SelectSeq(seg, LAMBDA x : x # 0)

\* What a segment takes in the output, once n segments of a run came before it
SegSize(seg, n) ==
    LET k == Len(NotZero(seg)) IN
    IF n > 0 /\ k >= SEG - 2 THEN SEG ELSE IF k = SEG THEN SEG + 2 ELSE k + 1
pack_seg(p, seg) ==
    LET room == p.bufsz - 1
        body == WriteAt(p.out, p.size + 2, Fits(NotZero(seg), room))
    IN  IF room < 0 \/ SegSize(seg, p.n) >= IF p.n > 0 THEN SEG ELSE SEG + 2 THEN body
        ELSE WriteAt(body, p.size + 1, <<Mask(seg)>>)
write_ff(out, at, bytes) ==
    LET n == (Len(bytes) + SEG - 1) \div SEG IN
    WriteAt(out, at, <<2^SEG - 1, n - 1>> \o Padded(bytes, n * SEG))
\* A run that ends is written where it started.  When the padded segment fills
\* the run, the bytes after the source are written for its padding: the zero
\* that ends a Lua string and whatever follows it
Flush(p, src, last) ==
    IF p.n = 0 \/ p.bufsz < 0 THEN p.out
    ELSE write_ff(p.out, p.des, SubSeq(src \o <<0, Stale>>, p.src, IF last THEN Len(src) ELSE p.src + p.n * SEG - 1))
Segment(src, i) == Padded(SubSeq(src, i, IF i + SEG - 1 > Len(src) THEN Len(src) ELSE i + SEG - 1), SEG)
\* One segment, of size k in the output
Packed(p, src, i, k) ==
    LET q == [p EXCEPT !.out = pack_seg(p, Segment(src, i)), !.bufsz = @ - k, !.size = @ + k] IN
    IF k = SEG + 2 THEN [q EXCEPT !.n = 1, !.src = i, !.des = p.size + 1]
    ELSE IF k = SEG /\ p.n > 0
    THEN IF p.n + 1 = RUN THEN [q EXCEPT !.out = Flush([q EXCEPT !.n = RUN], src, FALSE), !.n = 0]
         ELSE [q EXCEPT !.n = p.n + 1]
    ELSE [q EXCEPT !.out = Flush(q, src, FALSE), !.n = 0]
RECURSIVE PackFrom(_, _, _)
PackFrom(p, src, i) ==
    IF i > Len(src) THEN [p EXCEPT !.out = IF p.n = 1 THEN Flush(p, src, FALSE) ELSE Flush(p, src, TRUE)]
    ELSE PackFrom(Packed(p, src, i, SegSize(Segment(src, i), p.n)), src, i + SEG)
sproto_pack(src, bufsz) ==
    PackFrom([out |-> Blank(bufsz), bufsz |-> bufsz, size |-> 0, n |-> 0, src |-> 0, des |-> 0], src, 1)

\* The bytes of a segment from its mask; a stream that lacks its last byte is
\* not refused: the byte read is the zero that ends a Lua string
Bits(mask) == {i \in 1..SEG : (mask \div 2^(i - 1)) % 2 = 1}
Spread(mask, data) ==
    [i \in 1..SEG |-> IF i \in Bits(mask) THEN data[Cardinality({j \in Bits(mask) : j <= i})] ELSE 0]
RECURSIVE UnpackFrom(_, _, _)
UnpackFrom(u, src, i) ==
    IF i > Len(src) THEN u
    ELSE LET ones == Cardinality(Bits(src[i]))
             n == IF i = Len(src) THEN SEG ELSE (src[i + 1] + 1) * SEG
             seg == Spread(src[i], SubSeq(Append(src, 0), i + 1, i + ones))
         IN  IF src[i] = 2^SEG - 1
             THEN IF Len(src) - i < n + 1 THEN [u EXCEPT !.size = Full]
                  ELSE UnpackFrom([out |-> IF u.bufsz >= n THEN WriteAt(u.out, u.size + 1, SubSeq(src, i + 2, i + 1 + n))
                                           ELSE u.out, bufsz |-> u.bufsz - n, size |-> u.size + n], src, i + n + 2)
             ELSE IF Len(src) - i < ones - 1 THEN [u EXCEPT !.size = Full]
             ELSE UnpackFrom([out |-> WriteAt(u.out, u.size + 1, Fits(seg, u.bufsz)),
                              bufsz |-> IF u.bufsz <= 0 THEN u.bufsz ELSE IF u.bufsz < SEG THEN 0 ELSE u.bufsz - SEG,
                              size |-> u.size + SEG], src, i + ones + 1)
sproto_unpack(src, bufsz) == UnpackFrom([out |-> Blank(bufsz), bufsz |-> bufsz, size |-> 0], src, 1)

-----------------------------------------------------------------------------
\* lsproto.c: the calls of a service on one message, whose buffers stay with
\* the functions from call to call

RECURSIVE Doubled(_, _)
Doubled(osz, nsz) == IF 2 * osz < nsz THEN Doubled(2 * osz, nsz) ELSE 2 * osz
BitStrings == UNION {[1..n -> {0, 1}] : n \in PackBits}
InObjects == {<<"object", o[1], o[2]>> : o \in Objects}
InBits == {<<"bytes", b>> : b \in BitStrings}

spInit ==
    /\ schema = create_from_bundle(packgroup(Schema))
    /\ spIn \in InObjects \union InBits
    /\ spStage = IF spIn[1] = "object" THEN "encode" ELSE "pack"
    /\ spWire = IF spIn[1] = "object" THEN <<>> ELSE spIn[2]
    /\ spOut = {}
    /\ spBuf = [f \in {"encode", "pack", "unpack"} |-> ENCODE_BUFFERSIZE]
\* lencode: a call of sproto_encode, that is made again with twice the buffer
spEncode ==
    /\ spStage = "encode"
    /\ LET r == sproto_encode(schema, schema.type[spIn[2]], spIn[3], spBuf["encode"], 0) IN
       \/ r.sz >= 0 /\ spStage' = "pack" /\ spWire' = r.bytes /\ UNCHANGED spBuf
       \/ /\ r.sz = Full /\ Doubled(spBuf["encode"], spBuf["encode"] * 2) <= ENCODE_MAXSIZE
          /\ spBuf' = [spBuf EXCEPT !["encode"] = Doubled(@, @ * 2)] /\ UNCHANGED <<spStage, spWire>>
       \/ /\ r.sz = Full => Doubled(spBuf["encode"], spBuf["encode"] * 2) > ENCODE_MAXSIZE
          /\ r.sz < 0
          /\ spStage' = "raised" /\ UNCHANGED <<spBuf, spWire>>
    /\ UNCHANGED <<schema, spIn, spOut>>
maxsz(n) == ((n + SEG * RUN - 1) \div (SEG * RUN)) * 2 + n + 2
Grown(osz, need) == IF osz < need THEN Doubled(osz, need) ELSE osz
spPack ==
    /\ spStage = "pack"
    /\ LET need == maxsz(Len(spWire))
           p == sproto_pack(spWire, need)
       IN  IF Grown(spBuf["pack"], need) > ENCODE_MAXSIZE \/ p.size > need
           THEN spStage' = "raised" /\ UNCHANGED <<spWire, spBuf>>
           ELSE /\ spStage' = "unpack" /\ spWire' = SubSeq(p.out, 1, p.size)
                /\ spBuf' = [spBuf EXCEPT !["pack"] = Grown(@, need)]
    /\ UNCHANGED <<schema, spIn, spOut>>
\* lunpack: when the bytes do not fit, it unpacks again into a larger buffer
spUnpack ==
    /\ spStage = "unpack"
    /\ LET osz == spBuf["unpack"]
           u == sproto_unpack(spWire, osz)
           v == IF u.size > osz THEN sproto_unpack(spWire, u.size) ELSE u
       IN  IF u.size < 0 \/ Grown(osz, u.size) > ENCODE_MAXSIZE
           THEN spStage' = "raised" /\ UNCHANGED <<spWire, spBuf>>
           ELSE /\ spStage' = IF spIn[1] = "object" THEN "decode" ELSE "done"
                /\ spWire' = SubSeq(v.out, 1, v.size)
                /\ spBuf' = [spBuf EXCEPT !["unpack"] = Grown(@, u.size)]
    /\ UNCHANGED <<schema, spIn, spOut>>
\* ldecode, by a service with its own version of the type
spDecode(t) ==
    /\ spStage = "decode" /\ t \in Reader[spIn[2]]
    /\ LET d == sproto_decode(schema, schema.type[t], spWire, -1, 0) IN
       IF d.r < 0 THEN spStage' = "raised" /\ UNCHANGED <<spOut, spWire>>
       ELSE spStage' = "done" /\ spOut' = d.obj /\ spWire' = <<t, d.r>>
    /\ UNCHANGED <<schema, spIn, spBuf>>
\* The next message of the service, over the buffers the last one left
spNext(o) ==
    /\ spStage \in {"done", "raised"} /\ spIn[1] = "object"
    /\ spIn' = <<"object", o[1], o[2]>> /\ spStage' = "encode" /\ spWire' = <<>> /\ spOut' = {} /\ UNCHANGED <<schema, spBuf>>
spStep == spEncode \/ spPack \/ spUnpack \/ (\E t \in 1..Len(Schema.type) : spDecode(t)) \/ \E o \in NextObjects : spNext(o)

\* The memory of a schema: chunks, the newest first, and what was handed out
RoundUp(sz) == ((sz + 7) \div 8) * 8
PoolInit == pool = [chunks |-> <<>>, current |-> 0, used |-> 0, given |-> <<>>]
Give(p, c, at, sz) == [p EXCEPT !.given = Append(@, <<c, at, sz>>)]
NewChunk(p, sz) == [p EXCEPT !.chunks = Append(@, sz)]
OwnChunk(p, sz) == Give(NewChunk(p, sz), Len(p.chunks) + 1, 0, sz)
InCurrent(p, sz) == Give([p EXCEPT !.used = @ + sz], p.current, p.used, sz)
WithChunk(p) == IF p.current # 0 THEN p ELSE [NewChunk(p, CHUNK_SIZE) EXCEPT !.current = Len(p.chunks) + 1]
pool_alloc(p, sz) ==
    IF sz >= CHUNK_SIZE THEN OwnChunk(p, sz)
    ELSE LET q == WithChunk(p) IN
         IF sz + q.used <= CHUNK_SIZE THEN InCurrent(q, sz)
         ELSE IF sz >= q.used THEN OwnChunk(q, sz)
         ELSE InCurrent([NewChunk(q, CHUNK_SIZE) EXCEPT !.current = Len(q.chunks) + 1, !.used = 0], sz)
PoolAlloc(sz) == Len(pool.given) < PoolCalls /\ pool' = pool_alloc(pool, RoundUp(sz))
PoolNext == \E sz \in PoolSizes : PoolAlloc(sz)

-----------------------------------------------------------------------------
\* The types with what the loader works out, and the object a reader should get
Ascending(f) == \A i, j \in DOMAIN f : i < j => f[i].tag < f[j].tag
Known(obj, writer, reader) ==
    {<<rf.name, getfield(obj, wf.name)>> : <<wf, rf>> \in
        {p \in Range(writer.f) \X Range(reader.f) : p[1].tag = p[2].tag /\ getfield(obj, p[1].name) # LuaNil}}
RECURSIVE Depth(_)
Depth(v) ==
    CASE v[1] = "struct" -> 1 + Max({0} \union {Depth(p[2]) : p \in v[2]})
      [] v[1] = "arr" -> Max({0} \union {Depth(v[2][i]) : i \in DOMAIN v[2]})
      [] v[1] = "map" -> Max({0} \union {Depth(p[2]) : p \in v[2]})
      [] OTHER -> 0

\* A schema is read back as it was written, and its searches find every tag
SchemaKept ==
    /\ schema # NULL
    /\ Len(schema.type) = Len(Schema.type) /\ schema.proto = Schema.proto
    /\ \A i \in DOMAIN Schema.type : LET t == schema.type[i] IN
          /\ t.name = Schema.type[i].name /\ t.f = Schema.type[i].f /\ Ascending(t.f)
          /\ \A tag \in 0..Max({0} \union {f.tag : f \in Range(t.f)}) + 1 :
                findtag(t, tag) = IF \E f \in Range(t.f) : f.tag = tag
                                  THEN CHOOSE f \in Range(t.f) : f.tag = tag ELSE NULL
    /\ \A p \in Range(Schema.proto) :
          query_proto(schema, p.tag) = p /\ sproto_prototag(schema, p.name) = p.tag
    /\ \A tag \in 0..9 : (\A p \in Range(Schema.proto) : p.tag # tag) => query_proto(schema, tag) = NULL

\* A message that went through all the calls is the one that was sent, as far
\* as the reader knows its fields; none of its bytes is left from another
\* message, its header never runs into its data, and only an object that is
\* nested too deep, or too large, is refused
MessageKept ==
    /\ spStage = "pack" => Stale \notin Range(spWire)
    /\ spStage = "pack" /\ spIn[1] = "object" => toword(spWire, 1) <= schema.type[spIn[2]].maxn
    /\ spStage = "done" /\ spIn[1] = "object" =>
          spOut = Known(spIn[3], Schema.type[spIn[2]], Schema.type[spWire[1]])
    /\ spStage = "done" /\ spIn[1] = "bytes" =>
          SubSeq(spWire, 1, Len(spIn[2])) = spIn[2]
    /\ spStage = "raised" => /\ spIn[1] = "object"
                             /\ Depth(<<"struct", spIn[3]>>) > ENCODE_DEEPLEVEL \/ spBuf["encode"] * 2 > ENCODE_MAXSIZE

\* What the pool handed out lies within a chunk and never overlaps
PoolKept ==
    /\ \A i \in DOMAIN pool.given : LET g == pool.given[i] IN g[2] + g[3] <= pool.chunks[g[1]]
    /\ \A i, j \in DOMAIN pool.given : LET g == pool.given[i] h == pool.given[j] IN
          i < j /\ g[1] = h[1] => g[2] + g[3] <= h[2] \/ h[2] + h[3] <= g[2]
=============================================================================
