------------------------------- MODULE MCAlgo -------------------------------
(***************************************************************************)
(* Algorithms for TLC, each on its own: a behaviour runs the one that part *)
(* names, and the others stay as they start.                               *)
(***************************************************************************)
EXTENDS HuCheck, ScoreManager, LPeg, Serial

VARIABLE part

codecVars == <<spVars, pool, seri, clu, doc, crypt>>
allVars == <<hand, scoreVars, pegVars, codecVars, part>>

\* The scores: three games of a room (GameTimes is 4), in which the first two
\* players lay at most MaxMelds groups of the first game and win in the ways
\* of Wins.  Two faces; clients report in seat order.
MaxMelds == 2
MaxScore == 16   \* bounds the Pao, which leave no record
MeldFaces == {f \in Face : f[1] = 2}
MeldRules == {"Peng", "Kan", "Pao_peng", "Pao_kan", "Ti_zimo"}

\* Type, rule, turns and, as seats after the winner or NoSite, who pays and
\* who discarded
Wins == {<<"pinghu", "None", 2, 2, 2>>, <<"pinghu", "Peng", 2, 1, 1>>,
         <<"pinghu", "Ti", 0, 0, 0>>, <<"pinghu", "Chi", 1, 3, 3>>,
         <<"sandalianhu", "Wei", 2, 0, 0>>, <<"wufu", "Pao_kan", 2, 3, 3>>,
         <<"siqinglianhu", "Pao_peng", 2, 1, 1>>, <<"shuanglong", "Ti", 0, 0, 0>>,
         <<"hongzhuang", "Wei", 2, 0, 0>>}
LaterWins == {<<"pinghu", "None", 2, 2, 2>>, <<"hongzhuang", "None", 2, 0, 0>>,
              <<"sandalianhu", "Wei", 2, 0, 0>>}

Laid == rec[1].threes + rec[2].threes
          + rec[1].quads["Ti_zimo"] + rec[2].quads["Ti_zimo"]
Seat(p, n) == IF n = 0 THEN NoSite ELSE turnSite(p, n)

MCMeld(p) ==
    /\ phase = "playing" /\ started = Site
    /\ results = <<>> /\ Laid < MaxMelds
    /\ \E rule \in MeldRules, face \in MeldFaces, n \in {0, 1} : payscore(p, rule, face, Seat(p, n))
    /\ \A i \in Site : score'[i] \in -MaxScore..MaxScore
    /\ UNCHANGED <<results, zhuang, started, phase>>

MCHu(p) ==
    /\ phase = "playing" /\ started = Site
    /\ \E w \in IF results = <<>> THEN Wins ELSE LaterWins :
         settle(w[1], w[2], p, Seat(p, w[4]), Seat(p, w[5]), zhuang, w[3])

MCNext ==
    \/ newGame
    \/ started # Site /\ playerStartGame(Cardinality(started) + 1)
    \/ \E p \in {1, 2} : MCMeld(p) \/ MCHu(p)
    \/ phase = "finish" /\ UNCHANGED scoreVars

MCLetters == <<"a", "b", "c">>
MCSubjects == {<<"a", "b">>, <<"a", "a", "b", "c">>}

\* Schemas, messages and documents for the codecs
SpField(tag, type, name) == [tag |-> tag, type |-> type, array |-> FALSE, name |-> <<name>>, st |-> -1, key |-> -1]
SpStruct(tag, st, name) == [SpField(tag, "struct", name) EXCEPT !.st = st]
SpArray(f) == [f EXCEPT !.array = TRUE]
SpKeyed(f, k) == [SpArray(f) EXCEPT !.key = k]
MCSchema == [type |-> <<
    [name |-> <<1>>, f |-> <<SpField(0, "integer", 1), SpField(1, "string", 2)>>],
    [name |-> <<2>>, f |-> <<SpField(1, "integer", 1), SpArray(SpField(3, "integer", 2)), SpStruct(4, 0, 3),
        SpArray(SpField(5, "boolean", 4)),
                             SpArray(SpField(8, "string", 5)), SpArray(SpStruct(9, 0, 6)), SpKeyed(SpStruct(10, 0,
                                 7), 0), SpStruct(11, 1, 8), SpField(12, "boolean", 9)>>],
    [name |-> <<3>>, f |-> <<SpField(1, "integer", 1), SpArray(SpField(8, "string", 5)), SpKeyed(SpStruct(10, 0,
        6), 0)>>],
    [name |-> <<4>>, f |-> <<>>],
    [name |-> <<5>>, f |-> <<SpField(3, "integer", 1), SpStruct(4, 3, 2), SpStruct(5, 4, 3)>>]>>,
  proto |-> <<[name |-> <<1>>, tag |-> 1, request |-> 1, response |-> 0],
              [name |-> <<2>>, tag |-> 2, request |-> -1, response |-> 2],
              [name |-> <<3>>, tag |-> 4, request |-> 3, response |-> -1],
              [name |-> <<4>>, tag |-> 7, request |-> -1, response |-> -1]>>]
IntV(v) == <<"int", v>>
SpInts == {IntV(v) : v \in {0, 48, 49, -1, 4999, 5000, -5000, -5001}}
StrV(n) == <<"str", [i \in 1..n |-> i % 3]>>
SpLeaf(i, n) == <<"struct", {<<<<1>>, IntV(i)>>} \union IF n < 0 THEN {} ELSE {<<<<2>>, StrV(n)>>}>>
FieldChoices == [n \in 1..9 |->
   CASE n = 1 -> SpInts
     [] n = 2 -> {<<"arr", s>> : s \in {<<>>, <<IntV(-1)>>, <<IntV(7), IntV(-5000), IntV(5000), IntV(-2)>>,
         <<IntV(-5001), IntV(-3), IntV(3)>>}}
     [] n = 3 -> {SpLeaf(1, 3), SpLeaf(60, 0), <<"struct", {}>>}
     [] n = 4 -> {<<"arr", s>> : s \in {<<>>, <<<<"bool", TRUE>>, <<"bool", FALSE>>>>}}
     [] n = 5 -> {<<"arr", s>> : s \in {<<>>, <<StrV(0), StrV(9)>>, <<StrV(2)>>}}
     [] n = 6 -> {<<"arr", s>> : s \in {<<SpLeaf(1, -1), SpLeaf(1, 2), <<"struct", {}>>>>}}
     [] n = 7 -> {<<"map", s>> : s \in {{}, {<<IntV(0), SpLeaf(0, 1)>>, <<IntV(77), SpLeaf(77, -1)>>}}}
     [] n = 8 -> {<<"struct", {<<<<1>>, IntV(5)>>}>>, <<"struct", {<<<<8>>, <<"struct", {<<<<9>>, <<"bool",
         TRUE>>>>}>>>>}>>,
                  <<"struct", {<<<<8>>, <<"struct", {<<<<8>>, <<"struct", {<<<<8>>, <<"struct", {}>>>>}>>>>}>>>>}>>}
     [] n = 9 -> {<<"bool", TRUE>>, <<"bool", FALSE>>}]
TwoFields == {<<2, {<<<<n>>, v>>, <<<<m>>, w>>}>> : <<n, v, m, w>> \in UNION {{<<n, v, m, w>>
    : v \in FieldChoices[n], w \in FieldChoices[m]} : <<n, m>> \in {p \in (1..9) \X (1..9) : p[1] < p[2]}}}
AllFields == {<<2, {<<<<n>>, CHOOSE v \in FieldChoices[n] : TRUE>> : n \in 1..9}>>}
MCObjects == TwoFields \union AllFields \union {<<5, {<<<<2>>, <<"struct", {}>>>>, <<<<1>>, IntV(9)>>}>>, <<5,
    {<<<<3>>, <<"struct", {<<<<2>>, <<"struct", {}>>>>}>>>>}>>, <<4, {}>>}
MCNextObjects == AllFields \union {<<4, {}>>}
MCReader == <<{1}, {2, 3}, {2, 3}, {4}, {5}>>
TableV(pairs, n) == <<"table", pairs, n>>
ArrayV(vs) == TableV([i \in DOMAIN vs |-> <<IntV(i), vs[i]>>], Len(vs))
MCSingles == {LuaNil, <<"bool", TRUE>>, <<"bool", FALSE>>, <<"real", 7>>, <<"ptr", 12345>>, StrV(0), StrV(3),
    StrV(4), StrV(9), StrV(100)}
   \union {IntV(v) : v \in {0, 1, 9, 10, 99, 100, 4999, 5000, -1, -5000, -5001, 12345678}}
   \union {TableV(<<>>, 0), ArrayV(<<IntV(1), StrV(2)>>), ArrayV(<<IntV(1), StrV(2), IntV(3)>>),
       ArrayV([i \in 1..12 |-> IntV(i)]),
           TableV(<<<<IntV(1), IntV(5)>>, <<IntV(3), IntV(6)>>, <<StrV(1), IntV(9)>>>>, 3),
           TableV(<<<<StrV(1), TableV(<<>>, 0)>>, <<IntV(1), IntV(3)>>, <<IntV(7), <<"meta", <<<<StrV(2),
               StrV(3)>>>>>>>>>>, 1),
           ArrayV(<<ArrayV(<<IntV(3)>>)>>), ArrayV(<<ArrayV(<<TableV(<<>>, 0)>>)>>),
               ArrayV(<<ArrayV(<<ArrayV(<<IntV(3)>>)>>)>>)}
MCMessages == {<<>>} \union {<<a>> : a \in MCSingles} \union {<<a, b>> : a, b \in MCSingles}
Call(addr, n, ok, m) == [addr |-> addr, msg |-> [i \in 1..n |-> i], ok |-> ok, answer |-> [i \in 1..m |-> i]]
MCCalls == <<Call(IntV(3), 6, TRUE, 4), Call(<<"str", <<4, 4>>>>, 3, TRUE, 3), Call(IntV(5), 2, FALSE, 4)>>
FieldV(k, v) == <<<<"str", <<k>>>>, v>>
MCValues == <<IntV(5), IntV(5000), <<"real", 6>>, StrV(0), StrV(4), <<"bool", TRUE>>, ldate(-3), ltimestamp(2,
    9999), lregex(<<1, 2>>, <<>>),
   lregex(<<>>, <<3>>), lbinary(<<1, 0, 2>>), lobjectid([i \in 1..24 |-> HexChar(i % 16)]), <<"str", <<0,
       BSON_NULL>>>>, <<"str", <<0, BSON_MAXKEY>>>>,
   make_object(BSON_JSCODE, Digits(2, 4) \o <<1, 0>>), make_object(BSON_CODEWS, Digits(6, 4) \o <<1, 0>>),
       make_object(BSON_DBPOINTER, Digits(1, 4) \o [i \in 1..13 |-> 0]),
   ArrayV(<<IntV(1), StrV(1)>>), TableV(<<>>, 0), TableV(<<<<IntV(1), IntV(2)>>, <<<<"str", <<5>>>>, IntV(3)>>>>,
       1), TableV(<<<<IntV(-12), IntV(2)>>>>, 0),
   <<"len", <<<<IntV(1), IntV(2)>>>>, 1>>, <<"meta", <<<<StrV(1), StrV(2)>>>>>>, <<"doc", lencode(<<FieldV(1,
       IntV(3))>>).out>>,
   TableV(<<<<StrV(1), TableV(<<<<StrV(1), TableV(<<<<StrV(1), IntV(1)>>>>, 0)>>>>, 0)>>>>, 0),
       ArrayV([i \in 1..11 |-> IntV(i)]), LuaNil, make_object(77, <<1>>), make_object(BSON_DATE, <<1>>)>>
MCDocuments == {<<>>, <<<<LuaNil, IntV(1)>>>>} \union {<<FieldV(1, MCValues[i])>> : i \in DOMAIN MCValues}
   \union {<<FieldV(2, MCValues[i]), FieldV(1, MCValues[j])>> : i, j \in DOMAIN MCValues}
MCReplacement == {IntV(7), IntV(4999), IntV(5000), <<"bool", FALSE>>, ldate(77), <<"real", 3>>, ltimestamp(1, 1),
    LuaNil, lobjectid([i \in 1..24 |-> 48])}

PegIdle == pats = <<>> /\ calls = 0 /\ res = NoRes
spIdle == schema = NULL /\ spIn = <<>> /\ spStage = "idle" /\ spWire = <<>> /\ spOut = {} /\ spBuf = <<>>
SeriIdle == seri = [stage |-> "idle", in |-> <<>>, out |-> <<>>]
DocIdle == doc = [stage |-> "idle", in |-> <<>>, bytes |-> <<>>, want |-> {}, out |-> <<>>]
CryptIdle == crypt = [way |-> "none", stage |-> "idle", in |-> <<>>, out |-> <<>>]
AlgoInit ==
    /\ part \in {"hu", "score", "peg", "sproto", "pool", "seri", "cluster", "bson", "crypt"}
    /\ Init /\ ScoreInit /\ PoolInit
    /\ IF part = "peg" THEN PegInit ELSE PegIdle
    /\ IF part = "sproto" THEN spInit ELSE spIdle
    /\ IF part = "seri" THEN SeriInit ELSE SeriIdle
    /\ ClusterInit /\ (part # "cluster" => clu.session = 1)
    /\ IF part = "bson" THEN DocInit ELSE DocIdle
    /\ IF part = "crypt" THEN CryptInit ELSE CryptIdle

HuPart == part = "hu" /\ Next /\ UNCHANGED <<scoreVars, pegVars, codecVars>>
ScorePart == part = "score" /\ MCNext /\ UNCHANGED <<hand, pegVars, codecVars>>
PegPart == part = "peg" /\ PegNext /\ UNCHANGED <<hand, scoreVars, codecVars>>
SprotoPart == part = "sproto" /\ spStep /\ UNCHANGED <<pool, seri, clu, doc, crypt>>
PoolPart == part = "pool" /\ PoolNext /\ UNCHANGED <<spVars, seri, clu, doc, crypt>>
SeriPart == part = "seri" /\ SeriNext /\ UNCHANGED <<spVars, pool, clu, doc, crypt>>
ClusterPart == part = "cluster" /\ ClusterNext /\ UNCHANGED <<spVars, pool, seri, doc, crypt>>
BsonPart == part = "bson" /\ DocNext /\ UNCHANGED <<spVars, pool, seri, clu, crypt>>
CryptPart == part = "crypt" /\ CryptNext /\ UNCHANGED <<spVars, pool, seri, clu, doc>>
CodecPart == /\ SprotoPart \/ PoolPart \/ SeriPart \/ ClusterPart \/ BsonPart \/ CryptPart
             /\ UNCHANGED <<hand, scoreVars, pegVars>>

AlgoNext == UNCHANGED part /\ (HuPart \/ ScorePart \/ PegPart \/ CodecPart)
AlgoSpec == AlgoInit /\ [][AlgoNext]_allVars

\* What is written to bytes is read back as it was: a sproto schema and its
\* messages, the values of lua-seri.c, BSON documents and the messages of
\* MongoDB, the texts and the secret of lua-crypt.c; and the memory of a
\* schema is handed out once
RoundTrips ==
    /\ part = "sproto" => SchemaKept /\ MessageKept
    /\ PoolKept /\ ValuesKept /\ DocumentsKept /\ TextsKept
=============================================================================
