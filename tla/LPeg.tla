-------------------------------- MODULE LPeg --------------------------------
(***************************************************************************)
(* LPeg, src/3rd/lpeg: the trees that the constructors of lptree.c build,  *)
(* the code that lpcode.c compiles them to, the machine of lpvm.c that     *)
(* runs it, and the captures that lpcap.c reads back.  A script holds      *)
(* patterns, makes new ones from them, and matches one with a subject.     *)
(* A reference to a rule is the number of the rule in its grammar, so what *)
(* looks into a call is given the rules g it is compiled with.             *)
(***************************************************************************)
EXTENDS Integers, FiniteSets, SequencesExt, TLC

CONSTANTS Letters,      \* the bytes, in the order a script uses them
          Subjects,     \* what is matched
          MaxCalls,     \* constructors a script calls before it matches
          MAXBACK,      \* limit of the stack of the machine
          MAXRULES, MAXBEHIND, MAXOFF,
          Fuel          \* steps of the machine after which a match has no end

Chars == Range(Letters)
ASSUME PegAssumption ==
    /\ Len(Letters) >= 2
    /\ Subjects \subseteq Seq(Chars)
    /\ {MaxCalls, MAXBACK, MAXRULES, MAXBEHIND, MAXOFF, Fuel} \subseteq Nat

VARIABLES pats,         \* the patterns the script holds: [tree, kt]
          calls,        \* how many constructors it called
          res           \* what lp_match returned, and of what

pegVars == <<pats, calls, res>>

-----------------------------------------------------------------------------
(* Trees: a tag, the siblings a and b, and c, the char, set, length, rule  *)
(* or kind of capture; key is the index of its Lua value in the ktable.    *)

Tree(tag, c, a, b) == [tag |-> tag, c |-> c, key |-> 0, sib |-> <<a, b>>]
Leaf(tag, c) == [tag |-> tag, c |-> c, key |-> 0, sib |-> <<>>]
Node1(tag, c, a) == [tag |-> tag, c |-> c, key |-> 0, sib |-> <<a>>]
sib1(t) == t.sib[1]
sib2(t) == t.sib[2]
CharTags == {"Char", "Set", "Any"}
WithKey(t, k) == [t EXCEPT !.key = k]

fullset == Chars
tocharset(t) == CASE t.tag = "Set"  -> t.c
                  [] t.tag = "Char" -> {t.c}
                  [] t.tag = "Any"  -> fullset

\* hascaptures, of trees ts in turn: a call goes on with its TRule, whose siblings are the body and the
\* next rule.  It has no end when that leads back to a rule of open, where it is already looking.
RECURSIVE Captures(_, _, _), CapturesFrom(_, _, _)
Captures(ts, g, open) ==
    LET t == Head(ts)
        here == CASE t.tag \in {"Capture", "RunTime"} -> "yes"
                  [] t.tag = "Call" -> CapturesFrom(t.c, g, open)
                  [] t.tag = "Grammar" -> CapturesFrom(1, t.sib, {})
                  [] OTHER -> Captures(t.sib, g, open)
    IN  CASE ts = <<>> -> "no"
          [] ts # <<>> /\ here = "no" -> Captures(Tail(ts), g, open)
          [] OTHER -> here
CapturesFrom(r, g, open) ==
    CASE r > Len(g) -> "no"
      [] r \in open -> "endless"
      [] OTHER -> LET here == Captures(<<g[r]>>, g, open \cup {r})
                  IN  IF here = "no" THEN CapturesFrom(r + 1, g, open \cup {r}) ELSE here
hascaptures(t, g) == Captures(<<t>>, g, {}) = "yes"

\* checkaux: pred is "nullable" or "nofail"
RECURSIVE checkaux(_, _, _)
checkaux(t, pred, g) ==
    CASE t.tag \in CharTags \cup {"False", "OpenCall"} -> FALSE
      [] t.tag \in {"Rep", "True"} -> TRUE
      [] t.tag \in {"Not", "Behind"} -> pred = "nullable"
      [] t.tag = "And" -> pred = "nullable" \/ checkaux(sib1(t), pred, g)
      [] t.tag = "RunTime" -> pred = "nullable" /\ checkaux(sib1(t), pred, g)
      [] t.tag = "Seq" -> checkaux(sib1(t), pred, g) /\ checkaux(sib2(t), pred, g)
      [] t.tag = "Choice" -> checkaux(sib2(t), pred, g) \/ checkaux(sib1(t), pred, g)
      [] t.tag = "Capture" -> checkaux(sib1(t), pred, g)
      [] t.tag = "Grammar" -> checkaux(sib1(t), pred, t.sib)
      [] t.tag = "Call" -> checkaux(g[t.c], pred, g)
nullable(t, g) == checkaux(t, "nullable", g)
nofail(t, g) == checkaux(t, "nofail", g)

RECURSIVE fixedlenx(_, _, _, _)
fixedlenx(t, count, len, g) ==
    CASE t.tag \in CharTags -> len + 1
      [] t.tag \in {"False", "True", "Not", "And", "Behind"} -> len
      [] t.tag \in {"Rep", "RunTime", "OpenCall"} -> -1
      [] t.tag = "Capture" -> fixedlenx(sib1(t), count, len, g)
      [] t.tag = "Grammar" -> fixedlenx(sib1(t), count, len, t.sib)
      [] t.tag = "Call" -> IF count >= MAXRULES THEN -1 ELSE fixedlenx(g[t.c], count + 1, len, g)
      [] t.tag = "Seq" -> LET n == fixedlenx(sib1(t), count, len, g)
                          IN  IF n < 0 THEN -1 ELSE fixedlenx(sib2(t), count, n, g)
      [] t.tag = "Choice" -> LET n1 == fixedlenx(sib1(t), count, len, g)
                                 n2 == fixedlenx(sib2(t), count, len, g)
                             IN  IF n1 >= 0 /\ n1 = n2 THEN n1 ELSE -1
fixedlen(t, g) == fixedlenx(t, 0, 0, g)

\* getfirst: the first set, whether the pattern may match the empty string (bit 1), and whether
\* a match-time capture forbids a test (bit 2)
First(s, e, m) == [set |-> s, empty |-> e, mt |-> m]
MayTest(f) == ~f.empty /\ ~f.mt
RECURSIVE getfirst(_, _, _)
getfirst(t, follow, g) ==
    CASE t.tag \in CharTags -> First(tocharset(t), FALSE, FALSE)
      [] t.tag = "True" -> First(follow, TRUE, FALSE)
      [] t.tag = "False" -> First({}, FALSE, FALSE)
      [] t.tag = "Choice" ->
           LET f1 == getfirst(sib1(t), follow, g)
               f2 == getfirst(sib2(t), follow, g)
           IN  First(f1.set \cup f2.set, f1.empty \/ f2.empty, f1.mt \/ f2.mt)
      [] t.tag = "Seq" ->
           IF ~nullable(sib1(t), g) THEN getfirst(sib1(t), fullset, g)
           ELSE LET f2 == getfirst(sib2(t), follow, g)
                    f1 == getfirst(sib1(t), f2.set, g)
                IN  CASE MayTest(f1)    -> First(f1.set, FALSE, FALSE)
                      [] f1.mt \/ f2.mt -> First(f1.set, FALSE, TRUE)
                      [] OTHER          -> First(f1.set, f2.empty, f2.mt)
      [] t.tag = "Rep" -> First(getfirst(sib1(t), follow, g).set \cup follow, TRUE, FALSE)
      [] t.tag = "Capture" -> getfirst(sib1(t), follow, g)
      [] t.tag = "Grammar" -> getfirst(sib1(t), follow, t.sib)
      [] t.tag = "RunTime" -> LET f == getfirst(sib1(t), fullset, g)
                              IN  First(f.set, FALSE, ~MayTest(f))
      [] t.tag = "Call" -> getfirst(g[t.c], follow, g)
      [] t.tag = "And" -> LET f == getfirst(sib1(t), follow, g)
                          IN  First(f.set \cap follow, f.empty, f.mt)
      [] t.tag = "Not" /\ sib1(t).tag \in CharTags -> First(Chars \ tocharset(sib1(t)), TRUE, FALSE)
      [] OTHER -> First(follow, TRUE, getfirst(sib1(t), follow, g).mt)      \* TNot, TBehind

RECURSIVE headfail(_, _)
\* Mutant of headfail: what follows the first pattern of a sequence may fail later
HeadfailBlind(t, g) ==
    CASE t.tag \in CharTags \cup {"False"} -> TRUE
      [] t.tag \in {"True", "Rep", "RunTime", "Not", "Behind", "Choice"} -> FALSE
      [] t.tag \in {"Capture", "And", "Seq"} -> headfail(sib1(t), g)
      [] t.tag = "Grammar" -> headfail(sib1(t), t.sib)
      [] t.tag = "Call" -> headfail(g[t.c], g)
headfail(t, g) ==
    CASE t.tag \in CharTags \cup {"False"} -> TRUE
      [] t.tag \in {"True", "Rep", "RunTime", "Not", "Behind"} -> FALSE
      [] t.tag \in {"Capture", "And"} -> headfail(sib1(t), g)
      [] t.tag = "Grammar" -> headfail(sib1(t), t.sib)
      [] t.tag = "Call" -> headfail(g[t.c], g)
      [] t.tag = "Seq" -> nofail(sib2(t), g) /\ headfail(sib1(t), g)
      [] t.tag = "Choice" -> headfail(sib1(t), g) /\ headfail(sib2(t), g)

RECURSIVE needfollow(_)
needfollow(t) == CASE t.tag \in {"Choice", "Rep"} -> TRUE
                   [] t.tag = "Capture" -> needfollow(sib1(t))
                   [] t.tag = "Seq" -> needfollow(sib2(t))
                   [] OTHER -> FALSE

-----------------------------------------------------------------------------
(* Code (lpcode.c): a sequence of slots.  A jump is followed by a slot with *)
(* its offset, a set by a slot with the set.                                *)

NOINST == 0
Slot(op, aux) == [op |-> op, aux |-> aux, key |-> 0]
OffsetOps == {"TestChar", "TestAny", "Choice", "Jmp", "Call", "OpenCall", "Commit",
              "PartialCommit", "BackCommit"}
sizei(i) == CASE i.op \in {"Set", "Span"} -> 2
              [] i.op = "TestSet" -> 3
              [] i.op \in OffsetOps -> 2
              [] OTHER -> 1

gethere(code) == Len(code) + 1
addinstruction(code, op, aux) == Append(code, Slot(op, aux))
addoffsetinst(code, op, aux) == code \o <<Slot(op, aux), Slot("offset", 0)>>
addinstcap(code, op, cap, key, off) ==
    Append(code, [op |-> op, aux |-> [kind |-> cap, off |-> off], key |-> key])
addcharset(code, cs) == Append(code, Slot("buff", cs))
jumptothere(code, i, target) == IF i = NOINST THEN code ELSE [code EXCEPT ![i + 1].aux = target - i]
jumptohere(code, i) == jumptothere(code, i, gethere(code))
Target(code, i) == i + code[i + 1].aux

codechar(code, c, tt) ==
    IF tt # NOINST /\ code[tt].op = "TestChar" /\ code[tt].aux = c
    THEN addinstruction(code, "Any", 0) ELSE addinstruction(code, "Char", c)
charsettype(cs) == CASE cs = {} -> "Fail" [] cs = Chars -> "Any"
                     [] Cardinality(cs) = 1 -> "Char" [] OTHER -> "Set"
TheChar(cs) == CHOOSE c \in cs : TRUE
codecharset(code, cs, tt) ==
    CASE charsettype(cs) = "Char" -> codechar(code, TheChar(cs), tt)
      [] charsettype(cs) = "Set" ->
           IF tt # NOINST /\ code[tt].op = "TestSet" /\ code[tt + 2].aux = cs
           THEN addinstruction(code, "Any", 0)
           ELSE addcharset(addinstruction(code, "Set", 0), cs)
      [] OTHER -> addinstruction(code, charsettype(cs), 0)
\* codetestset: the code, and where the test is
codetestset(code, cs, e) ==
    IF e THEN [code |-> code, at |-> NOINST]
    ELSE [at |-> gethere(code),
          code |-> CASE charsettype(cs) = "Fail" -> addoffsetinst(code, "Jmp", 0)
                     [] charsettype(cs) = "Any" -> addoffsetinst(code, "TestAny", 0)
                     [] charsettype(cs) = "Char" -> addoffsetinst(code, "TestChar", TheChar(cs))
                     [] OTHER -> addcharset(addoffsetinst(code, "TestSet", 0), cs)]

RECURSIVE finaltarget(_, _)
finaltarget(code, i) == IF code[i].op = "Jmp" THEN finaltarget(code, Target(code, i)) ELSE i
finallabel(code, i) == finaltarget(code, Target(code, i))

\* correctcalls, from slot i on: an open call becomes a call of its rule, or a jump to it when the
\* call returns at once
RECURSIVE correctcalls(_, _, _)
correctcalls(code, positions, i) ==
    IF i > Len(code) THEN code
    ELSE LET call == IF code[finaltarget(code, i + 2)].op = "Ret" THEN "Jmp" ELSE "Call"
             next == IF code[i].op = "OpenCall"
                     THEN jumptothere([code EXCEPT ![i].op = call], i, positions[code[i].key])
                     ELSE code
         IN  correctcalls(next, positions, i + sizei(next[i]))

RECURSIVE codegen(_, _, _, _, _, _)
codebehind(code, t, g) ==
    codegen(IF t.c > 0 THEN addinstruction(code, "Behind", t.c) ELSE code,
            sib1(t), FALSE, NOINST, fullset, g)
codechoice(code, p1, p2, opt, fl, g) ==
    LET emptyp2 == p2.tag = "True"
        f1 == getfirst(p1, fullset, g)
        disjoint == MayTest(f1) /\ f1.set \cap getfirst(p2, fl, g).set = {}
    IN
    CASE headfail(p1, g) \/ disjoint ->
           LET test == codetestset(code, f1.set, FALSE)
               c1 == codegen(test.code, p1, FALSE, test.at, fl, g)
               c2 == IF emptyp2 THEN c1 ELSE addoffsetinst(c1, "Jmp", 0)
               jmp == IF emptyp2 THEN NOINST ELSE gethere(c1)
           IN  jumptohere(codegen(jumptohere(c2, test.at), p2, opt, NOINST, fl, g), jmp)
      [] opt /\ emptyp2 ->
           codegen(jumptohere(addoffsetinst(code, "PartialCommit", 0), gethere(code)),
                   p1, TRUE, NOINST, fullset, g)
      [] OTHER ->
           LET test == codetestset(code, f1.set, ~MayTest(f1))
               c1 == codegen(addoffsetinst(test.code, "Choice", 0), p1, emptyp2, test.at, fullset, g)
               c2 == jumptohere(addoffsetinst(c1, "Commit", 0), gethere(test.code))
           IN  jumptohere(codegen(jumptohere(c2, test.at), p2, opt, NOINST, fl, g), gethere(c1))
codeand(code, t, tt, g) ==
    LET n == fixedlen(t, g) IN
    IF n >= 0 /\ n <= MAXBEHIND /\ ~hascaptures(t, g)
    THEN LET c == codegen(code, t, FALSE, tt, fullset, g)
         IN  IF n > 0 THEN addinstruction(c, "Behind", n) ELSE c
    ELSE LET c1 == codegen(addoffsetinst(code, "Choice", 0), t, FALSE, tt, fullset, g)
             c2 == jumptohere(addoffsetinst(c1, "BackCommit", 0), gethere(code))
         IN  jumptohere(addinstruction(c2, "Fail", 0), gethere(c1))
codecapture(code, t, tt, fl, g) ==
    LET len == fixedlen(sib1(t), g) IN
    IF len >= 0 /\ len <= MAXOFF /\ ~hascaptures(sib1(t), g)
    THEN addinstcap(codegen(code, sib1(t), FALSE, tt, fl, g), "FullCapture", t.c, t.key, len)
    ELSE addinstcap(codegen(addinstcap(code, "OpenCapture", t.c, t.key, 0),
                            sib1(t), FALSE, tt, fl, g), "CloseCapture", "close", 0, 0)
coderuntime(code, t, tt, g) ==
    addinstcap(codegen(addinstcap(code, "OpenCapture", "group", t.key, 0),
                       sib1(t), FALSE, tt, fullset, g), "CloseRunTime", "close", 0, 0)
coderep(code, t, opt, fl, g) ==
    LET f == getfirst(t, fullset, g) IN
    CASE t.tag \in CharTags -> addcharset(addinstruction(code, "Span", 0), tocharset(t))
      [] t.tag \notin CharTags /\ (headfail(t, g) \/ (MayTest(f) /\ f.set \cap fl = {})) ->
           LET test == codetestset(code, f.set, FALSE)
               c == codegen(test.code, t, FALSE, test.at, fullset, g)
           IN  jumptothere(jumptohere(addoffsetinst(c, "Jmp", 0), test.at), gethere(c), test.at)
      [] OTHER ->
           LET test == codetestset(code, f.set, ~MayTest(f))
               c1 == IF opt THEN jumptohere(addoffsetinst(test.code, "PartialCommit", 0),
                                            gethere(test.code))
                     ELSE addoffsetinst(test.code, "Choice", 0)
               pchoice == IF opt THEN NOINST ELSE gethere(test.code)
               c2 == codegen(c1, t, FALSE, NOINST, fullset, g)
               c3 == jumptothere(addoffsetinst(c2, "PartialCommit", 0), gethere(c2), gethere(c1))
           IN  jumptohere(jumptohere(c3, pchoice), test.at)
codenot(code, t, g) ==
    LET f == getfirst(t, fullset, g)
        test == codetestset(code, f.set, ~MayTest(f))
        c == IF headfail(t, g) THEN addinstruction(test.code, "Fail", 0)
             ELSE jumptohere(addinstruction(codegen(addoffsetinst(test.code, "Choice", 0),
                                 t, FALSE, NOINST, fullset, g), "FailTwice", 0), gethere(test.code))
    IN  jumptohere(c, test.at)
\* codegrammar: the rules one after the other; positions grows with them
RECURSIVE CodeRules(_, _, _)
CodeRules(code, rules, positions) ==
    IF Len(positions) = Len(rules) THEN [code |-> code, positions |-> positions]
    ELSE LET c == codegen(code, rules[Len(positions) + 1], FALSE, NOINST, fullset, rules)
         IN  CodeRules(addinstruction(c, "Ret", 0), rules, Append(positions, gethere(code)))
codegrammar(code, t) ==
    LET c1 == addoffsetinst(addoffsetinst(code, "Call", 0), "Jmp", 0)
        r == CodeRules(jumptohere(c1, gethere(code)), t.sib, <<>>)
    IN  correctcalls(jumptohere(r.code, gethere(code) + 2), r.positions, gethere(c1))
codecall(code, t) == [addoffsetinst(code, "OpenCall", 0) EXCEPT ![gethere(code)].key = t.c]
codeseq1(code, p1, p2, tt, fl, g) ==
    LET follow == IF needfollow(p1) THEN getfirst(p2, fl, g).set ELSE fullset
    IN  [code |-> codegen(code, p1, FALSE, tt, follow, g),
         tt |-> IF fixedlen(p1, g) # 0 THEN NOINST ELSE tt]
codegen(code, t, opt, tt, fl, g) ==
    CASE t.tag = "Char" -> codechar(code, t.c, tt)
      [] t.tag = "Any" -> addinstruction(code, "Any", 0)
      [] t.tag = "Set" -> codecharset(code, t.c, tt)
      [] t.tag = "True" -> code
      [] t.tag = "False" -> addinstruction(code, "Fail", 0)
      [] t.tag = "Choice" -> codechoice(code, sib1(t), sib2(t), opt, fl, g)
      [] t.tag = "Rep" -> coderep(code, sib1(t), opt, fl, g)
      [] t.tag = "Behind" -> codebehind(code, t, g)
      [] t.tag = "Not" -> codenot(code, sib1(t), g)
      [] t.tag = "And" -> codeand(code, sib1(t), tt, g)
      [] t.tag = "Capture" -> codecapture(code, t, tt, fl, g)
      [] t.tag = "RunTime" -> coderuntime(code, t, tt, g)
      [] t.tag = "Grammar" -> codegrammar(code, t)
      [] t.tag = "Call" -> codecall(code, t)
      [] t.tag = "Seq" -> LET r == codeseq1(code, sib1(t), sib2(t), tt, fl, g)
                          IN  codegen(r.code, sib2(t), opt, r.tt, fl, g)

\* peephole, from slot i on
RECURSIVE peephole(_, _)
peephole(code, i) ==
    IF i > Len(code) THEN code
    ELSE
    LET ft == finaltarget(code, i)
        relabelled == jumptothere(code, i, finallabel(code, i))
        next == CASE code[i].op \in {"Choice", "Call", "Commit", "PartialCommit", "BackCommit",
                                     "TestChar", "TestSet", "TestAny"} -> relabelled
                  [] code[i].op = "Jmp" /\ code[ft].op \in {"Ret", "Fail", "FailTwice", "End"} ->
                       [code EXCEPT ![i] = code[ft], ![i + 1] = Slot("Any", 0)]
                  [] code[i].op = "Jmp" /\ code[ft].op \in {"Commit", "PartialCommit", "BackCommit"} ->
                       jumptothere([code EXCEPT ![i] = code[ft]], i, finallabel(code, ft))
                  [] code[i].op = "Jmp" -> jumptothere(code, i, ft)
                  [] OTHER -> code
    IN  peephole(next, i + sizei(next[i]))
compile(t) == peephole(addinstruction(codegen(<<>>, t, FALSE, NOINST, fullset, <<>>), "End", 0), 1)

-----------------------------------------------------------------------------
(* Captures (lpcap.c).  A capture has its place s in the subject, the index *)
(* idx of its Lua value, its kind, and siz, 0 when it is open.  cx holds    *)
(* the list, the subject, the ktable, the arguments of lp_match and the     *)
(* values of match-time captures that are on the Lua stack.                 *)

Str(cs) == <<"str", cs>>                          \* Lua values: a kind and what it holds
Num(n) == <<"num", n>>
Nil == <<"nil", 0>>
Table(arr, named) == <<"table", arr, named>>
App(f, args) == <<"app", <<f, args>>>>   \* what a Lua function returns
Text(x) == IF x[1] = "num" THEN <<ToString(x[2])>> ELSE x[2]
IsString(x) == x[1] \in {"str", "num"}

Pushed(v, i) == [v |-> v, i |-> i, err |-> FALSE]
LuaError == [v |-> <<>>, i |-> 0, err |-> TRUE]
Then(r, v) == IF r.err THEN LuaError ELSE Pushed(v, r.i)

isclosecap(c) == c.kind = "close"
isfullcap(c) == c.siz # 0
closeaddr(c) == c.s + c.siz - 1
Between(cx, a, b) == SubSeq(cx.subj, a, b - 1)
LuaVal(cx, k) == IF k = 0 THEN Nil ELSE cx.kt[k]      \* pushluaval; ktable[0] is nil

RECURSIVE OpenBefore(_, _, _)
OpenBefore(caps, i, n) ==
    CASE isclosecap(caps[i]) -> OpenBefore(caps, i - 1, n + 1)
      [] ~isclosecap(caps[i]) /\ ~isfullcap(caps[i]) ->
           IF n = 0 THEN i ELSE OpenBefore(caps, i - 1, n - 1)
      [] OTHER -> OpenBefore(caps, i - 1, n)
findopen(caps, i) == OpenBefore(caps, i - 1, 0)
RECURSIVE CloseAfter(_, _, _)
CloseAfter(caps, i, n) ==
    CASE isclosecap(caps[i]) -> IF n = 0 THEN i ELSE CloseAfter(caps, i + 1, n - 1)
      [] ~isclosecap(caps[i]) /\ ~isfullcap(caps[i]) -> CloseAfter(caps, i + 1, n + 1)
      [] OTHER -> CloseAfter(caps, i + 1, n)
nextcap(caps, i) == 1 + (IF isfullcap(caps[i]) THEN i ELSE CloseAfter(caps, i + 1, 0))

\* finddyncap: the index of the first value of a match-time capture in a list, or 0
finddyncap(caps) == LET dyn == SelectSeq(caps, LAMBDA c : c.kind = "runtime")
                    IN  IF dyn = <<>> THEN 0 ELSE Head(dyn).idx

RECURSIVE pushcapture(_, _), PushAll(_, _), findback(_, _, _), TableOf(_, _, _, _), FoldOf(_, _, _, _),
          getstrcaps(_, _, _), StrCaps(_, _, _), Format(_, _, _, _), SubstOf(_, _, _, _)
\* the values of the captures from i to the close of their list
PushAll(cx, i) ==
    IF isclosecap(cx.caps[i]) THEN Pushed(<<>>, i)
    ELSE LET a == pushcapture(cx, i)
             b == PushAll(cx, a.i)
         IN  IF a.err THEN LuaError ELSE Then(b, a.v \o b.v)
pushnestedvalues(cx, i, addextra) ==
    LET co == cx.caps[i] IN
    IF isfullcap(co) THEN Pushed(<<Str(Between(cx, co.s, closeaddr(co)))>>, i + 1)
    ELSE LET r == PushAll(cx, i + 1)
             whole == <<Str(Between(cx, co.s, cx.caps[r.i].s))>>
         IN  IF r.err THEN LuaError
             ELSE Pushed(r.v \o (IF addextra \/ r.v = <<>> THEN whole ELSE <<>>), r.i + 1)
pushonenestedvalue(cx, i) ==
    LET r == pushnestedvalues(cx, i, FALSE) IN Then(r, SubSeq(r.v, 1, 1))

\* findback: the group called name before i, or 0
findback(cx, i, name) ==
    IF i <= 1 THEN 0
    ELSE LET c == i - 1
             at == IF isclosecap(cx.caps[c]) THEN findopen(cx.caps, c) ELSE c
             skip == ~isclosecap(cx.caps[c]) /\ ~isfullcap(cx.caps[c])
         IN  IF ~skip /\ cx.caps[at].kind = "group" /\ LuaVal(cx, cx.caps[at].idx) = name
             THEN at ELSE findback(cx, at, name)
backrefcap(cx, i) ==
    LET at == findback(cx, i, LuaVal(cx, cx.caps[i].idx))
        r == pushnestedvalues(cx, at, FALSE)
    IN  IF at = 0 \/ r.err THEN LuaError ELSE Pushed(r.v, i + 1)
\* tablecap: values by number in arr, the values of named groups in named
TableOf(cx, i, arr, named) ==
    LET c == cx.caps[i] IN
    CASE isclosecap(c) -> Pushed(<<Table(arr, named)>>, i + 1)
      [] c.kind = "group" /\ c.idx # 0 ->
           LET r == pushonenestedvalue(cx, i)
               key == LuaVal(cx, c.idx)
           IN  IF r.err THEN LuaError
               ELSE TableOf(cx, r.i, arr, Append(SelectSeq(named, LAMBDA x : x[1] # key), <<key, r.v[1]>>))
      [] OTHER ->
           LET r == pushcapture(cx, i)
           IN  IF r.err THEN LuaError ELSE TableOf(cx, r.i, arr \o r.v, named)
tablecap(cx, i) ==
    IF isfullcap(cx.caps[i]) THEN Pushed(<<Table(<<>>, <<>>)>>, i + 1)
    ELSE TableOf(cx, i + 1, <<>>, <<>>)
\* querycap: the Lua table is the set of strings it has an entry for
querycap(cx, i) ==
    LET r == pushonenestedvalue(cx, i)
        tab == LuaVal(cx, cx.caps[i].idx)
    IN  IF r.err THEN LuaError
        ELSE Pushed(IF r.v[1][1] = "str" /\ r.v[1][2] \in tab[2] THEN <<App("entry", r.v)>> ELSE <<>>, r.i)
FoldOf(cx, i, f, acc) ==
    IF isclosecap(cx.caps[i]) THEN Pushed(<<acc>>, i + 1)
    ELSE LET r == pushcapture(cx, i)
         IN  IF r.err THEN LuaError ELSE FoldOf(cx, r.i, f, App(f, <<acc>> \o r.v))
foldcap(cx, i) ==
    IF isfullcap(cx.caps[i]) \/ isclosecap(cx.caps[i + 1]) THEN LuaError
    ELSE LET r == pushcapture(cx, i + 1)
         IN  IF r.err \/ r.v = <<>> THEN LuaError
             ELSE FoldOf(cx, r.i, LuaVal(cx, cx.caps[i].idx), r.v[1])
functioncap(cx, i) ==
    LET r == pushnestedvalues(cx, i, FALSE)
    IN  Then(r, <<App(LuaVal(cx, cx.caps[i].idx), r.v)>>)
numcap(cx, i) ==
    LET idx == cx.caps[i].idx
        r == pushnestedvalues(cx, i, FALSE)
    IN  CASE idx = 0 -> Pushed(<<>>, nextcap(cx.caps, i))
          [] idx # 0 /\ (r.err \/ Len(r.v) < idx) -> LuaError
          [] OTHER -> Pushed(<<r.v[idx]>>, r.i)

MAXSTRCAPS == 10
\* getstrcaps: cps, what %0, %1, ... stand for: a piece of the subject, or a capture to evaluate
StrCaps(cx, i, cps) ==
    CASE isclosecap(cx.caps[i]) -> [cps |-> cps, i |-> i + 1]
      [] ~isclosecap(cx.caps[i]) /\ Len(cps) >= MAXSTRCAPS -> StrCaps(cx, nextcap(cx.caps, i), cps)
      [] ~isclosecap(cx.caps[i]) /\ Len(cps) < MAXSTRCAPS /\ cx.caps[i].kind = "simple" ->
           LET r == getstrcaps(cx, i, cps) IN StrCaps(cx, r.i, r.cps)
      [] OTHER -> StrCaps(cx, nextcap(cx.caps, i), Append(cps, [str |-> FALSE, s |-> i, e |-> 0]))
getstrcaps(cx, i, cps) ==
    LET k == Len(cps) + 1
        mine == Append(cps, [str |-> TRUE, s |-> cx.caps[i].s, e |-> 0])
        r == IF isfullcap(cx.caps[i]) THEN [cps |-> mine, i |-> i + 1] ELSE StrCaps(cx, i + 1, mine)
    IN  [r EXCEPT !.cps[k].e = closeaddr(cx.caps[r.i - 1])]
\* addonestring: a sequence of no or one string
addonestring(cx, i) ==
    LET r == pushcapture(cx, i) IN
    CASE r.err -> LuaError
      [] ~r.err /\ r.v = <<>> -> r
      [] OTHER -> IF IsString(r.v[1]) THEN Pushed(<<Str(Text(r.v[1]))>>, r.i) ELSE LuaError
\* stringcap: a format is a sequence of [esc, c]: the char c, or the capture number c
Format(cx, fmt, cps, out) ==
    IF fmt = <<>> THEN Pushed(out, 0)
    ELSE LET x == Head(fmt)
             cp == cps[x.c + 1]
             r == addonestring(cx, cp.s)
         IN  CASE ~x.esc -> Format(cx, Tail(fmt), cps, Append(out, x.c))
               [] x.esc /\ x.c >= Len(cps) -> LuaError
               [] x.esc /\ x.c < Len(cps) /\ cp.str ->
                    Format(cx, Tail(fmt), cps, out \o Between(cx, cp.s, cp.e))
               [] OTHER -> IF r.err \/ r.v = <<>> THEN LuaError
                           ELSE Format(cx, Tail(fmt), cps, out \o r.v[1][2])
stringcap(cx, i) ==
    LET r == getstrcaps(cx, i, <<>>)
        b == Format(cx, LuaVal(cx, cx.caps[i].idx)[2], r.cps, <<>>)
    IN  IF b.err THEN LuaError ELSE Pushed(<<Str(b.v)>>, r.i)
SubstOf(cx, i, curr, out) ==
    LET next == cx.caps[i].s
        upto == out \o Between(cx, curr, next)
        r == addonestring(cx, i)
    IN  CASE isclosecap(cx.caps[i]) -> Pushed(<<Str(upto)>>, i + 1)
          [] ~isclosecap(cx.caps[i]) /\ r.err -> LuaError
          [] ~isclosecap(cx.caps[i]) /\ ~r.err /\ r.v = <<>> -> SubstOf(cx, r.i, next, upto)
          [] OTHER -> SubstOf(cx, r.i, closeaddr(cx.caps[r.i - 1]), upto \o r.v[1][2])
substcap(cx, i) ==
    LET c == cx.caps[i]
    IN  IF isfullcap(c) THEN Pushed(<<Str(Between(cx, c.s, closeaddr(c)))>>, i + 1)
        ELSE SubstOf(cx, i + 1, c.s, <<>>)
pushcapture(cx, i) ==
    LET c == cx.caps[i] IN
    CASE c.kind = "position" -> Pushed(<<Num(c.s)>>, i + 1)
      [] c.kind = "const" -> Pushed(<<LuaVal(cx, c.idx)>>, i + 1)
      [] c.kind = "arg" -> IF c.idx > Len(cx.args) THEN LuaError ELSE Pushed(<<cx.args[c.idx]>>, i + 1)
      [] c.kind = "simple" -> LET r == pushnestedvalues(cx, i, TRUE)
                              IN  IF r.err THEN LuaError ELSE Pushed(<<Last(r.v)>> \o Front(r.v), r.i)
      [] c.kind = "runtime" -> Pushed(<<cx.lst[c.idx]>>, i + 1)
      [] c.kind = "string" -> stringcap(cx, i)
      [] c.kind = "subst" -> substcap(cx, i)
      [] c.kind = "group" -> IF c.idx = 0 THEN pushnestedvalues(cx, i, FALSE)
                             ELSE Pushed(<<>>, nextcap(cx.caps, i))
      [] c.kind = "backref" -> backrefcap(cx, i)
      [] c.kind = "table" -> tablecap(cx, i)
      [] c.kind = "function" -> functioncap(cx, i)
      [] c.kind = "num" -> numcap(cx, i)
      [] c.kind = "query" -> querycap(cx, i)
      [] c.kind = "fold" -> foldcap(cx, i)
getcaptures(cx, r) ==
    LET all == PushAll(cx, 1)
    IN  IF ~all.err /\ all.v = <<>> THEN Pushed(<<Num(r)>>, 0) ELSE all

-----------------------------------------------------------------------------
(* The machine (lpvm.c): instruction p, position s, the stack of choices    *)
(* and calls (s = 0 in a call), the captures, and the values lst of the     *)
(* match-time captures on the Lua stack.                                    *)

\* What a match-time function of the ktable returns at position s with the values of its captures:
\* fail, keep the position, or skip one char; and values of its own
DynResult(f, s, vals) == CASE f = "no"   -> [s |-> 0, v |-> <<>>]
                           [] f = "keep" -> [s |-> s, v |-> <<>>]
                           [] f = "vals" -> [s |-> s, v |-> vals]
                           [] f = "skip" -> [s |-> s + 1, v |-> <<>>]

Args == <<Num(5)>>        \* the extra arguments of lp_match
Stopped(why, m) == [m EXCEPT !.st = why]
\* fail: back to the last choice, over the calls above it
BackTrack(m) ==
    LET top == CHOOSE i \in 1..Len(m.stk) : m.stk[i].s # 0 /\ \A j \in i + 1..Len(m.stk) : m.stk[j].s = 0
        c == m.stk[top]
        id == finddyncap(SubSeq(m.caps, c.cap + 1, Len(m.caps)))       \* removedyncap
    IN  [m EXCEPT !.p = c.p, !.s = c.s, !.stk = SubSeq(@, 1, top - 1),
                  !.caps = SubSeq(@, 1, c.cap), !.lst = IF id = 0 THEN @ ELSE SubSeq(@, 1, id - 1)]
\* IChoice, ICall: doublestack refuses to pass the limit
PushStack(m, e, p) == IF Len(m.stk) >= MAXBACK THEN Stopped("overflow", m)
                      ELSE [m EXCEPT !.stk = Append(@, e), !.p = p]
PushCap(m, kind, idx, s, siz) ==
    [m EXCEPT !.caps = Append(@, [kind |-> kind, idx |-> idx, s |-> s, siz |-> siz]), !.p = @ + 1]
UCHAR_MAX == 255
\* ICloseRunTime with runtimecap, resdyncaptures and adddyncaptures
CloseCap(s) == [kind |-> "close", idx |-> 0, s |-> s, siz |-> 1]
RunTimeResult(m, subj, open, kept, r) ==
    LET values == [i \in 1..Len(r.v) |->
                     [kind |-> "runtime", idx |-> Len(kept) + i, s |-> r.s, siz |-> 1]]
        outer == SubSeq(m.caps, 1, open - 1)
    IN  CASE r.s > Len(subj) + 1 -> Stopped("error", m)
          [] r.s = 0 -> BackTrack([m EXCEPT !.caps = outer, !.lst = kept])
          [] OTHER -> [m EXCEPT !.s = r.s, !.lst = kept \o r.v, !.p = @ + 1,
                         !.caps = outer \o (IF r.v = <<>> THEN <<>>
                                   ELSE <<[m.caps[open] EXCEPT !.idx = 0]>> \o values \o <<CloseCap(r.s)>>)]
RunTimeCall(m, subj, kt, open, nested, id) ==
    IF nested.err THEN Stopped("error", m)
    ELSE RunTimeResult(m, subj, open, IF id > 0 THEN SubSeq(m.lst, 1, id - 1) ELSE m.lst,
                       DynResult(kt[m.caps[open].idx][2], m.s, nested.v))
RunTimeCap(m, subj, kt, caps, open) ==
    RunTimeCall(m, subj, kt, open,
        pushnestedvalues([caps |-> caps, subj |-> subj, kt |-> kt, args |-> Args, lst |-> m.lst], open, FALSE),
        finddyncap(SubSeq(m.caps, open, Len(m.caps))))
CloseRunTime(m, subj, kt) ==
    RunTimeCap(m, subj, kt, Append(m.caps, CloseCap(m.s)), findopen(Append(m.caps, CloseCap(m.s)), Len(m.caps) + 1))
CloseCapture(m) ==
    LET last == Last(m.caps) IN
    IF last.siz = 0 /\ m.s - last.s < UCHAR_MAX
    THEN [m EXCEPT !.caps[Len(m.caps)].siz = m.s - last.s + 1, !.p = @ + 1]
    ELSE PushCap(m, "close", 0, m.s, 1)

VmStep(m, code, subj, kt) ==
    LET i == code[m.p]
        c == IF m.s <= Len(subj) THEN {subj[m.s]} ELSE {}        \* the next char, if there is one
        jump == [m EXCEPT !.p = Target(code, m.p)]
        top == Len(m.stk)
        eat(n) == [m EXCEPT !.p = @ + n, !.s = @ + 1]
    IN
    CASE i.op = "End" -> Stopped("match", m)
      [] i.op = "Ret" -> [m EXCEPT !.p = m.stk[top].p, !.stk = Front(@)]
      [] i.op = "Any" -> IF c # {} THEN eat(1) ELSE BackTrack(m)
      [] i.op = "TestAny" -> IF c # {} THEN [m EXCEPT !.p = @ + 2] ELSE jump
      [] i.op = "Char" -> IF c = {i.aux} THEN eat(1) ELSE BackTrack(m)
      [] i.op = "TestChar" -> IF c = {i.aux} THEN [m EXCEPT !.p = @ + 2] ELSE jump
      [] i.op = "Set" ->
           IF c # {} /\ c \subseteq code[m.p + 1].aux THEN eat(2) ELSE BackTrack(m)
      [] i.op = "TestSet" ->
           IF c # {} /\ c \subseteq code[m.p + 2].aux THEN [m EXCEPT !.p = @ + 3] ELSE jump
      [] i.op = "Behind" ->
           IF i.aux > m.s - 1 THEN BackTrack(m) ELSE [m EXCEPT !.s = @ - i.aux, !.p = @ + 1]
      [] i.op = "Span" ->
           LET stop == CHOOSE k \in m.s..Len(subj) + 1 :
                         /\ \A j \in m.s..k - 1 : subj[j] \in code[m.p + 1].aux
                         /\ k = Len(subj) + 1 \/ subj[k] \notin code[m.p + 1].aux
           IN  [m EXCEPT !.s = stop, !.p = @ + 2]
      [] i.op = "Jmp" -> jump
      [] i.op = "Choice" ->
           PushStack(m, [p |-> Target(code, m.p), s |-> m.s, cap |-> Len(m.caps)], m.p + 2)
      [] i.op = "Call" ->
           PushStack(m, [p |-> m.p + 2, s |-> 0, cap |-> 0], Target(code, m.p))
      [] i.op = "Commit" -> [jump EXCEPT !.stk = Front(@)]
      [] i.op = "PartialCommit" ->
           [jump EXCEPT !.stk[top].s = m.s, !.stk[top].cap = Len(m.caps)]
      [] i.op = "BackCommit" ->
           [jump EXCEPT !.s = m.stk[top].s, !.caps = SubSeq(@, 1, m.stk[top].cap), !.stk = Front(@)]
      [] i.op = "FailTwice" -> BackTrack([m EXCEPT !.stk = Front(@)])
      [] i.op = "Fail" -> BackTrack(m)
      [] i.op = "CloseRunTime" -> CloseRunTime(m, subj, kt)
      [] i.op = "CloseCapture" -> CloseCapture(m)
      [] i.op = "OpenCapture" -> PushCap(m, i.aux.kind, i.key, m.s, 0)
      [] i.op = "FullCapture" -> PushCap(m, i.aux.kind, i.key, m.s - i.aux.off, i.aux.off + 1)

RECURSIVE Steps(_, _, _, _, _)
Steps(m, code, subj, kt, n) ==
    CASE m.st # "run" -> m
      [] m.st = "run" /\ m.p = 0 -> Stopped("fail", m)               \* IGiveup
      [] m.st = "run" /\ m.p # 0 /\ n = 0 -> Stopped("loops", m)
      [] OTHER -> Steps(VmStep(m, code, subj, kt), code, subj, kt, n - 1)
match(code, subj, from, kt) ==
    Steps([p |-> 1, s |-> from, stk |-> <<[p |-> 0, s |-> from, cap |-> 0]>>, caps |-> <<>>,
           lst |-> <<>>, st |-> "run"], code, subj, kt, Fuel)

-----------------------------------------------------------------------------
(* Constructors (lptree.c).  A pattern has a tree and a ktable, a Lua table *)
(* that patterns may share: its id tells tables apart, 0 is the metatable.  *)

NoKt == [id |-> 0, v |-> <<>>]
Pattern(t, kt) == [tree |-> t, kt |-> kt]
NewId == calls + 1

RECURSIVE correctkeys(_, _)
correctkeys(t, n) ==
    LET own == CASE t.tag \in {"OpenCall", "Call", "RunTime"} -> t.key > 0
                 [] t.tag = "Capture" -> t.key > 0 /\ t.c \notin {"arg", "num"}
                 [] OTHER -> FALSE
    IN  [t EXCEPT !.key = IF own THEN @ + n ELSE @,
                  !.sib = [i \in 1..Len(@) |-> correctkeys(@[i], n)]]
\* joinktables, with concattable: the ktable of both, and the second tree with its keys corrected
joinktables(k1, k2, t2) ==
    CASE k2.v = <<>> \/ k1.id = k2.id -> [kt |-> k1, t2 |-> t2]
      [] k1.v = <<>> /\ k2.v # <<>> -> [kt |-> k2, t2 |-> t2]
      [] OTHER -> [kt |-> [id |-> NewId, v |-> k1.v \o k2.v], t2 |-> correctkeys(t2, Len(k1.v))]
\* addtonewktable (with newktable, mergektable and addtoktable): key is the index of the value
addtonewktable(k, x) == [kt |-> [id |-> NewId, v |-> IF x = Nil THEN k.v ELSE Append(k.v, x)],
                         key |-> IF x = Nil THEN 0 ELSE Len(k.v) + 1]

RECURSIVE fillseq(_, _)
fillseq(tag, cs) == IF Len(cs) = 1 THEN Leaf(tag, cs[1])
                    ELSE Tree("Seq", 0, Leaf(tag, cs[1]), fillseq(tag, Tail(cs)))
numtree(n) == CASE n = 0 -> Leaf("True", 0)
                [] n > 0 -> fillseq("Any", [i \in 1..n |-> 0])
                [] OTHER -> Node1("Not", 0, fillseq("Any", [i \in 1..-n |-> 0]))
newroot1sib(tag, c, p) == Pattern(Node1(tag, c, p.tree), p.kt)
newroot2sib(tag, p, q) == LET j == joinktables(p.kt, q.kt, q.tree)
                          IN  Pattern(Tree(tag, 0, p.tree, j.t2), j.kt)
newcharset(cs) == Pattern(Leaf("Set", cs), NoKt)

lp_seq(p, q) == CASE p.tree.tag = "False" \/ q.tree.tag = "True" -> p
                  [] p.tree.tag = "True" -> q
                  [] OTHER -> newroot2sib("Seq", p, q)
BothSets(p, q) == p.tree.tag \in CharTags /\ q.tree.tag \in CharTags
lp_choice(p, q) == CASE BothSets(p, q) -> newcharset(tocharset(p.tree) \cup tocharset(q.tree))
                     [] ~BothSets(p, q) /\ (nofail(p.tree, <<>>) \/ q.tree.tag = "False") -> p
                     [] p.tree.tag = "False" -> q
                     [] OTHER -> newroot2sib("Choice", p, q)
lp_sub(p, q) ==
    IF BothSets(p, q) THEN newcharset(tocharset(p.tree) \ tocharset(q.tree))
    ELSE LET j == joinktables(p.kt, q.kt, Node1("Not", 0, q.tree))
         IN  Pattern(Tree("Seq", 0, j.t2, p.tree), j.kt)
RECURSIVE StarTree(_, _)
StarTree(t, n) == CASE n = 0 -> Node1("Rep", 0, t)
                    [] n > 0 -> Tree("Seq", 0, t, StarTree(t, n - 1))
                    [] n = -1 -> Tree("Choice", 0, t, Leaf("True", 0))
                    [] OTHER -> Tree("Choice", 0, Tree("Seq", 0, t, StarTree(t, n + 1)), Leaf("True", 0))
lp_star(p, n) == Pattern(StarTree(p.tree, n), p.kt)
lp_behind(p) == newroot1sib("Behind", fixedlen(p.tree, <<>>), p)
lp_V(name) == LET k == addtonewktable(NoKt, Str(name))
              IN  Pattern(WithKey(Leaf("OpenCall", 0), k.key), k.kt)
\* capture_aux, lp_divcapture with a number, lp_matchtime
capture_aux(p, cap, x) == LET k == addtonewktable(p.kt, x)
                          IN  Pattern(WithKey(Node1("Capture", cap, p.tree), k.key),
                                      IF x = Nil THEN p.kt ELSE k.kt)
numcapture(p, n) == Pattern(WithKey(Node1("Capture", "num", p.tree), n), p.kt)
lp_matchtime(p, f) == LET k == addtonewktable(p.kt, f)
                      IN  Pattern(WithKey(Node1("RunTime", 0, p.tree), k.key), k.kt)
newemptycapkey(cap, x) == capture_aux(Pattern(Leaf("True", 0), NoKt), cap, x)
lp_argcapture(n) == Pattern(WithKey(Node1("Capture", "arg", Leaf("True", 0)), n), NoKt)
\* lp_constcapture of two values: a group of constants
ConstTree(key) == WithKey(Node1("Capture", "const", Leaf("True", 0)), key)
lp_constcapture(x, y) ==
    Pattern(Node1("Capture", "group", Tree("Seq", 0, ConstTree(1), ConstTree(2))),
            [id |-> NewId, v |-> <<x, y>>])

RECURSIVE correctassociativity(_)
correctassociativity(t) ==
    IF sib1(t).tag # t.tag THEN t
    ELSE correctassociativity([t EXCEPT !.sib = <<sib1(sib1(t)),
             [t EXCEPT !.sib = <<sib2(sib1(t)), sib2(t)>>]>>])
\* finalfix: names is what the rules of the grammar are called (fixonecall)
RECURSIVE finalfix(_, _, _)
finalfix(t, kt, names) ==
    IF t.tag = "OpenCall"
    THEN [t EXCEPT !.tag = "Call", !.c = CHOOSE r \in 1..Len(names) : names[r] = kt[t.key]]
    ELSE IF t.tag = "Grammar" THEN t
    ELSE LET u == IF t.tag \in {"Seq", "Choice"} THEN correctassociativity(t) ELSE t
         IN  [u EXCEPT !.sib = [i \in 1..Len(@) |-> finalfix(@[i], kt, names)]]
RECURSIVE OpenCalls(_)
OpenCalls(t) == CASE t.tag = "Grammar" -> {}
                  [] t.tag = "OpenCall" -> {t.key}
                  [] OTHER -> UNION {OpenCalls(t.sib[i]) : i \in 1..Len(t.sib)}

RECURSIVE checkloops(_, _)
checkloops(t, g) == CASE t.tag = "Rep" /\ nullable(sib1(t), g) -> TRUE
                      [] t.tag = "Grammar" -> FALSE
                      [] OTHER -> \E i \in 1..Len(t.sib) : checkloops(t.sib[i], g)
\* verifyrule: may the rule pass without consuming; "error" for what may be left recursive
RECURSIVE verifyrule(_, _, _, _)
verifyrule(t, npassed, nb, g) ==
    CASE t.tag \in CharTags \cup {"False"} -> nb
      [] t.tag \in {"True", "Behind"} -> "yes"
      [] t.tag \in {"Not", "And", "Rep"} -> verifyrule(sib1(t), npassed, "yes", g)
      [] t.tag \in {"Capture", "RunTime"} -> verifyrule(sib1(t), npassed, nb, g)
      [] t.tag = "Call" -> IF npassed >= MAXRULES THEN "error" ELSE verifyrule(g[t.c], npassed + 1, nb, g)
      [] t.tag = "Seq" -> LET r == verifyrule(sib1(t), npassed, "no", g)
                          IN  CASE r = "no" -> nb
                                [] r = "yes" -> verifyrule(sib2(t), npassed, nb, g)
                                [] OTHER -> "error"
      [] t.tag = "Choice" -> LET r == verifyrule(sib1(t), npassed, nb, g)
                             IN  IF r = "error" THEN r ELSE verifyrule(sib2(t), npassed, r, g)
      [] t.tag = "Grammar" -> IF nullable(t, g) THEN "yes" ELSE "no"
verifygrammar(rules, used) ==
    /\ \A r \in 1..Len(rules) : used[r] => verifyrule(rules[r], 0, "no", rules) # "error"
    /\ \A r \in 1..Len(rules) : used[r] => ~checkloops(rules[r], rules)
\* newgrammar, of patterns ps called names, the first one initial: a set, empty when an error is raised
newgrammar(ps, names) ==
    LET offset(r) == FoldLeft(LAMBDA n, p : n + Len(p.kt.v), 0, SubSeq(ps, 1, r - 1))
        all == FlattenSeq([r \in 1..Len(ps) |-> ps[r].kt.v])
        built == [r \in 1..Len(ps) |-> correctkeys(ps[r].tree, offset(r))]           \* buildgrammar
        called == {all[k] : k \in UNION {OpenCalls(built[r]) : r \in 1..Len(ps)}}
        fixed == [r \in 1..Len(ps) |-> finalfix(built[r], all, names)]
        used == [r \in 1..Len(ps) |-> r = 1 \/ names[r] \in called]
        kt == IF names[1] \in called THEN all ELSE Append(all, names[1])              \* initialrulename
    IN  IF /\ called \subseteq {names[r] : r \in 1..Len(ps)}
           /\ verifygrammar(fixed, used)
        THEN {Pattern([tag |-> "Grammar", c |-> used, key |-> 0, sib |-> fixed], [id |-> NewId, v |-> kt])}
        ELSE {}

-----------------------------------------------------------------------------
(* A script: it calls constructors and then matches the last pattern it    *)
(* made.  A constructor that raises an error leaves it as it was.          *)

Fn(f) == <<"fn", f>>
NoRes == [st |-> "none"]
Empty == Pattern(Leaf("True", 0), NoKt)
lp_P(cs) == IF cs = <<>> THEN Empty ELSE Pattern(fillseq("Char", cs), NoKt)
\* The string "%1b%0" of a string capture
Template == <<[esc |-> TRUE, c |-> 1], [esc |-> FALSE, c |-> Letters[2]], [esc |-> TRUE, c |-> 0]>>
RuleNames == <<Str("S"), Str("A")>>
\* Scripts begin with nothing, or with the start of a recursive rule, or with a group and a reference
Started(x) == [x EXCEPT !.kt.id = -1]
Beginnings == {<<>>, <<Started(lp_seq(lp_P(<<Letters[1]>>), lp_V("S")))>>,
               <<Started(capture_aux(lp_P(<<Letters[1]>>), "group", Str("x"))),
                 newemptycapkey("backref", Str("x"))>>}
PegInit == calls = 0 /\ pats \in Beginnings /\ res = NoRes

\* Constructors without an argument that is a pattern: getpatt of a string, a number, a boolean and a
\* function, lp_set (and lp_range), lp_V, lp_poscapture, lp_argcapture, lp_backref, lp_constcapture
Leaves == <<Empty, lp_P(SubSeq(Letters, 1, 1)), lp_P(SubSeq(Letters, 1, 2)),
            Pattern(numtree(2), NoKt), Pattern(numtree(-1), NoKt), Pattern(Leaf("False", 0), NoKt),
            newcharset(Range(SubSeq(Letters, 1, 2))), lp_matchtime(Empty, Fn("skip")),
            lp_V("S"), lp_V("A"), Pattern(Node1("Capture", "position", Leaf("True", 0)), NoKt),
            lp_argcapture(1), newemptycapkey("backref", Str("x")),
            lp_constcapture(Str(<<Letters[1]>>), Num(7))>>
Construct == Len(pats) < 2 /\ \E k \in 1..Len(Leaves) : pats' = Append(pats, Leaves[k])

\* Constructors of one pattern, the last made
OnLast(p) == pats' = Append(Front(pats), p)
Repeat == \E n \in {0, 1, -1, -2} :
            /\ n >= 0 => ~nullable(Last(pats).tree, <<>>)         \* "loop body may accept empty string"
            /\ OnLast(lp_star(Last(pats), n))
Predicate == \E tag \in {"And", "Not"} : OnLast(newroot1sib(tag, 0, Last(pats)))
LookBehind == LET n == fixedlen(Last(pats).tree, <<>>)
              IN  /\ n >= 0 /\ ~hascaptures(Last(pats).tree, <<>>) /\ n <= MAXBEHIND
                  /\ OnLast(lp_behind(Last(pats)))
Capture == \/ \E cap \in {"simple", "subst", "table"} : OnLast(capture_aux(Last(pats), cap, Nil))
           \/ \E name \in {Nil, Str("x")} : OnLast(capture_aux(Last(pats), "group", name))
           \/ OnLast(capture_aux(Last(pats), "fold", Fn("f")))
           \/ OnLast(capture_aux(Last(pats), "function", Fn("f")))
           \/ OnLast(capture_aux(Last(pats), "query", <<"tab", {<<Letters[1]>>}>>))
           \/ OnLast(capture_aux(Last(pats), "string", Str(Template)))
           \/ \E n \in 0..2 : OnLast(numcapture(Last(pats), n))
MatchTime == \E f \in {"no", "keep", "vals", "skip"} : OnLast(lp_matchtime(Last(pats), Fn(f)))
\* Constructors of two
OfTwo == /\ Len(pats) = 2
         /\ \/ pats' = <<lp_seq(pats[1], pats[2])>>
            \/ pats' = <<lp_choice(pats[1], pats[2])>>
            \/ pats' = <<lp_sub(pats[1], pats[2])>>
\* hascaptures has an end wherever compile calls it
RECURSIVE CapturesEnd(_, _)
CapturesEnd(t, g) ==
    /\ t.tag \in {"And", "Capture"} /\ fixedlen(sib1(t), g) >= 0 => Captures(t.sib, g, {}) # "endless"
    /\ \A i \in 1..Len(t.sib) : CapturesEnd(t.sib[i], g)
\* getpatt of a table: the rules S and A.  Left out are rules on which compile has no end: one that
\* verifygrammar would refuse but does not look at, because no rule uses it, and one that hascaptures
\* turns around in.
MakeGrammar ==
    \E p \in newgrammar(pats, SubSeq(RuleNames, 1, Len(pats))) :
        LET g == p.tree.sib IN
        /\ verifygrammar(g, [r \in 1..Len(g) |-> TRUE])
        /\ \A r \in 1..Len(g) : CapturesEnd(g[r], g)
        /\ pats' = <<p>>

\* initposition, counted from 1
initposition(ii, len) == CASE ii > 0 -> IF ii <= len THEN ii ELSE len + 1
                           [] OTHER  -> IF -ii <= len THEN len + ii + 1 ELSE 1
\* lp_match: prepcompile refuses a reference to a rule outside of a grammar
Returned(vals) == IF vals.err THEN [st |-> "error", v |-> <<>>] ELSE [st |-> "match", v |-> vals.v]
Outcome(m, kt, subj) ==
    IF m.st # "match" THEN [st |-> m.st, v |-> <<>>]
    ELSE Returned(getcaptures([caps |-> Append(m.caps, CloseCap(m.s)), subj |-> subj, kt |-> kt, args |-> Args,
                               lst |-> m.lst], m.s))
Match(p, t, subj, from, r) ==
    /\ res' = [st |-> r.st, v |-> r.v, subj |-> subj, from |-> from]
    /\ pats' = Append(Front(pats), [p EXCEPT !.tree = t])
    /\ UNCHANGED calls
lp_match(subj, ii) ==
    LET p == Last(pats)
        t == finalfix(p.tree, p.kt.v, <<>>)
        from == initposition(ii, Len(subj))
    IN  IF OpenCalls(p.tree) # {} THEN UNCHANGED pegVars
        ELSE Match(p, t, subj, from, Outcome(match(compile(t), subj, from, p.kt.v), p.kt.v, subj))

ScriptStep == /\ calls < MaxCalls /\ res = NoRes /\ calls' = calls + 1 /\ UNCHANGED res
              /\ \/ Construct
                 \/ /\ pats # <<>>
                    /\ Repeat \/ Predicate \/ LookBehind \/ Capture \/ MatchTime \/ OfTwo \/ MakeGrammar
MatchStep == pats # <<>> /\ res = NoRes /\ \E subj \in Subjects, ii \in {1, -1} : lp_match(subj, ii)
NewScript == res # NoRes /\ pats' = <<>> /\ calls' = 0 /\ res' = NoRes
PegNext == ScriptStep \/ MatchStep \/ NewScript
PegSpec == PegInit /\ [][PegNext]_pegVars

-----------------------------------------------------------------------------
(* What a match is, from the meaning of the operators alone: Peg gives the *)
(* end of the match of t at i and the captures as a forest, with before,   *)
(* the complete captures that a back reference can see.                    *)

No == [ok |-> FALSE, err |-> FALSE, i |-> 0, caps |-> <<>>]
Yes(i, caps) == [ok |-> TRUE, err |-> FALSE, i |-> i, caps |-> caps]
Raises == [No EXCEPT !.err = TRUE]
Failed == <<"error", 0>>
Wrong(vals) == \E k \in 1..Len(vals) : vals[k][1] = "error"
CapNode(kind, key, s, e, kids) == [kind |-> kind, key |-> key, s |-> s, e |-> e, kids |-> kids]

RECURSIVE ValuesOf(_, _, _), Meaning(_, _, _), Substituted(_, _, _, _), Folded(_, _, _, _)
\* ctx: the subject and the ktable
Piece(ctx, n) == Str(SubSeq(ctx.subj, n.s, n.e - 1))
ValuesOf(ctx, nodes, before) ==
    IF nodes = <<>> THEN <<>>
    ELSE Meaning(ctx, Head(nodes), before) \o ValuesOf(ctx, Tail(nodes), Append(before, Head(nodes)))
ValuesOrAll(ctx, n, before) == LET v == ValuesOf(ctx, n.kids, before)
                               IN  IF v = <<>> THEN <<Piece(ctx, n)>> ELSE v
Key(ctx, n) == IF n.key = 0 THEN Nil ELSE ctx.kt[n.key]
IsNamed(n) == n.kind = "group" /\ n.key # 0
OneString(v) == CASE v = <<>> -> <<>> [] Wrong(v) -> <<Failed>>
                  [] OTHER -> IF IsString(v[1]) THEN <<Str(Text(v[1]))>> ELSE <<Failed>>
RECURSIVE Numbered(_)
Numbered(n) == <<n>> \o FlattenSeq([k \in 1..Len(n.kids) |->
                   IF n.kids[k].kind = "simple" THEN Numbered(n.kids[k]) ELSE <<n.kids[k]>>])
\* the text that replaces one place of the template of a string capture
Place(ctx, n, x, before) ==
    LET pieces == Numbered(n)
        one == OneString(Meaning(ctx, pieces[x.c + 1], before))
    IN  CASE ~x.esc -> <<Str(<<x.c>>)>>
          [] x.esc /\ x.c >= Len(pieces) -> <<Failed>>
          [] x.esc /\ x.c < Len(pieces) /\ (x.c = 0 \/ pieces[x.c + 1].kind = "simple") ->
               <<Piece(ctx, pieces[x.c + 1])>>
          [] OTHER -> IF one = <<>> THEN <<Failed>> ELSE one
Substituted(ctx, n, at, before) ==
    IF n.kids = <<>> THEN <<Str(SubSeq(ctx.subj, at, n.e - 1))>>
    ELSE LET k == Head(n.kids)
             one == OneString(Meaning(ctx, k, before))
             rest == Substituted(ctx, [n EXCEPT !.kids = Tail(@)], IF one = <<>> THEN k.s ELSE k.e,
                                 Append(before, k))
         IN  <<Str(SubSeq(ctx.subj, at, k.s - 1))>> \o one \o rest
Joined(parts) == IF Wrong(parts) THEN <<Failed>>
                 ELSE <<Str(FlattenSeq([k \in 1..Len(parts) |-> parts[k][2]]))>>
Folded(ctx, nodes, before, f) ==            \* the last node is the outermost application
    LET v == Meaning(ctx, Last(nodes), before \o Front(nodes))
        acc == Folded(ctx, Front(nodes), before, f)
    IN  IF Len(nodes) = 1 THEN IF v = <<>> THEN <<Failed>> ELSE v
        ELSE IF Wrong(v) \/ Wrong(acc) THEN <<Failed>> ELSE <<App(f, <<acc[1]>> \o v)>>
Tabled(ctx, n, before) ==
    LET named == SelectSeq([k \in 1..Len(n.kids) |-> k], LAMBDA k : IsNamed(n.kids[k]))
        val(k) == ValuesOrAll(ctx, n.kids[k], before \o SubSeq(n.kids, 1, k - 1))
        last(k) == \A j \in Range(named) : j > k => Key(ctx, n.kids[j]) # Key(ctx, n.kids[k])
        arr == ValuesOf(ctx, n.kids, before)
    IN  IF Wrong(arr) \/ \E k \in Range(named) : Wrong(val(k)) THEN <<Failed>>
        ELSE <<Table(arr, LET ks == SelectSeq(named, last)
                           IN  [i \in 1..Len(ks) |-> <<Key(ctx, n.kids[ks[i]]), val(ks[i])[1]>>])>>
Referred(ctx, name, before) ==
    LET at == {k \in 1..Len(before) : IsNamed(before[k]) /\ Key(ctx, before[k]) = name}
        k == CHOOSE k \in at : \A j \in at : j <= k
    IN  IF at = {} THEN <<Failed>> ELSE ValuesOrAll(ctx, before[k], SubSeq(before, 1, k - 1))
Meaning(ctx, n, before) ==
    LET all == ValuesOrAll(ctx, n, before)
        or(v) == IF Wrong(all) THEN <<Failed>> ELSE v
    IN
    CASE n.kind = "position" -> <<Num(n.s)>>
      [] n.kind = "const" -> <<Key(ctx, n)>>
      [] n.kind = "arg" -> <<Args[n.key]>>
      [] n.kind = "simple" -> or(<<Piece(ctx, n)>> \o ValuesOf(ctx, n.kids, before))
      [] n.kind = "value" -> <<n.key>>
      [] n.kind = "group" -> IF IsNamed(n) THEN <<>> ELSE all
      [] n.kind = "backref" -> Referred(ctx, Key(ctx, n), before)
      [] n.kind = "table" -> Tabled(ctx, n, before)
      [] n.kind = "function" -> or(<<App(Key(ctx, n), all)>>)
      [] n.kind = "num" -> IF n.key = 0 THEN <<>>
                           ELSE or(IF n.key > Len(all) THEN <<Failed>> ELSE <<all[n.key]>>)
      [] n.kind = "query" -> or(IF all[1][1] = "str" /\ all[1][2] \in Key(ctx, n)[2]
                                THEN <<App("entry", <<all[1]>>)>> ELSE <<>>)
      [] n.kind = "fold" -> IF n.kids = <<>> THEN <<Failed>>
                            ELSE SubSeq(Folded(ctx, n.kids, before, Key(ctx, n)), 1, 1)
      [] n.kind = "string" ->
           Joined(FlattenSeq([k \in 1..Len(Key(ctx, n)[2]) |-> Place(ctx, n, Key(ctx, n)[2][k], before)]))
      [] n.kind = "subst" -> Joined(Substituted(ctx, n, n.s, before))

RECURSIVE Peg(_, _, _, _, _)
Peg(ctx, t, g, i, before) ==
    LET first == Peg(ctx, sib1(t), g, i, before)
        second == Peg(ctx, sib2(t), g, first.i, before \o first.caps)
        vals == ValuesOrAll(ctx, CapNode("group", 0, i, first.i, first.caps), before)
        dyn == DynResult(ctx.kt[t.key][2], first.i, vals)
    IN
    CASE t.tag \in CharTags -> IF i <= Len(ctx.subj) /\ ctx.subj[i] \in tocharset(t) THEN Yes(i + 1, <<>>) ELSE No
      [] t.tag = "True" -> Yes(i, <<>>)
      [] t.tag = "False" -> No
      [] t.sib # <<>> /\ t.tag \notin {"Behind", "Call", "Grammar"} /\ first.err -> Raises
      [] t.tag = "Seq" -> IF first.ok /\ second.ok THEN Yes(second.i, first.caps \o second.caps)
                          ELSE IF first.ok THEN second ELSE No
      [] t.tag = "Choice" -> IF first.ok THEN first ELSE Peg(ctx, sib2(t), g, i, before)
      [] t.tag = "Rep" ->
           IF ~first.ok THEN Yes(i, <<>>)
           ELSE LET rest == Peg(ctx, t, g, first.i, before \o first.caps)
                IN  [rest EXCEPT !.caps = first.caps \o @]
      [] t.tag = "And" -> IF first.ok THEN Yes(i, <<>>) ELSE No
      [] t.tag = "Not" -> IF first.ok THEN No ELSE Yes(i, <<>>)
      [] t.tag = "Behind" ->
           IF i > t.c /\ Peg(ctx, sib1(t), g, i - t.c, before).ok THEN Yes(i, <<>>) ELSE No
      [] t.tag = "Call" -> Peg(ctx, g[t.c], g, i, before)
      [] t.tag = "Grammar" -> Peg(ctx, t.sib[1], t.sib, i, before)
      [] t.tag = "Capture" ->
           IF first.ok THEN Yes(first.i, <<CapNode(t.c, t.key, i, first.i, first.caps)>>) ELSE No
      [] t.tag = "RunTime" ->
           IF ~first.ok THEN No
           ELSE IF Wrong(vals) \/ dyn.s > Len(ctx.subj) + 1 THEN Raises
           ELSE IF dyn.s = 0 THEN No
           ELSE Yes(dyn.s, IF dyn.v = <<>> THEN <<>>
                           ELSE <<CapNode("group", 0, i, dyn.s,
                                    [k \in 1..Len(dyn.v) |-> CapNode("value", dyn.v[k], dyn.s, dyn.s, <<>>)])>>)
RefValues(r, v) == CASE ~r.ok /\ ~r.err -> [st |-> "fail", v |-> <<>>]
                     [] r.err \/ Wrong(v) -> [st |-> "error", v |-> <<>>]
                     [] OTHER -> [st |-> "match", v |-> IF v = <<>> THEN <<Num(r.i)>> ELSE v]
RefOutcome(ctx, r) == RefValues(r, ValuesOf(ctx, r.caps, <<>>))
Reference(t, ctx, from) == RefOutcome(ctx, Peg(ctx, t, <<>>, from, <<>>))

\* Every match of a pattern that the constructors build here (MakeGrammar leaves out the grammars that
\* newgrammar accepts but compile has no end on: with an unused rule that is left recursive, or with a
\* predicate or capture of fixed length around a call of its own rule) ends, within the stack, and gives what
\* the meaning of its operators gives: whether it succeeds, where, and with which values.  The test of a
\* first char, the tail calls, the spans and the jumps to jumps of lpcode.c, the stack of lpvm.c and
\* the flat list of captures of lpcap.c show in nothing but the time it takes.
PatternsMatch ==
    res.st # "none" =>
        /\ res.st \notin {"loops", "overflow"}
        /\ LET p == Last(pats)
           IN  Reference(p.tree, [subj |-> res.subj, kt |-> p.kt.v], res.from) = [st |-> res.st, v |-> res.v]
=============================================================================
