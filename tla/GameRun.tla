------------------------------ MODULE GameRun ------------------------------
(***************************************************************************)
(* gameCenter:startPlay and gameCenter:run: one table from the deal to the *)
(* settlement.  The players' cards are PlayerCards records, the scores are *)
(* those of ScoreManager, whose actions are conjuncts here.                *)
(*                                                                         *)
(* run is a coroutine that waits for the players at four places; a step is *)
(* what it does from one of its loops or waits to the next.  The messages  *)
(* that carry the players' answers are not modelled: an answer reaches run *)
(* while it waits for it, not too late and not twice.  Sleeps and          *)
(* notifications are left out.                                             *)
(***************************************************************************)
EXTENDS PlayerCards, ScoreManager

CONSTANTS Decks,          \* the orders in which the shuffle may leave the cards
          PlayerCardCnt,  \* playerCardCnt: 14 in the code
          NoneSingle(_),  \* ruleHelp:noneSingle, on a set of cards
          Foreign         \* cards that a client may send though nobody has them

ASSUME DeckAssumption ==
    /\ PlayerCardCnt \in Nat /\ PlayerCardCnt >= 3
    /\ \A d \in Decks :
         /\ d \in Seq(Card)
         /\ \A i, j \in DOMAIN d : d[i] = d[j] => i = j
         /\ Len(d) >= 4 * PlayerCardCnt + 1

ASSUME ForeignAssumption ==
    /\ Foreign \subseteq Card
    /\ \A d \in Decks : \A i \in DOMAIN d : d[i] \notin Foreign

VARIABLES deck, payIndex,        \* cardsMgr
          players,               \* the cardMgr of each seat
          curPaysite, lastPayCardRule, curPayCardRule,
          paycard,               \* g_paycard
          possibles,             \* inputPossibles, once sorted
          asked,                 \* playerSelectRuleCards
          playWufu,              \* PlayWufubaojing
          wufuSite,              \* the player asked for a wufu alarm
          laid,                  \* seats done in the loop that lays Ti and Kan
          turns,                 \* turnRunCount, up to TurnCap
          outcome,               \* what run returns
          pc                     \* where run is

runVars == <<deck, payIndex, players, curPaysite, lastPayCardRule, curPayCardRule,
             paycard, possibles, asked, playWufu, wufuSite, laid, turns, outcome, pc>>
vars == <<runVars, scoreVars>>

NoCard == <<0, 0, 0>>
NoOutcome == [site |-> NoSite, type |-> "none", dp |-> NoSite]
TurnCap == 2   \* parseWinnerType tells only 0, 1 and more turns apart

System == lastPayCardRule = "None"    \* the card on the table is the deck's

Init ==
    /\ ScoreInit
    /\ deck = <<>> /\ payIndex = 1
    /\ players = [s \in Site |-> initCards({})]
    /\ curPaysite = 0
    /\ lastPayCardRule = "None" /\ curPayCardRule = "None"
    /\ paycard = NoCard /\ possibles = {} /\ asked = {}
    /\ playWufu = TRUE /\ wufuSite = NoSite
    /\ laid = 0 /\ turns = 0 /\ outcome = NoOutcome
    /\ pc = "idle"

-----------------------------------------------------------------------------

\* dispatchPokes: the banker first, and one more card for the banker
Dealt(d, z, s) ==
    LET j == SeatsAfter(z, s)
    IN  {d[i] : i \in (j * PlayerCardCnt + 1)..((j + 1) * PlayerCardCnt)}
          \cup IF s = z THEN {d[4 * PlayerCardCnt + 1]} ELSE {}

startPlay ==
    /\ pc = "idle"
    /\ newGame
    /\ \E d \in Decks :
         /\ deck' = d
         /\ players' = [s \in Site |-> initCards(Dealt(d, zhuang', s))]
    /\ payIndex' = 4 * PlayerCardCnt + 2
    /\ curPaysite' = zhuang'
    /\ lastPayCardRule' = "Ti" /\ curPayCardRule' = "Ti"
    /\ pc' = "wait"
    /\ UNCHANGED <<paycard, possibles, asked, playWufu, wufuSite, laid, turns, outcome>>

StartGame(p) ==
    /\ pc = "wait"
    /\ playerStartGame(p)
    /\ UNCHANGED runVars

\* The first of a set of seats, counted from the player whose turn it is
FirstSite(S) ==
    CHOOSE s \in S : \A t \in S : SeatsAfter(curPaysite, s) <= SeatsAfter(curPaysite, t)

Win(site, type, dp) ==
    /\ outcome' = [site |-> site, type |-> type, dp |-> dp]
    /\ pc' = "settle"

BestOf(s) ==
    BestHupai(Owned(players[s]), NoneSingle(Owned(players[s])), Cardinality(players[s].ti))
BestSites == {s \in Site : BestOf(s) # "none"}

\* A hand that wins as it is dealt
BestHu ==
    /\ pc = "wait" /\ started = Site
    /\ BestSites # {}
    /\ Win(FirstSite(BestSites), BestOf(FirstSite(BestSites)), NoSite)
    /\ UNCHANGED <<deck, payIndex, players, curPaysite, lastPayCardRule, curPayCardRule,
                   paycard, possibles, asked, playWufu, wufuSite, laid, turns, scoreVars>>

NoBestHu ==
    /\ pc = "wait" /\ started = Site
    /\ BestSites = {}
    /\ laid' = 0 /\ pc' = "lay"
    /\ UNCHANGED <<deck, payIndex, players, curPaysite, lastPayCardRule, curPayCardRule,
                   paycard, possibles, asked, playWufu, wufuSite, turns, outcome, scoreVars>>

\* The groups a player was dealt are laid one by one, quads before triples,
\* in the order of the list (any fixed order will do) and paid for
FaceOfGroup(g) == FaceOf(CHOOSE c \in g : TRUE)

LayGroup(s, rule, groups) ==
    LET g == CHOOSE h \in groups : TRUE
    IN  /\ CanPay(players[s], rule, g, NoCard)
        /\ players' = [players EXCEPT ![s] = payCards(@, rule, g, NoCard)]
        /\ payscore(s, rule, FaceOfGroup(g), NoSite)
        /\ UNCHANGED laid

LayDealt ==
    /\ pc = "lay" /\ laid < MAX_PLAYER_COUNT
    /\ LET s == turnSite(curPaysite, laid)
           m == players[s]
       IN  \/ m.ti # {} /\ LayGroup(s, "Ti_zimo", m.ti)
           \/ m.ti = {} /\ m.kan # {} /\ LayGroup(s, "Kan", m.kan)
           \/ /\ m.ti = {} /\ m.kan = {}
              /\ laid' = laid + 1
              /\ UNCHANGED <<players, rec, score, totalScore>>
    /\ UNCHANGED <<deck, payIndex, curPaysite, lastPayCardRule, curPayCardRule, paycard,
                   possibles, asked, playWufu, wufuSite, turns, outcome, pc,
                   results, zhuang, started, phase>>

-----------------------------------------------------------------------------
\* checkWufuBaojing: ask one of the players of S, if any, and wait
AskWufu(S, ms, next) ==
    LET able == {s \in S : checkWufuBaojing(ms[s])}
    IN  IF able = {}
        THEN wufuSite' = NoSite /\ playWufu' = FALSE /\ pc' = next
        ELSE wufuSite' = FirstSite(able) /\ pc' = "wufu" /\ UNCHANGED playWufu

AskAllWufu ==
    /\ pc = "lay" /\ laid = MAX_PLAYER_COUNT
    /\ AskWufu(Site, players, "tryhu")
    /\ UNCHANGED <<deck, payIndex, players, curPaysite, lastPayCardRule, curPayCardRule,
                   paycard, possibles, asked, laid, turns, outcome, scoreVars>>

\* The answer, or the default when the sleep of two minutes ends without one:
\* PlayWufubaojing as it was, true only for the first question of a room
WufuDone(code) ==
    /\ pc = "wufu"
    /\ players' = [players EXCEPT ![wufuSite] = neverWufuBaojing(@, code)]
    /\ playWufu' = FALSE /\ wufuSite' = NoSite
    /\ pc' = IF turns = 0 THEN "tryhu" ELSE "turn"
    /\ UNCHANGED <<deck, payIndex, curPaysite, lastPayCardRule, curPayCardRule, paycard,
                   possibles, asked, laid, turns, outcome, scoreVars>>

selectWufuBaojing == \E code \in BOOLEAN : WufuDone(code)
WufuTimeout == WufuDone(playWufu)

\* checkHupai
HuType(m, add) == Hupai(m.wufu, Threes(m), NoneSingle(m.hand \cup add))
HuSites == {s \in Site : HuType(players[s], {}) # "none"}

tryHupai ==
    /\ pc = "tryhu"
    /\ IF HuSites # {}
       THEN LET s == FirstSite(HuSites) IN Win(s, HuType(players[s], {}), NoSite)
       ELSE pc' = "turn" /\ UNCHANGED outcome
    /\ UNCHANGED <<deck, payIndex, players, curPaysite, lastPayCardRule, curPayCardRule,
                   paycard, possibles, asked, playWufu, wufuSite, laid, turns, scoreVars>>

-----------------------------------------------------------------------------
\* The main loop of run: a card from the deck or from the player's hand
NextTurn == turns' = IF turns < TurnCap THEN turns + 1 ELSE turns

systemDispatchCard ==
    /\ pc = "turn" /\ System
    /\ payIndex <= Len(deck)
    /\ paycard' = deck[payIndex]
    /\ payIndex' = payIndex + 1
    /\ NextTurn
    /\ pc' = "dispatch"
    /\ UNCHANGED <<deck, players, curPaysite, lastPayCardRule, curPayCardRule, possibles,
                   asked, playWufu, wufuSite, laid, outcome, scoreVars>>

Hongzhuang ==
    /\ pc = "turn" /\ System
    /\ payIndex > Len(deck)
    /\ paycard' = NoCard
    /\ NextTurn
    /\ Win(zhuang, "hongzhuang", NoSite)
    /\ UNCHANGED <<deck, payIndex, players, curPaysite, lastPayCardRule, curPayCardRule,
                   possibles, asked, playWufu, wufuSite, laid, scoreVars>>

\* waitPlayerPayPoke looks at the seat and the rule of an answer and takes any
\* card.  A card of the player's hand, or one that nobody has: the same card
\* in two places is more than sets of cards can tell.
Sent == players[curPaysite].hand \cup {c \in Foreign : \A s \in Site : c \notin Owned(players[s])}

\* Every client sends a card of its player's hand
HandSent == Foreign = {}

\* run goes on with the card whether payCards finds it in the hand or not
playerPayCards(c) ==
    /\ pc = "turn" /\ ~ System
    /\ c \in Sent
    /\ paycard' = c
    /\ players' = [players EXCEPT
         ![curPaysite] = choupai(payCards(@, "None", {c}, NoCard), "Chi", c)]
    /\ curPayCardRule' = IF CanPay(players[curPaysite], "None", {c}, NoCard) THEN "None"
                         ELSE curPayCardRule
    /\ NextTurn
    /\ pc' = "dispatch"
    /\ UNCHANGED <<deck, payIndex, curPaysite, lastPayCardRule, possibles, asked, playWufu,
                   wufuSite, laid, outcome, scoreVars>>

-----------------------------------------------------------------------------
\* dispatchCardTest: what the card on the table makes, by seat and rule
RuleCards ==
    LET makes(s) == IF s = curPaysite THEN dispatchMyCard(players[s], paycard)
                    ELSE dispatchOtherCard(players[s], paycard, System)
    IN  {e \in UNION {{[site |-> s, rule |-> r, cards |-> makes(s)[r], play |-> FALSE] :
                         r \in Melds} : s \in {t \in Site : System \/ t # curPaysite}} :
           e.cards # {}}

\* The cards that a player adds to the card on the table
Own(g) == g \ {paycard}

\* The groups of RuleCards, each with its seat and rule, that payCards accepts
Payable(entries) ==
    {x \in UNION {{[site |-> e.site, rule |-> e.rule, group |-> g] : g \in e.cards} :
                    e \in entries} :
        CanPay(players[x.site], x.rule, Own(x.group), paycard)}

After(x) == payCards(players[x.site], x.rule, Own(x.group), paycard)
HuAfter(x) == HuType(After(x), {})

\* Who discarded the card on the table.  Mutant: the deck is not told apart.
CardFromTurn == curPaysite
CardFrom == IF System THEN NoSite ELSE curPaysite

\* Who is next after a group that is laid by force
TurnAfter(x) ==
    IF canPayCardAfterRule(After(x), x.rule)
    THEN curPaysite' = x.site /\ lastPayCardRule' = x.rule
    ELSE curPaysite' = turnNextSite(x.site) /\ lastPayCardRule' = "None"

\* A group that is laid without asking: wins, or is paid for
Force1 ==
    /\ pc = "dispatch"
    /\ \E x \in Payable({e \in RuleCards : e.rule \in ForceRule1}) :
         /\ players' = [players EXCEPT ![x.site] = After(x)]
         /\ curPayCardRule' = x.rule
         /\ \/ /\ HuAfter(x) # "none"
               /\ Win(x.site, HuAfter(x), CardFrom)
               /\ UNCHANGED <<curPaysite, lastPayCardRule, playWufu, wufuSite, scoreVars>>
            \/ /\ HuAfter(x) = "none"
               /\ payscore(x.site, x.rule, FaceOfGroup(x.group), CardFrom)
               /\ AskWufu({x.site}, players', "turn")
               /\ TurnAfter(x)
               /\ UNCHANGED <<outcome, results, zhuang, started, phase>>
    /\ UNCHANGED <<deck, payIndex, paycard, possibles, asked, laid, turns>>

NoForce1 == \A e \in RuleCards : e.rule \notin ForceRule1

\* The groups with which the card on the table wins.  Each group is laid,
\* tried and taken back (popHistory), from the player on turn on.
HuGroups == {x \in Payable(RuleCards) : HuAfter(x) # "none"}

HuByRule ==
    /\ pc = "dispatch" /\ NoForce1
    /\ \E x \in HuGroups :
         /\ x.site = FirstSite({y.site : y \in HuGroups})
         /\ players' = [players EXCEPT ![x.site] = After(x)]
         /\ curPayCardRule' = x.rule
         /\ Win(x.site, HuAfter(x), CardFrom)
    /\ UNCHANGED <<deck, payIndex, curPaysite, lastPayCardRule, paycard, possibles, asked,
                   playWufu, wufuSite, laid, turns, scoreVars>>

\* The players who win with the card among the cards of their hand, by seat
HuByCardSites ==
    {s \in Site : (System \/ s # curPaysite) /\ HuType(players[s], {paycard}) # "none"}

\* Mutant of HuByCard: the rule of the last test is kept
HuByCardStale ==
    /\ pc = "dispatch" /\ NoForce1 /\ HuGroups = {}
    /\ HuByCardSites # {}
    /\ LET s == Min(HuByCardSites) IN Win(s, HuType(players[s], {paycard}), CardFrom)
    /\ UNCHANGED <<deck, payIndex, players, curPaysite, lastPayCardRule, curPayCardRule,
                   paycard, possibles, asked, playWufu, wufuSite, laid, turns, scoreVars>>

HuByCard ==
    /\ pc = "dispatch" /\ NoForce1 /\ HuGroups = {}
    /\ HuByCardSites # {}
    /\ LET s == Min(HuByCardSites) IN Win(s, HuType(players[s], {paycard}), CardFrom)
    /\ curPayCardRule' = "None"
    /\ UNCHANGED <<deck, payIndex, players, curPaysite, lastPayCardRule, paycard, possibles,
                   asked, playWufu, wufuSite, laid, turns, scoreVars>>

NoHu == NoForce1 /\ HuGroups = {} /\ HuByCardSites = {}

\* A Pao.  The test for a win after it is the one that HuByRule has just made.
Force2 ==
    /\ pc = "dispatch" /\ NoHu
    /\ \E x \in Payable({e \in RuleCards : e.rule \in ForceRule2}) :
         /\ players' = [players EXCEPT ![x.site] = After(x)]
         /\ curPayCardRule' = x.rule
         /\ payscore(x.site, x.rule, FaceOfGroup(x.group), CardFrom)
         /\ TurnAfter(x)
    /\ pc' = "turn"
    /\ UNCHANGED <<deck, payIndex, paycard, possibles, asked, playWufu, wufuSite, laid, turns,
                   outcome, results, zhuang, started, phase>>

-----------------------------------------------------------------------------
\* The groups that are offered: Peng, and Chi where canChiWithPay allows it
Offers ==
    {e \in RuleCards :
        e.rule = "Chi" => canChiWithPay(players[e.site], e.cards, e.site, curPaysite)}

\* The places of the offers after table.sort, the highest rule first; the
\* order of two Chi is open
\* Mutant of RuleLevel: the lowest rule first
RuleLevelUp(r) == IF r = "Peng" THEN 13 ELSE 14
RuleLevel(r) == IF r = "Peng" THEN 14 ELSE 13
Sortings(E) ==
    {f \in [E -> 1..Cardinality(E)] :
        \A d, e \in E : /\ f[d] = f[e] => d = e
                        /\ RuleLevel(d.rule) > RuleLevel(e.rule) => f[d] < f[e]}

\* curPayCardRule after the tests of HuByRule: the rule of the last one, in the
\* open order in which pairs visits the rules of the last player
ProbedRules ==
    LET X == Payable(RuleCards)
        last == CHOOSE x \in X : \A y \in X :
                   SeatsAfter(curPaysite, y.site) <= SeatsAfter(curPaysite, x.site)
    IN  IF X = {} THEN {curPayCardRule} ELSE {x.rule : x \in {y \in X : y.site = last.site}}

\* Mutant of PassTurn: continue stays true
PassAgain ==
    /\ UNCHANGED <<curPaysite, lastPayCardRule>>
    /\ possibles' = {} /\ asked' = {}
    /\ pc' = "dispatch"

\* Nobody takes the card: the next player draws
PassTurn ==
    /\ curPaysite' = turnNextSite(curPaysite)
    /\ lastPayCardRule' = "None"
    /\ possibles' = {} /\ asked' = {}
    /\ pc' = "turn"

Offer ==
    /\ pc = "dispatch" /\ NoHu
    /\ \A e \in RuleCards : e.rule \notin ForceRule2
    /\ curPayCardRule' \in ProbedRules
    /\ \/ Offers = {} /\ PassTurn
       \/ /\ Offers # {}
          /\ asked' = {<<e.site, e.rule>> : e \in Offers}
          /\ \E f \in Sortings(Offers) :
               possibles' = {[site |-> e.site, rule |-> e.rule, cards |-> e.cards,
                              play |-> FALSE, rank |-> f[e]] : e \in Offers}
          /\ pc' = "offer"
          /\ UNCHANGED <<curPaysite, lastPayCardRule>>
    /\ UNCHANGED <<deck, payIndex, players, paycard, playWufu, wufuSite, laid, turns,
                   outcome, scoreVars>>

\* The players' cards when the question is settled: an offer that is no longer
\* in the list was passed on, and its face is choupai for that player
Choupaid(rest) ==
    [s \in Site |-> [players[s] EXCEPT !.chou = [r \in {"Chi", "Peng"} |->
        IF <<s, r>> \in asked /\ ~ \E e \in rest : e.site = s /\ e.rule = r
        THEN @[r] \cup {FaceOf(paycard)} ELSE @[r]]]]

\* The taken card leaves the discards of its player, but stays there for a Peng
Taken(ms, site, rule) ==
    [s \in Site |->
        CASE rule = "Chi" -> removeSingleShowCard(ms[s], {paycard})
          [] rule = "Peng" /\ ~ System /\ s = site ->
                [ms[s] EXCEPT !.pengSingle = @ \cup {paycard}]
          [] OTHER -> ms[s]]

\* The list after an answer: the player's other offers go, the one taken is
\* marked and keeps the group it is taken with
Rest(s, rule, g) ==
    {e \in possibles : e.site # s}
      \cup {[e EXCEPT !.cards = {g}, !.play = TRUE] :
               e \in {d \in possibles : d.site = s /\ d.rule = rule}}

\* The group that is laid when the best offer is taken
LayMeld(rest, e) ==
    LET g == CHOOSE h \in e.cards : TRUE
        ms == Taken(Choupaid(rest), e.site, e.rule)
        paid == CanPay(ms[e.site], e.rule, Own(g), paycard)
    IN  /\ players' = [ms EXCEPT ![e.site] = payCards(@, e.rule, Own(g), paycard)]
        /\ curPayCardRule' = IF paid THEN e.rule ELSE curPayCardRule
        /\ payscore(e.site, e.rule, FaceOfGroup(g), CardFrom)
        /\ AskWufu({e.site}, players', "turn")
        /\ curPaysite' = e.site /\ lastPayCardRule' = e.rule
        /\ possibles' = {} /\ asked' = {}
        /\ UNCHANGED <<results, zhuang, started, phase>>

\* One round of the loop of waitPlayerPayRulePoke, with what run does when it
\* returns
Answered(rest) ==
    /\ \/ /\ rest = {}
          /\ players' = Choupaid(rest)
          /\ PassTurn
          /\ UNCHANGED <<curPayCardRule, playWufu, wufuSite, scoreVars>>
       \/ \E e \in rest :
            /\ \A d \in rest : e.rank <= d.rank
            /\ IF e.play THEN LayMeld(rest, e)
               ELSE /\ possibles' = rest
                    /\ UNCHANGED <<players, curPaysite, lastPayCardRule, curPayCardRule,
                                   asked, playWufu, wufuSite, pc, scoreVars>>
    /\ UNCHANGED <<deck, payIndex, paycard, laid, turns, outcome>>

TakeOffer ==
    /\ pc = "offer"
    /\ \E e \in possibles : ~ e.play /\ \E g \in e.cards : Answered(Rest(e.site, e.rule, g))

PassOffer ==
    /\ pc = "offer"
    /\ \E e \in possibles : ~ e.play /\ Answered({d \in possibles : d.site # e.site})

-----------------------------------------------------------------------------
\* The end of the coroutine: settlement, then the room waits or is closed
Settle ==
    /\ pc = "settle"
    /\ settle(outcome.type, curPayCardRule, outcome.site, CardFrom, outcome.dp,
              curPaysite, turns)
    /\ pc' = IF phase' = "finish" THEN "over" ELSE "idle"
    /\ IF phase' = "finish" THEN UNCHANGED <<curPaysite, turns>>
       ELSE curPaysite' = 0 /\ turns' = 0
    /\ possibles' = {}
    /\ UNCHANGED <<deck, payIndex, players, lastPayCardRule, curPayCardRule, paycard, asked,
                   playWufu, wufuSite, laid, outcome>>

\* The room is closed
Over == pc = "over" /\ UNCHANGED vars

Next ==
    \/ startPlay
    \/ \E p \in Site : StartGame(p)
    \/ BestHu \/ NoBestHu \/ LayDealt \/ AskAllWufu \/ selectWufuBaojing \/ WufuTimeout
    \/ tryHupai \/ systemDispatchCard \/ Hongzhuang
    \/ \E c \in Card : playerPayCards(c)
    \/ Force1 \/ HuByRule \/ HuByCard \/ Force2 \/ Offer \/ TakeOffer \/ PassOffer
    \/ Settle \/ Over

Spec == Init /\ [][Next]_vars

\* run goes on by itself, and a player who is asked answers (or, for a wufu
\* alarm, the sleep ends).  This is WF_vars(Next) in a form that TLC evaluates
\* cheaply: a step is enabled wherever the room is not closed (TLC finds no
\* deadlock), and by Spec every change is a step of Next.
FairSpec == Spec /\ ([]<>(pc = "over") \/ []<><<TRUE>>_vars)

-----------------------------------------------------------------------------
(* What the table promises                                                 *)

Entry == [site : Site, rule : Melds, cards : SUBSET SUBSET Card, play : BOOLEAN,
          rank : Nat]

TypeOK ==
    /\ ScoreTypeOK
    /\ deck \in Seq(Card) /\ payIndex \in Nat \ {0}
    /\ players \in [Site -> CardMgr]
    /\ curPaysite \in Site \cup {0}
    /\ lastPayCardRule \in Rule /\ curPayCardRule \in Rule
    /\ paycard \in Card \cup {NoCard}
    /\ possibles \in SUBSET Entry
    /\ asked \in SUBSET (Site \X Rule)
    /\ playWufu \in BOOLEAN /\ wufuSite \in Site \cup {NoSite}
    /\ laid \in 0..MAX_PLAYER_COUNT /\ turns \in 0..TurnCap
    /\ outcome \in [site : Site \cup {NoSite}, type : WinType, dp : Site \cup {NoSite}]
    /\ pc \in {"idle", "wait", "lay", "wufu", "tryhu", "turn", "dispatch", "offer",
               "settle", "over"}

Undrawn == {deck[i] : i \in payIndex..Len(deck)}
CardOnTable == pc \in {"dispatch", "offer"}

\* No card is in two places: the cards of two players (payCards moves them
\* between handed and showed), the cards that systemDispatchCard has not dealt
\* yet and the card on the table are different cards.
OneOwner ==
    /\ \A s, t \in Site : s # t => Owned(players[s]) \cap Owned(players[t]) = {}
    /\ \A s \in Site : Owned(players[s]) \cap Undrawn = {}
    /\ CardOnTable => /\ paycard \notin Undrawn
                      /\ \A s \in Site : paycard \notin Owned(players[s])

\* The test for a win leaves no trace: backspacePaycards after payCards gives
\* back the cards as they were, for every group that run tries.
ProbesUndone ==
    pc = "dispatch" =>
        \A x \in Payable(RuleCards) : popHistory(After(x), paycard) = players[x.site]

\* A card makes at most one group that is laid by force.  The two loops over
\* the forced rules of run do not stop at the first one they lay, and the
\* second does not ask whether the first laid one.
OneForcedGroup ==
    pc = "dispatch" =>
        Cardinality(Payable({e \in RuleCards : e.rule \in ForceRule1 \cup ForceRule2})) <= 1

\* A player who is to discard has one card more than the others, and each
\* group of four but the first adds one (canPayCardAfterRule decides who
\* discards after a group).  For players dealt at most one quad.
Balanced(m, due) ==
    LET extra == IF Quads(m) > 1 THEN Quads(m) - 1 ELSE 0
    IN  Cardinality(m.show["Ti_zimo"]) <= 1 =>
            Cardinality(Owned(m)) = PlayerCardCnt + due + extra
Due(s) == IF s = curPaysite /\ ~ System THEN 1 ELSE 0
HandBalance == pc = "turn" => \A s \in Site : Balanced(players[s], Due(s))

\* "A card I have discarded before I cannot eat again" (gameCenter.lua:893):
\* after a discard, no group that a player eats, but one that wins, has a card
\* of the discarded face.
NeverEatDiscarded ==
    pc \notin {"settle", "over", "idle"} =>
        \A s \in Site : \A i, j \in DOMAIN players[s].hist :
            LET d == players[s].hist[i]
                e == players[s].hist[j]
            IN  i < j /\ d.payrule = "None" /\ e.payrule = "Chi" =>
                    \A c \in d.cards, f \in e.cards : ~ Equal(c, f)

\* The rule by which payscoreHupai scores a win is the one of the group that
\* won: the tests of other groups before it set curPayCardRule too.
ScoredRuleWon ==
    pc = "settle" /\ outcome.type # "hongzhuang" /\ curPayCardRule \notin {"Ti", "None"} =>
        LET h == players[outcome.site].hist IN h[Len(h)].payrule = curPayCardRule

\* The best offer goes first (gameCenter.lua:770): nobody's Chi is laid while
\* a Peng of another player is still open.
PengBeforeChi ==
    [][pc = "offer" /\ pc' # "offer" /\ lastPayCardRule' = "Chi" =>
         \A e \in possibles : e.rule = "Peng" =>
            FaceOf(paycard) \in players'[e.site].chou["Peng"]]_vars

\* A wufu alarm (neverWufuBaojing) binds the player who raised it: whichever of
\* the tests of run finds the win, it is one with five triples.
WufuWinsByFive ==
    pc = "settle" /\ outcome.type # "hongzhuang" /\ players[outcome.site].wufu =>
        outcome.type = "wufu"

\* A player who raised a wufu alarm eats nothing any more, neither from their
\* own card (dispatchMyCard) nor from another's (dispatchOtherCard).
WufuNeverEats ==
    [][\A s \in Site : players[s].wufu /\ phase' = "playing" /\ pc # "idle" =>
         players'[s].show["Chi"] = players[s].show["Chi"]]_vars

\* "Four cards of each kind" (gameCenter.lua:528): the groups a player is
\* dealt by tidyHandCards, and lays, show at most four cards of a face.
FourOfAFace ==
    \A s \in Site : \A g, h \in Shown(players[s]) : g # h => g \cap h = {}

\* "Remove the card that is taken away" (gameCenter.lua:1074): a card in a
\* group of a player is not among the discards of another.
TakenIsGone ==
    \A s, t \in Site : \A r \in {"Chi", "Pao_kan", "Pao_wei", "Pao_peng"} :
        players[s].single \cap UNION players[t].show[r] = {}

\* A game ends: whatever the players do, as long as they answer, run returns
\* and the room is settled.
Finishes == <>(phase = "finish")

\* What holds of the cards at every step of run as long as HandSent: run does
\* not look at the card that a client sends (gameCenter.lua:702-710) and drops
\* the result of payCards (891-892), so with a card of no hand the player keeps
\* one card too many, and a card that somebody else has is in two places.
CardsKept == TypeOK /\ OneOwner /\ OneForcedGroup /\ HandBalance

\* A wufu alarm (checkWufuBaojing) binds its player to the end of the game: in
\* how they win, and in what they take
WufuBinds == []WufuWinsByFive /\ WufuNeverEats
=============================================================================
