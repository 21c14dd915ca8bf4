----------------------------- MODULE GameProofs -----------------------------
(***************************************************************************)
(* The inductive invariant of the table, and what run's actions do to the  *)
(* offers, to the scores and to the cards of the players: for any values,  *)
(* decks and win test, and for any number of games in a room.              *)
(***************************************************************************)
EXTENDS GameRun, CardProofs

\* Where run is says which of its variables are set
Playing == pc \notin {"idle", "over"} => phase = "playing" /\ curPaysite \in Site
Ready == pc \notin {"idle", "wait", "over"} => started = Site
Before == pc \in {"wait", "lay", "tryhu"} \/ (pc = "wufu" /\ turns = 0)
Opening ==
    /\ pc \in {"idle", "wait", "lay", "tryhu"} => turns = 0
    /\ Before => curPayCardRule = "Ti" /\ lastPayCardRule = "Ti"
    /\ CardOnTable => turns >= 1 /\ paycard \in Card
    /\ pc = "wufu" => wufuSite \in Site
Won ==
    pc = "settle" =>
        /\ outcome.type # "none" /\ outcome.site \in Site
        /\ outcome.dp \in {NoSite, CardFrom} /\ outcome.dp # outcome.site
        /\ CardFrom = outcome.site => curPayCardRule = "Ti"
Control == Playing /\ Ready /\ Opening /\ Won

\* The cards of each player are tidy, and the deck holds no card twice
TidyInv ==
    /\ \A s \in Site : Tidy(players[s])
    /\ \A i, j \in DOMAIN deck : deck[i] = deck[j] => i = j

\* Every offer on the table can be laid, and nobody is offered a Chi that they
\* gave up, by a discard or by an alarm
OfferKept(e) ==
    /\ e.rule \in {"Peng", "Chi"}
    /\ <<e.site, e.rule>> \in asked
    /\ ~ System => e.site # curPaysite
    /\ e.cards # {}
    /\ \A g \in e.cards : /\ g \in GroupsWith(paycard)
                          /\ CanPay(players[e.site], e.rule, Own(g), paycard)
    /\ e.rule = "Chi" => /\ ~ players[e.site].wufu
                         /\ \A c \in UNION e.cards : FaceOf(c) \notin players[e.site].chou["Chi"]
OfferInv ==
    pc = "offer" =>
        /\ \A e \in possibles : OfferKept(e)
        /\ \A d, e \in possibles : /\ RuleLevel(d.rule) > RuleLevel(e.rule) => d.rank < e.rank
                                   /\ d.site = e.site /\ d.rule = e.rule => d = e

\* A face that a player discarded stays in choupaid
HistoryInv == \A s \in Site : DiscardsKept(players[s])

\* Before the first card the only groups of four are the quads dealt
OnlyDealt(m) == \A r \in FourRules \ {"Ti_zimo"} : m.show[r] = {}

\* The number of cards of each player, wherever run is
BalanceInv ==
    /\ pc \in {"wait", "lay", "wufu", "tryhu", "turn"} =>
          \A s \in Site : Balanced(players[s], Due(s))
    /\ CardOnTable => \A s \in Site : Balanced(players[s], 0)
    /\ Before => \A s \in Site : OnlyDealt(players[s])

WufuInv ==
    /\ WufuWinsByFive
    /\ pc = "wait" => \A s \in Site : ~ players[s].wufu

GInv ==
    /\ TypeOK /\ ScoreInv /\ Control /\ OneOwner /\ TidyInv /\ OfferInv /\ HistoryInv
    /\ BalanceInv /\ NeverEatDiscarded /\ ScoredRuleWon /\ WufuInv

-----------------------------------------------------------------------------
(* Seats and groups                                                        *)

\* Of the cards on hand and the groups of four: one more group of four is paid
\* for by the card that makes it, or by the discard that the first one is owed
LEMMA OneMoreFour ==
    ASSUME NEW c \in Nat, NEW q \in Nat
    PROVE  /\ c + (IF q > 1 THEN q - 1 ELSE 0) + 1
                = c + (IF q + 1 <= 1 THEN 1 ELSE 0) + (IF q + 1 > 1 THEN (q + 1) - 1 ELSE 0)
           /\ c + (IF q > 1 THEN q - 1 ELSE 0) + 1
                = c + 1 + (IF q > 1 THEN q - 1 ELSE 0)
OBVIOUS

LEMMA AtMostOne ==
    ASSUME NEW a \in Nat, NEW b \in Nat, a <= b, b <= 1
    PROVE  ~ a > 1 /\ ~ b > 1 /\ a <= 1
OBVIOUS

LEMMA Seats ==
    /\ NoSite \notin Site
    /\ \A s \in Site : turnNextSite(s) \in Site /\ \A n \in 0..3 : turnSite(s, n) \in Site
    /\ \A s, t \in Site : SeatsAfter(s, t) \in 0..3
    /\ \A z, s, t \in Site : SeatsAfter(z, s) = SeatsAfter(z, t) => s = t
<1> USE DEF Site, MAX_PLAYER_COUNT
<1>1. NoSite \notin Site
  BY DEF NoSite
<1>2. ASSUME NEW s \in Site, NEW n \in 0..3
      PROVE  turnSite(s, n) \in Site
  BY DEF turnSite
<1>3. ASSUME NEW s \in Site
      PROVE  turnNextSite(s) \in Site
  BY <1>2 DEF turnNextSite
<1>4. ASSUME NEW s \in Site, NEW t \in Site
      PROVE  SeatsAfter(s, t) \in 0..3
  BY DEF SeatsAfter
<1>5. ASSUME NEW z \in Site, NEW s \in Site, NEW t \in Site,
             SeatsAfter(z, s) = SeatsAfter(z, t)
      PROVE  s = t
  BY <1>5 DEF SeatsAfter
<1> QED BY <1>1, <1>2, <1>3, <1>4, <1>5

LEMMA FirstSiteIn ==
    ASSUME Facts, NEW S \in SUBSET Site, S # {}, curPaysite \in Site
    PROVE  FirstSite(S) \in S
<1> DEFINE T == {SeatsAfter(curPaysite, s) : s \in S}
<1>1. T \in SUBSET Nat /\ T # {}
  BY Seats
<1>2. PICK n \in T : \A k \in T : n <= k
  BY <1>1, LeastNat, Zenon
<1>3. \E s \in S : \A t \in S : SeatsAfter(curPaysite, s) <= SeatsAfter(curPaysite, t)
  BY <1>2
<1> QED BY <1>3 DEF FirstSite

LEMMA MinIn ==
    ASSUME Facts, NEW S \in SUBSET Site, S # {}
    PROVE  Min(S) \in S
<1>1. S \in SUBSET Nat
  BY DEF Site, MAX_PLAYER_COUNT
<1>2. \E n \in S : \A k \in S : n <= k
  BY <1>1, LeastNat
<1> QED BY <1>2 DEF Min

\* A group that the card on the table makes, and that payCards accepts
Candidate(x) ==
    /\ x.site \in Site /\ x.rule \in FromHand \cup FromShow
    /\ x.group \in GroupsWith(paycard)
    /\ CanPay(players[x.site], x.rule, Own(x.group), paycard)
    /\ ~ System => x.site # curPaysite
    /\ x.rule \in IF x.site = curPaysite THEN MyRules ELSE OtherRules
    /\ x.rule = "Chi" => ~ players[x.site].wufu
    /\ x.rule = "Wei" => FaceOf(paycard) \notin players[x.site].chou["Peng"]
    /\ x.rule = "Wei_chou" => FaceOf(paycard) \in players[x.site].chou["Peng"]
    /\ x = [site |-> x.site, rule |-> x.rule, group |-> x.group]

\* An entry of RuleCards, before payCards is asked
Made(e) ==
    /\ e.site \in Site /\ e.rule \in Melds /\ e.cards # {}
    /\ e.cards \subseteq GroupsWith(paycard)
    /\ ~ System => e.site # curPaysite
    /\ e.rule \in IF e.site = curPaysite THEN MyRules ELSE OtherRules
    /\ e.rule = "Chi" => /\ ~ players[e.site].wufu
                         /\ e.cards \subseteq Chi(players[e.site].hand, paycard)
    /\ e.rule = "Peng" => e.cards \subseteq Peng(players[e.site].hand, paycard)
    /\ e.rule = "Wei" => FaceOf(paycard) \notin players[e.site].chou["Peng"]
    /\ e.rule = "Wei_chou" => FaceOf(paycard) \in players[e.site].chou["Peng"]
    /\ e.play = FALSE
    /\ e = [site |-> e.site, rule |-> e.rule, cards |-> e.cards, play |-> e.play]

LEMMA MyCardRules ==
    ASSUME NEW m, NEW card
    PROVE  LET d == dispatchMyCard(m, card)
           IN  /\ d["Chi"] = IF m.wufu THEN {} ELSE Chi(m.hand, card)
               /\ d["Peng"] = {}
               /\ d["Wei"] = IF FaceOf(card) \in m.chou["Peng"] THEN {} ELSE Peng(m.hand, card)
               /\ d["Wei_chou"] = IF FaceOf(card) \in m.chou["Peng"]
                                  THEN Peng(m.hand, card) ELSE {}
BY DEF dispatchMyCard, Melds, Rule

LEMMA OtherCardRules ==
    ASSUME NEW m, NEW card, NEW sys
    PROVE  LET d == dispatchOtherCard(m, card, sys)
           IN  /\ d["Chi"] = IF m.wufu THEN {} ELSE Chi(m.hand, card)
               /\ d["Peng"] = Peng(m.hand, card)
               /\ d["Wei"] = {} /\ d["Wei_chou"] = {}
BY DEF dispatchOtherCard, Melds, Rule

LEMMA RuleCardsMade ==
    ASSUME Facts, players \in [Site -> CardMgr], paycard \in Card, NEW e \in RuleCards
    PROVE  Made(e)
<1> DEFINE made(s) == IF s = curPaysite THEN dispatchMyCard(players[s], paycard)
                      ELSE dispatchOtherCard(players[s], paycard, System)
<1>1. PICK s \in Site, r \in Melds :
         /\ System \/ s # curPaysite
         /\ made(s)[r] # {}
         /\ e = [site |-> s, rule |-> r, cards |-> made(s)[r], play |-> FALSE]
  <2>1. e \in UNION {{[site |-> s, rule |-> r, cards |-> made(s)[r], play |-> FALSE] :
                         r \in Melds} : s \in {t \in Site : System \/ t # curPaysite}}
        /\ e.cards # {}
    BY DEF RuleCards
  <2>2. PICK s \in {t \in Site : System \/ t # curPaysite} :
           e \in {[site |-> s, rule |-> r, cards |-> made(s)[r], play |-> FALSE] : r \in Melds}
    BY <2>1
  <2>3. PICK r \in Melds : e = [site |-> s, rule |-> r, cards |-> made(s)[r], play |-> FALSE]
    BY <2>2
  <2> QED BY <2>1, <2>2, <2>3
<1>2. players[s] \in CardMgr
  BY <1>1
<1>3. CASE s = curPaysite
  <2> DEFINE d == dispatchMyCard(players[s], paycard)
  <2>1. d[r] \subseteq GroupsWith(paycard) /\ (d[r] # {} => r \in MyRules)
    BY <1>1, <1>2, MyCardGroups
  <2>2. /\ d["Chi"] = IF players[s].wufu THEN {} ELSE Chi(players[s].hand, paycard)
        /\ d["Peng"] = {}
        /\ d["Wei"] = IF FaceOf(paycard) \in players[s].chou["Peng"]
                      THEN {} ELSE Peng(players[s].hand, paycard)
        /\ d["Wei_chou"] = IF FaceOf(paycard) \in players[s].chou["Peng"]
                           THEN Peng(players[s].hand, paycard) ELSE {}
    BY MyCardRules
  <2>3. made(s) = d
    BY <1>3
  <2> HIDE DEF made, d
  <2> QED BY <1>1, <1>3, <2>1, <2>2, <2>3 DEF Made
<1>4. CASE s # curPaysite
  <2> DEFINE d == dispatchOtherCard(players[s], paycard, System)
  <2>1. d[r] \subseteq GroupsWith(paycard) /\ (d[r] # {} => r \in OtherRules)
    BY <1>1, <1>2, OtherCardGroups
  <2>2. /\ d["Chi"] = IF players[s].wufu THEN {} ELSE Chi(players[s].hand, paycard)
        /\ d["Peng"] = Peng(players[s].hand, paycard)
        /\ d["Wei"] = {} /\ d["Wei_chou"] = {}
    BY OtherCardRules
  <2>3. made(s) = d
    BY <1>4
  <2> HIDE DEF made, d
  <2> QED BY <1>1, <1>4, <2>1, <2>2, <2>3 DEF Made
<1> QED BY <1>3, <1>4

LEMMA PayableCandidate ==
    ASSUME Facts, players \in [Site -> CardMgr], paycard \in Card, NEW E \in SUBSET RuleCards,
           NEW x \in Payable(E)
    PROVE  Candidate(x) /\ \E e \in E : x.site = e.site /\ x.rule = e.rule /\ x.group \in e.cards
<1>1. /\ x \in UNION {{[site |-> e.site, rule |-> e.rule, group |-> g] : g \in e.cards} : e \in E}
      /\ CanPay(players[x.site], x.rule, Own(x.group), paycard)
  BY DEF Payable
<1>2. PICK e \in E : x \in {[site |-> e.site, rule |-> e.rule, group |-> g] : g \in e.cards}
  BY <1>1
<1>3. PICK g \in e.cards : x = [site |-> e.site, rule |-> e.rule, group |-> g]
  BY <1>2
<1>4. Made(e)
  BY RuleCardsMade
<1>5. MyRules \cup OtherRules \subseteq FromHand \cup FromShow
  BY DEF MyRules, OtherRules, FromHand, FromShow
<1>6. e.rule \in MyRules \cup OtherRules
  BY <1>4 DEF Made
<1>7. Candidate(x)
  BY <1>1, <1>3, <1>4, <1>5, <1>6 DEF Candidate, Made
<1> QED BY <1>3, <1>7

-----------------------------------------------------------------------------
(* What the invariant says of the card on the table                        *)

LEMMA SameWithout ==
    ASSUME NEW A, NEW B, NEW c, c \in A, c \in B, A \ {c} = B \ {c}
    PROVE  A = B
<1>1. ASSUME NEW z
      PROVE  z \in A <=> z \in B
  BY z \in A \ {c} <=> z \in B \ {c}
<1> QED BY <1>1

LEMMA OneForced ==
    ASSUME Facts
    PROVE  GInv => OneForcedGroup
<1> SUFFICES ASSUME GInv, pc = "dispatch"
             PROVE  Cardinality(Payable({e \in RuleCards :
                                   e.rule \in ForceRule1 \cup ForceRule2})) <= 1
  BY DEF OneForcedGroup
<1> DEFINE E == {e \in RuleCards : e.rule \in ForceRule1 \cup ForceRule2}
           X == Payable(E)
<1>1. /\ players \in [Site -> CardMgr] /\ paycard \in Card
      /\ \A s \in Site : Tidy(players[s]) /\ paycard \notin Owned(players[s])
      /\ \A s, t \in Site : s # t => Owned(players[s]) \cap Owned(players[t]) = {}
  BY DEF GInv, TypeOK, Control, Opening, TidyInv, OneOwner, CardOnTable
<1>2. ASSUME NEW x \in X
      PROVE  Candidate(x) /\ x.rule \in Forced
  <2>1. Candidate(x) /\ \E e \in E : x.rule = e.rule
    BY <1>1, PayableCandidate
  <2>2. x.rule \in (MyRules \cup OtherRules) \cap (ForceRule1 \cup ForceRule2)
    BY <2>1 DEF Candidate
  <2> QED BY <2>1, <2>2 DEF Forced, MyRules, OtherRules, ForceRule1, ForceRule2, FromShow
<1>3. ASSUME NEW x \in X, NEW y \in X
      PROVE  x = y
  <2>1. /\ Candidate(x) /\ x.rule \in Forced
        /\ Candidate(y) /\ y.rule \in Forced
    BY <1>2
  <2>2. /\ CanPay(players[x.site], x.rule, Own(x.group), paycard) /\ x.site \in Site
        /\ CanPay(players[y.site], y.rule, Own(y.group), paycard) /\ y.site \in Site
    BY <2>1 DEF Candidate
  <2>3. x.site = y.site
    <3> SUFFICES ASSUME x.site # y.site PROVE FALSE
      OBVIOUS
    <3>1. x.rule \notin FromShow /\ y.rule \notin FromShow
      BY <1>1, <2>1, <2>2, ForcedApart
    <3>2. x.rule \notin OtherRules /\ y.rule \notin OtherRules
      BY <2>1, <3>1 DEF Forced, OtherRules
    <3> QED BY <2>1, <3>2 DEF Candidate
  <2>4. /\ Own(x.group) = Own(y.group)
        /\ x.rule \in FromShow <=> y.rule \in FromShow
        /\ x.rule \in FromShow => VictRule(x.rule) = VictRule(y.rule)
    BY <1>1, <2>1, <2>2, <2>3, ForcedOnce
  <2>5. x.group = y.group
    <3>1. paycard \in x.group /\ paycard \in y.group
      BY <2>1 DEF Candidate, GroupsWith
    <3>2. x.group \ {paycard} = y.group \ {paycard}
      BY <2>4 DEF Own
    <3> QED BY <3>1, <3>2, SameWithout
  <2>6. x.rule = y.rule
    <3>1. CASE x.rule \in FromShow
      BY <2>1, <2>3, <2>4, <3>1 DEF Candidate, MyRules, OtherRules, FromShow, VictRule
    <3>2. CASE x.rule \notin FromShow
      BY <2>1, <2>3, <2>4, <3>2 DEF Candidate, Forced
    <3> QED BY <3>1, <3>2
  <2> QED BY <2>1, <2>3, <2>5, <2>6 DEF Candidate
<1> HIDE DEF X
<1>4. Cardinality(X) <= 1
  <2>1. CASE X = {}
    BY <2>1 DEF Facts, FS_Empty
  <2>2. CASE X # {}
    <3>1. PICK x \in X : TRUE
      BY <2>2
    <3>2. X = {x}
      BY <1>3, <3>1
    <3> QED BY <3>2 DEF Facts, FS_One
  <2> QED BY <2>1, <2>2
<1> QED BY <1>4 DEF X, E

LEMMA ProbesAlwaysUndone ==
    ASSUME Facts
    PROVE  GInv => ProbesUndone
<1> SUFFICES ASSUME GInv, pc = "dispatch", NEW x \in Payable(RuleCards)
             PROVE  popHistory(After(x), paycard) = players[x.site]
  BY DEF ProbesUndone
<1>1. /\ players \in [Site -> CardMgr] /\ paycard \in Card
      /\ \A s \in Site : paycard \notin Owned(players[s])
  BY DEF GInv, TypeOK, Control, Opening, OneOwner, CardOnTable
<1>2. Candidate(x)
  BY <1>1, PayableCandidate
<1>3. /\ players[x.site] \in CardMgr /\ x.rule \in FromHand \cup FromShow
      /\ CanPay(players[x.site], x.rule, Own(x.group), paycard)
      /\ paycard \notin Owned(players[x.site])
  BY <1>1, <1>2 DEF Candidate
<1> QED BY <1>1, <1>3, PopUndoes DEF After

\* The offers that are left after an answer
RestOf(rest) ==
    /\ rest \in SUBSET Entry
    /\ \A e \in rest : OfferKept(e)
    /\ \A e \in rest : \E d \in possibles : d.site = e.site /\ d.rule = e.rule /\ d.rank = e.rank
    /\ \A d, e \in rest : /\ RuleLevel(d.rule) > RuleLevel(e.rule) => d.rank < e.rank
                          /\ d.site = e.site /\ d.rule = e.rule => d = e

LEMMA OffersLeft ==
    ASSUME GInv, TakeOffer \/ PassOffer
    PROVE  pc = "offer" /\ \E rest : RestOf(rest) /\ Answered(rest)
<1>0. pc = "offer"
  BY DEF TakeOffer, PassOffer
<1>1. /\ possibles \in SUBSET Entry /\ \A e \in possibles : OfferKept(e)
      /\ \A d, e \in possibles : /\ RuleLevel(d.rule) > RuleLevel(e.rule) => d.rank < e.rank
                                 /\ d.site = e.site /\ d.rule = e.rule => d = e
  BY <1>0 DEF GInv, TypeOK, OfferInv
<1>2. CASE PassOffer
  <2>1. PICK e \in possibles : Answered({d \in possibles : d.site # e.site})
    BY <1>2, Zenon DEF PassOffer
  <2>2. RestOf({d \in possibles : d.site # e.site})
    BY <1>1 DEF RestOf
  <2> QED BY <1>0, <2>1, <2>2
<1>3. CASE TakeOffer
  <2>1. PICK e \in possibles : \E g \in e.cards : Answered(Rest(e.site, e.rule, g))
    BY <1>3 DEF TakeOffer
  <2>2. PICK g \in e.cards : Answered(Rest(e.site, e.rule, g))
    BY <2>1
  <2> DEFINE t == [e EXCEPT !.cards = {g}, !.play = TRUE]
             rest == {d \in possibles : d.site # e.site} \cup {t}
  <2>3. Rest(e.site, e.rule, g) = rest
    <3>1. {d \in possibles : d.site = e.site /\ d.rule = e.rule} = {e}
      BY <1>1
    <3> QED BY <3>1, Zenon DEF Rest
  <2>4. /\ e \in Entry /\ g \in SUBSET Card
        /\ OfferKept(e)
    BY <1>1, <2>2 DEF Entry
  <2>5. /\ t \in Entry /\ t.site = e.site /\ t.rule = e.rule /\ t.rank = e.rank
        /\ t.cards = {g}
    BY <2>4, Zenon DEF Entry
  <2> HIDE DEF t
  <2>6. OfferKept(t)
    BY <2>2, <2>4, <2>5 DEF OfferKept
  <2>7. RestOf(rest)
    BY <1>1, <2>5, <2>6 DEF RestOf
  <2> QED BY <1>0, <2>2, <2>3, <2>7
<1> QED BY <1>2, <1>3

-----------------------------------------------------------------------------
(* The scores                                                              *)

LEMMA MeldIsScored ==
    ASSUME phase = "playing", started = Site, NEW p \in Site, NEW rule \in Rule \ {"None", "Ti"},
           NEW face \in Face, NEW s \in (Site \ {p}) \cup {NoSite}, payscore(p, rule, face, s),
           UNCHANGED <<results, zhuang, started, phase>>
    PROVE  ScoreNext
<1>1. Meld(p)
  BY DEF Meld
<1> QED BY <1>1 DEF ScoreNext

LEMMA GroupHasFace ==
    ASSUME NEW g \in SUBSET Card, g # {}
    PROVE  FaceOfGroup(g) \in Face
<1>1. (CHOOSE c \in g : TRUE) \in Card
  OBVIOUS
<1>2. \A c \in Card : FaceOf(c) \in Face
  BY DEF FaceOf, Face, Card
<1> QED BY <1>1, <1>2 DEF FaceOfGroup

\* A group with the card on the table, scored by the one who discarded it
LEMMA TableMeldIsScored ==
    ASSUME GInv, CardOnTable, NEW p \in Site, ~ System => p # curPaysite,
           NEW rule \in FromHand \cup FromShow, NEW g \in GroupsWith(paycard),
           payscore(p, rule, FaceOfGroup(g), CardFrom),
           UNCHANGED <<results, zhuang, started, phase>>
    PROVE  ScoreNext
<1>1. phase = "playing" /\ started = Site /\ curPaysite \in Site
  BY DEF GInv, Control, Playing, Ready, CardOnTable
<1>2. FaceOfGroup(g) \in Face
  BY GroupHasFace DEF GroupsWith
<1>3. CardFrom \in (Site \ {p}) \cup {NoSite}
  BY <1>1 DEF CardFrom
<1>4. rule \in Rule \ {"None", "Ti"}
  BY DEF FromHand, FromShow, Rule
<1> QED BY <1>1, <1>2, <1>3, <1>4, MeldIsScored

LEMMA LayDealtScored ==
    ASSUME Facts, GInv, LayDealt
    PROVE  [ScoreNext]_scoreVars
<1> DEFINE s == turnSite(curPaysite, laid)
           m == players[s]
<1>1. /\ pc = "lay" /\ phase = "playing" /\ started = Site /\ curPaysite \in Site
      /\ players \in [Site -> CardMgr] /\ laid \in 0..3
  BY DEF LayDealt, GInv, TypeOK, Control, Playing, Ready, MAX_PLAYER_COUNT
<1>2. s \in Site
  BY <1>1, Seats
<1>3. UNCHANGED <<results, zhuang, started, phase>>
  BY DEF LayDealt
<1> HIDE DEF s
<1>4. ASSUME NEW rule \in {"Ti_zimo", "Kan"}, NEW groups, LayGroup(s, rule, groups)
      PROVE  ScoreNext
  <2> DEFINE g == CHOOSE h \in groups : TRUE
  <2>1. CanPay(m, rule, g, NoCard) /\ payscore(s, rule, FaceOfGroup(g), NoSite)
    BY <1>4 DEF LayGroup
  <2>2. Tidy(m) /\ m \in CardMgr
    BY <1>1, <1>2 DEF GInv, TidyInv
  <2> HIDE DEF g
  <2>3. DealtLaid(m, payCards(m, rule, g, NoCard), rule, g)
    BY <2>1, <2>2, DealtEffect
  <2>4. FaceOfGroup(g) \in Face
    BY <2>3, GroupHasFace DEF DealtLaid
  <2>5. rule \in Rule \ {"None", "Ti"}
    BY DEF Rule
  <2> QED BY <1>1, <1>2, <1>3, <2>1, <2>4, <2>5, MeldIsScored
<1>5. \/ LayGroup(s, "Ti_zimo", m.ti) \/ LayGroup(s, "Kan", m.kan)
      \/ UNCHANGED <<rec, score, totalScore>>
  BY DEF LayDealt, s
<1> QED BY <1>3, <1>4, <1>5 DEF scoreVars

LEMMA SettleScored ==
    ASSUME GInv, Settle
    PROVE  ScoreNext
<1>1. /\ pc = "settle" /\ phase = "playing" /\ started = Site /\ curPaysite \in Site
      /\ outcome.type \in WinType \ {"none"} /\ outcome.site \in Site
      /\ outcome.dp \in {NoSite, CardFrom} /\ outcome.dp # outcome.site
      /\ CardFrom = outcome.site => curPayCardRule = "Ti"
      /\ curPayCardRule \in Rule /\ turns \in 0..2
  BY DEF Settle, GInv, TypeOK, Control, Playing, Ready, Won, TurnCap
<1>2. CardFrom \in {NoSite, curPaysite}
  BY DEF CardFrom
<1>3. settle(outcome.type, curPayCardRule, outcome.site, CardFrom, outcome.dp,
             curPaysite, turns)
  BY DEF Settle
<1>4. Hu(outcome.site)
  BY <1>1, <1>2, <1>3 DEF Hu
<1> QED BY <1>1, <1>4 DEF ScoreNext

\* What holds when the card on the table is looked at
Dispatching ==
    /\ players \in [Site -> CardMgr] /\ paycard \in Card /\ CardOnTable
    /\ phase = "playing" /\ started = Site /\ curPaysite \in Site /\ turns >= 1
    /\ \A s \in Site : /\ players[s] \in CardMgr /\ Tidy(players[s])
                       /\ paycard \notin Owned(players[s])

LEMMA AtDispatch == GInv /\ CardOnTable => Dispatching
BY DEF GInv, Dispatching, TypeOK, Control, Playing, Ready, Opening, TidyInv, OneOwner, CardOnTable

LEMMA ForceCandidate ==
    ASSUME Facts, Dispatching, NEW F, NEW x \in Payable({e \in RuleCards : e.rule \in F})
    PROVE  Candidate(x) /\ x.rule \in F
<1>1. players \in [Site -> CardMgr] /\ paycard \in Card
  BY DEF Dispatching
<1>2. Candidate(x) /\ \E e \in {d \in RuleCards : d.rule \in F} : x.rule = e.rule
  BY <1>1, PayableCandidate
<1> QED BY <1>2

LEMMA ForceScored ==
    ASSUME Facts, GInv, Force1 \/ Force2
    PROVE  [ScoreNext]_scoreVars
<1>1. GInv /\ CardOnTable /\ Dispatching
  BY AtDispatch DEF Force1, Force2, CardOnTable
<1>2. ASSUME NEW x, Candidate(x), payscore(x.site, x.rule, FaceOfGroup(x.group), CardFrom),
             UNCHANGED <<results, zhuang, started, phase>>
      PROVE  ScoreNext
  BY <1>1, <1>2, TableMeldIsScored DEF Candidate
<1>3. CASE Force1
  <2>1. PICK x \in Payable({e \in RuleCards : e.rule \in ForceRule1}) :
           \/ UNCHANGED scoreVars
           \/ /\ payscore(x.site, x.rule, FaceOfGroup(x.group), CardFrom)
              /\ UNCHANGED <<results, zhuang, started, phase>>
    BY <1>3, Zenon DEF Force1
  <2> QED BY <1>1, <1>2, <2>1, ForceCandidate, Zenon
<1>4. CASE Force2
  <2>1. PICK x \in Payable({e \in RuleCards : e.rule \in ForceRule2}) :
           /\ payscore(x.site, x.rule, FaceOfGroup(x.group), CardFrom)
           /\ UNCHANGED <<results, zhuang, started, phase>>
    BY <1>4, Zenon DEF Force2
  <2> QED BY <1>1, <1>2, <2>1, ForceCandidate, Zenon
<1> QED BY <1>3, <1>4

\* The group that is laid when the best offer is taken
LEMMA TakenGroup ==
    ASSUME NEW e, OfferKept(e)
    PROVE  /\ (CHOOSE h \in e.cards : TRUE) \in e.cards
           /\ (CHOOSE h \in e.cards : TRUE) \in GroupsWith(paycard)
           /\ e.rule \in FromHand
BY DEF OfferKept, FromHand

LEMMA AnsweredScored ==
    ASSUME GInv, TakeOffer \/ PassOffer
    PROVE  [ScoreNext]_scoreVars
<1>1. pc = "offer" /\ \E rest : RestOf(rest) /\ Answered(rest)
  BY OffersLeft
<1>2. PICK rest : RestOf(rest) /\ Answered(rest)
  BY <1>1
<1>3. \/ UNCHANGED scoreVars
      \/ \E e \in rest : LayMeld(rest, e)
  BY <1>2 DEF Answered
<1>4. ASSUME NEW e \in rest, LayMeld(rest, e)
      PROVE  ScoreNext
  <2> DEFINE g == CHOOSE h \in e.cards : TRUE
  <2>1. OfferKept(e) /\ e.site \in Site
    BY <1>2 DEF RestOf, Entry
  <2>2. g \in GroupsWith(paycard) /\ e.rule \in FromHand
    BY <2>1, TakenGroup
  <2>3. /\ payscore(e.site, e.rule, FaceOfGroup(g), CardFrom)
        /\ UNCHANGED <<results, zhuang, started, phase>>
    BY <1>4 DEF LayMeld
  <2>4. ~ System => e.site # curPaysite
    BY <2>1 DEF OfferKept
  <2>5. CardOnTable
    BY <1>1 DEF CardOnTable
  <2> HIDE DEF g
  <2> QED BY <2>1, <2>2, <2>3, <2>4, <2>5, TableMeldIsScored
<1> QED BY <1>3, <1>4

\* Every step of the table is a step of the scores, or leaves them alone
LEMMA NextScored ==
    ASSUME Facts
    PROVE  GInv /\ [Next]_vars => [ScoreNext]_scoreVars
<1> SUFFICES ASSUME GInv, [Next]_vars PROVE [ScoreNext]_scoreVars
  OBVIOUS
<1>1. CASE UNCHANGED vars
  BY <1>1 DEF vars
<1>2. CASE startPlay
  BY <1>2 DEF startPlay, ScoreNext
<1>3. ASSUME NEW p \in Site, StartGame(p)
      PROVE  ScoreNext
  BY <1>3 DEF StartGame, ScoreNext
<1>4. CASE BestHu
  BY <1>4 DEF BestHu
<1>5. CASE NoBestHu
  BY <1>5 DEF NoBestHu
<1>6. CASE LayDealt
  BY <1>6, LayDealtScored
<1>7. CASE AskAllWufu
  BY <1>7 DEF AskAllWufu
<1>8. CASE selectWufuBaojing \/ WufuTimeout
  BY <1>8 DEF selectWufuBaojing, WufuTimeout, WufuDone
<1>9. CASE tryHupai
  BY <1>9 DEF tryHupai
<1>10. CASE systemDispatchCard \/ Hongzhuang
  BY <1>10 DEF systemDispatchCard, Hongzhuang
<1>11. ASSUME NEW c \in Card, playerPayCards(c)
       PROVE  UNCHANGED scoreVars
  BY <1>11 DEF playerPayCards
<1>12. CASE Force1 \/ Force2
  BY <1>12, ForceScored
<1>13. CASE HuByRule \/ HuByCard
  BY <1>13 DEF HuByRule, HuByCard
<1>14. CASE Offer
  BY <1>14 DEF Offer
<1>15. CASE TakeOffer \/ PassOffer
  BY <1>15, AnsweredScored
<1>16. CASE Settle
  BY <1>16, SettleScored
<1>17. CASE Over
  BY <1>17 DEF Over, vars
<1> QED BY <1>1, <1>2, <1>3, <1>4, <1>5, <1>6, <1>7, <1>8, <1>9, <1>10, <1>11, <1>12, <1>13,
           <1>14, <1>15, <1>16, <1>17 DEF Next

LEMMA ScoreKept ==
    ASSUME Facts
    PROVE  GInv /\ [Next]_vars => ScoreInv'
BY NextScored, NextScoreInv DEF GInv

-----------------------------------------------------------------------------
(* What each step does to the cards                                        *)

SameStep ==
    /\ players' \in [Site -> CardMgr]
    /\ \A s \in Site : SameHand(players[s], players'[s])
DealtStep(s, rule, cards) ==
    /\ players' \in [Site -> CardMgr] /\ s \in Site
    /\ DealtLaid(players[s], players'[s], rule, cards)
    /\ \A t \in Site \ {s} : SameHand(players[t], players'[t])
DiscardStep(c) ==
    /\ players' \in [Site -> CardMgr]
    /\ Discarded(players[curPaysite], players'[curPaysite], c)
    /\ \A t \in Site \ {curPaysite} : SameHand(players[t], players'[t])
MeldStep(s, rule, cards) ==
    /\ players' \in [Site -> CardMgr] /\ s \in Site
    /\ Melded(players[s], players'[s], rule, cards, paycard)
    /\ \A t \in Site \ {s} : SameHand(players[t], players'[t])
KeepsWufu == \A s \in Site : players'[s].wufu = players[s].wufu

LEMMA SameHandSelf ==
    ASSUME NEW m \in CardMgr
    PROVE  SameHand(m, m)
BY DEF SameHand

LEMMA UnchangedPlayers ==
    ASSUME GInv, UNCHANGED players
    PROVE  SameStep /\ KeepsWufu
BY SameHandSelf DEF GInv, TypeOK, SameStep, KeepsWufu

LEMMA LayDealtEffect ==
    ASSUME Facts, GInv, LayDealt
    PROVE  /\ KeepsWufu
           /\ \/ SameStep
              \/ \E s \in Site, rule \in {"Ti_zimo", "Kan"}, g \in SUBSET Card : DealtStep(s, rule, g)
<1> DEFINE s == turnSite(curPaysite, laid)
           m == players[s]
<1>1. /\ curPaysite \in Site /\ laid \in 0..3 /\ players \in [Site -> CardMgr]
  BY SMTT(20) DEF LayDealt, GInv, TypeOK, Control, Playing, MAX_PLAYER_COUNT
<1>2. s \in Site
  BY <1>1, Seats
<1> HIDE DEF s
<1>3. ASSUME NEW rule \in {"Ti_zimo", "Kan"}, NEW groups, LayGroup(s, rule, groups)
      PROVE  KeepsWufu /\ \E g \in SUBSET Card : DealtStep(s, rule, g)
  <2> DEFINE g == CHOOSE h \in groups : TRUE
             p == payCards(m, rule, g, NoCard)
  <2>1. CanPay(m, rule, g, NoCard) /\ players' = [players EXCEPT ![s] = p]
    BY <1>3 DEF LayGroup
  <2>2. Tidy(m) /\ m \in CardMgr
    BY <1>1, <1>2 DEF GInv, TidyInv
  <2> HIDE DEF g
  <2>3. DealtLaid(m, p, rule, g)
    BY <2>1, <2>2, DealtEffect
  <2> HIDE DEF p
  <2>4. /\ players'[s] = p /\ \A t \in Site \ {s} : players'[t] = players[t]
        /\ players' \in [Site -> CardMgr] /\ g \in SUBSET Card
    BY <1>1, <1>2, <2>1, <2>3 DEF DealtLaid
  <2>5. DealtStep(s, rule, g)
    BY <1>1, <1>2, <2>3, <2>4, SameHandSelf DEF DealtStep
  <2>6. KeepsWufu
    BY <2>3, <2>4 DEF KeepsWufu, DealtLaid
  <2> QED BY <2>4, <2>5, <2>6
<1>4. \/ LayGroup(s, "Ti_zimo", m.ti) \/ LayGroup(s, "Kan", m.kan) \/ UNCHANGED players
  BY DEF LayDealt, s
<1> QED BY <1>2, <1>3, <1>4, UnchangedPlayers

LEMMA WufuDoneEffect ==
    ASSUME GInv, NEW code \in BOOLEAN, WufuDone(code)
    PROVE  /\ SameStep /\ players' \in [Site -> CardMgr]
           /\ \A s \in Site \ {wufuSite} : players'[s] = players[s]
           /\ \A s \in Site : players'[s].show = players[s].show
<1>1. /\ players \in [Site -> CardMgr] /\ wufuSite \in Site
      /\ players' = [players EXCEPT ![wufuSite] = neverWufuBaojing(@, code)]
  BY DEF GInv, TypeOK, Control, Opening, WufuDone
<1>2. SameHand(players[wufuSite], neverWufuBaojing(players[wufuSite], code))
  BY <1>1, WufuEffect
<1>3. /\ players'[wufuSite] = neverWufuBaojing(players[wufuSite], code)
      /\ \A s \in Site \ {wufuSite} : players'[s] = players[s]
      /\ players' \in [Site -> CardMgr]
  BY <1>1, <1>2 DEF SameHand
<1>4. SameStep
  BY <1>1, <1>2, <1>3, SameHandSelf DEF SameStep
<1> QED BY <1>3, <1>4 DEF SameStep, SameHand

\* A client that sends a card of its player's hand has it paid
LEMMA HandPays ==
    ASSUME Facts, GInv, HandSent, NEW c \in Card, playerPayCards(c)
    PROVE  /\ curPaysite \in Site
           /\ CanPay(players[curPaysite], "None", {c}, NoCard) /\ curPayCardRule' = "None"
<1>1. curPaysite \in Site
  BY DEF GInv, Control, Playing, playerPayCards
<1>2. c \in players[curPaysite].hand
  BY DEF HandSent, Sent, playerPayCards
<1>3. CanPay(players[curPaysite], "None", {c}, NoCard)
  <2>1. Cardinality({c}) = 1
    BY DEF Facts, FS_One
  <2> QED BY <1>2, <2>1 DEF CanPay, FromShow
<1>4. curPayCardRule' = "None"
  BY <1>3 DEF playerPayCards
<1> QED BY <1>1, <1>3, <1>4

LEMMA DiscardStepEffect ==
    ASSUME Facts, GInv, HandSent, NEW c \in Card, playerPayCards(c)
    PROVE  DiscardStep(c) /\ KeepsWufu
<1> DEFINE m == players[curPaysite]
           p == choupai(payCards(m, "None", {c}, NoCard), "Chi", c)
<1>1. /\ players \in [Site -> CardMgr] /\ curPaysite \in Site
      /\ CanPay(m, "None", {c}, NoCard)
      /\ players' = [players EXCEPT ![curPaysite] = p]
      /\ Tidy(m)
  BY HandPays DEF GInv, TypeOK, TidyInv, playerPayCards
<1>2. Discarded(m, p, c)
  BY <1>1, DiscardEffect
<1> HIDE DEF p
<1>3. /\ players'[curPaysite] = p
      /\ \A s \in Site \ {curPaysite} : players'[s] = players[s]
      /\ players' \in [Site -> CardMgr]
  BY <1>1, <1>2 DEF Discarded
<1>4. DiscardStep(c)
  BY <1>1, <1>2, <1>3, SameHandSelf DEF DiscardStep
<1>5. KeepsWufu
  BY <1>2, <1>3 DEF KeepsWufu, Discarded
<1> QED BY <1>4, <1>5

\* A group laid by force, or one that wins
LEMMA CandidateEffect ==
    ASSUME Facts, Dispatching, NEW x, Candidate(x), players' = [players EXCEPT ![x.site] = After(x)]
    PROVE  MeldStep(x.site, x.rule, Own(x.group)) /\ KeepsWufu
<1> DEFINE m == players[x.site]
           p == payCards(m, x.rule, Own(x.group), paycard)
<1>1. /\ players \in [Site -> CardMgr] /\ x.site \in Site /\ m \in CardMgr
      /\ x.rule \in FromHand \cup FromShow /\ paycard \in Card
      /\ CanPay(m, x.rule, Own(x.group), paycard) /\ Tidy(m) /\ paycard \notin Owned(m)
      /\ players' = [players EXCEPT ![x.site] = p]
  BY DEF Dispatching, Candidate, After
<1>2. Melded(m, p, x.rule, Own(x.group), paycard)
  BY <1>1, MeldEffect
<1> HIDE DEF p
<1>3. /\ players'[x.site] = p
      /\ \A s \in Site \ {x.site} : players'[s] = players[s]
      /\ players' \in [Site -> CardMgr]
  BY <1>1, <1>2 DEF Melded
<1>4. MeldStep(x.site, x.rule, Own(x.group))
  BY <1>1, <1>2, <1>3, SameHandSelf DEF MeldStep
<1>5. KeepsWufu
  BY <1>2, <1>3, Zenon DEF KeepsWufu, Melded
<1> QED BY <1>4, <1>5

\* Passing on offers, and taking the card from the discards
SameTable(ms) ==
    /\ ms \in [Site -> CardMgr]
    /\ \A s \in Site : SameHand(players[s], ms[s]) /\ ms[s].wufu = players[s].wufu

LEMMA ChoupaidSame ==
    ASSUME Dispatching, NEW rest
    PROVE  SameTable(Choupaid(rest))
<1> DEFINE ms == Choupaid(rest)
           ch(s) == [r \in {"Chi", "Peng"} |->
              IF <<s, r>> \in asked /\ ~ \E e \in rest : e.site = s /\ e.rule = r
              THEN players[s].chou[r] \cup {FaceOf(paycard)} ELSE players[s].chou[r]]
<1>1. FaceOf(paycard) \in Face
  BY DEF Dispatching, FaceOf, Face, Card
<1>2. ASSUME NEW s \in Site
      PROVE  /\ ms[s] \in CardMgr
             /\ SameHand(players[s], ms[s]) /\ ms[s].wufu = players[s].wufu
  <2>1. players[s] \in CardMgr
    BY DEF Dispatching
  <2>2. ms[s] = [players[s] EXCEPT !.chou = ch(s)]
    BY <2>1 DEF Choupaid, CardMgr
  <2>3. players[s].chou \in [{"Chi", "Peng"} -> SUBSET Face]
    BY <2>1 DEF CardMgr
  <2>4. ch(s) \in [{"Chi", "Peng"} -> SUBSET Face] /\ players[s].chou["Chi"] \subseteq ch(s)["Chi"]
    BY <1>1, <2>3
  <2> HIDE DEF ch, ms
  <2> QED BY <2>1, <2>2, <2>4, Zenon DEF CardMgr, SameHand
<1>3. ms \in [Site -> CardMgr]
  <2>1. ms = [s \in Site |-> ms[s]]
    BY DEF Choupaid
  <2> HIDE DEF ms
  <2> QED BY <1>2, <2>1
<1> QED BY <1>2, <1>3 DEF SameTable

LEMMA TakenSame ==
    ASSUME Dispatching, NEW ms, SameTable(ms), NEW site, NEW rule
    PROVE  SameTable(Taken(ms, site, rule))
<1> DEFINE ts == Taken(ms, site, rule)
<1>1. ASSUME NEW s \in Site
      PROVE  /\ ts[s] \in CardMgr
             /\ SameHand(players[s], ts[s]) /\ ts[s].wufu = players[s].wufu
  <2>1. /\ ms[s] \in CardMgr /\ SameHand(players[s], ms[s]) /\ ms[s].wufu = players[s].wufu
        /\ paycard \in Card
    BY DEF Dispatching, SameTable
  <2>2. \/ ts[s] = ms[s]
        \/ ts[s] = [ms[s] EXCEPT !.single = @ \ {paycard}]
        \/ ts[s] = [ms[s] EXCEPT !.pengSingle = @ \cup {paycard}]
    BY DEF Taken, removeSingleShowCard
  <2> HIDE DEF ts
  <2> QED BY <2>1, <2>2 DEF CardMgr, SameHand
<1>2. ts = [s \in Site |-> ts[s]]
  BY DEF Taken
<1> HIDE DEF ts
<1>3. ts \in [Site -> CardMgr]
  BY <1>1, <1>2
<1>4. SameTable(ts)
  BY <1>1, <1>3 DEF SameTable
<1> QED BY <1>4 DEF ts

\* The group that an offer is taken with is laid
LEMMA LayMeldEffect ==
    ASSUME Facts, Dispatching, NEW rest, NEW e \in rest, e.site \in Site, OfferKept(e),
           LayMeld(rest, e)
    PROVE  /\ MeldStep(e.site, e.rule, Own(CHOOSE h \in e.cards : TRUE)) /\ KeepsWufu
           /\ curPayCardRule' = e.rule
<1> DEFINE g == CHOOSE h \in e.cards : TRUE
           ms == Taken(Choupaid(rest), e.site, e.rule)
           m == players[e.site]
           q == ms[e.site]
           p == payCards(q, e.rule, Own(g), paycard)
<1>1. SameTable(ms)
  BY ChoupaidSame, TakenSame
<1>2. /\ players' = [ms EXCEPT ![e.site] = p]
      /\ curPayCardRule' = IF CanPay(q, e.rule, Own(g), paycard) THEN e.rule ELSE curPayCardRule
  BY DEF LayMeld
<1>3. g \in e.cards /\ e.rule \in FromHand
  BY TakenGroup
<1> HIDE DEF ms, g
<1>4. /\ m \in CardMgr /\ q \in CardMgr /\ SameHand(m, q) /\ q.wufu = m.wufu /\ Tidy(m)
      /\ paycard \notin Owned(m) /\ paycard \in Card /\ CanPay(m, e.rule, Own(g), paycard)
  BY <1>1, <1>3, Zenon DEF SameTable, Dispatching, OfferKept
<1>5. CanPay(q, e.rule, Own(g), paycard) /\ Tidy(q) /\ paycard \notin Owned(q)
  <2>1. /\ Owned(q) = Owned(m) /\ (Tidy(m) => Tidy(q))
        /\ CanPay(q, e.rule, Own(g), paycard) = CanPay(m, e.rule, Own(g), paycard)
    BY <1>4, SameHandKeeps, Zenon
  <2> HIDE DEF m, q
  <2> QED BY <1>4, <2>1
<1>6. Melded(q, p, e.rule, Own(g), paycard)
  BY <1>3, <1>4, <1>5, MeldEffect, Zenon
<1> HIDE DEF p
<1>7. Melded(m, p, e.rule, Own(g), paycard)
  BY <1>4, <1>6, MeldedThrough, Zenon
<1>8. /\ players'[e.site] = p
      /\ \A s \in Site \ {e.site} : players'[s] = ms[s]
      /\ players' \in [Site -> CardMgr]
  BY <1>1, <1>2, <1>7, Zenon DEF Melded, SameTable
<1>9. MeldStep(e.site, e.rule, Own(g))
  BY <1>1, <1>7, <1>8 DEF MeldStep, SameTable
<1>10. KeepsWufu
  BY <1>1, <1>7, <1>8, Zenon DEF KeepsWufu, Melded, SameTable
<1> QED BY <1>2, <1>5, <1>9, <1>10 DEF g

-----------------------------------------------------------------------------
(* Where the cards are after each kind of step                             *)

CardInv == OneOwner /\ TidyInv /\ HistoryInv
NeverAll == \A s \in Site : NeverAte(players[s])

LEMMA NeverEatIs == NeverEatDiscarded <=> (pc \notin {"settle", "over", "idle"} => NeverAll)
BY DEF NeverEatDiscarded, NeverAll, NeverAte

\* What SameHand leaves of one player
LEMMA SameHandOf ==
    ASSUME GInv, NEW s \in Site, SameHand(players[s], players'[s])
    PROVE  /\ Owned(players'[s]) = Owned(players[s]) /\ Tidy(players'[s])
           /\ DiscardsKept(players'[s]) /\ (NeverAte(players[s]) => NeverAte(players'[s]))
           /\ \A due : Balanced(players'[s], due) = Balanced(players[s], due)
           /\ players'[s].show = players[s].show
<1>1. players[s] \in CardMgr /\ Tidy(players[s]) /\ DiscardsKept(players[s])
  BY DEF GInv, TypeOK, TidyInv, HistoryInv
<1> DEFINE m == players[s]
           p == players'[s]
<1>2. SameHand(m, p) /\ m \in CardMgr
  BY <1>1
<1> HIDE DEF m, p
<1>3. /\ Owned(p) = Owned(m) /\ Quads(p) = Quads(m)
      /\ Tidy(m) => Tidy(p)
      /\ DiscardsKept(m) => DiscardsKept(p)
      /\ NeverAte(m) => NeverAte(p)
  BY <1>2, SameHandKeeps, Zenon
<1>4. p.show = m.show
  BY <1>2 DEF SameHand
<1>5. \A due : Balanced(p, due) = Balanced(m, due)
  BY <1>3, <1>4 DEF Balanced
<1> QED BY <1>1, <1>3, <1>4, <1>5 DEF m, p

LEMMA SameStepCards ==
    ASSUME GInv, SameStep, UNCHANGED <<deck, payIndex>>,
           CardOnTable' => CardOnTable /\ paycard' = paycard
    PROVE  CardInv' /\ (NeverAll => NeverAll')
<1>1. \A s \in Site : /\ Owned(players'[s]) = Owned(players[s]) /\ Tidy(players'[s])
                      /\ DiscardsKept(players'[s])
                      /\ (NeverAte(players[s]) => NeverAte(players'[s]))
  BY SameHandOf DEF SameStep
<1>2. OneOwner /\ TidyInv
  BY DEF GInv
<1>3. Undrawn' = Undrawn
  BY DEF Undrawn
<1>4. OneOwner'
  BY <1>1, <1>2, <1>3 DEF OneOwner
<1>5. TidyInv' /\ HistoryInv'
  BY <1>1, <1>2 DEF TidyInv, HistoryInv
<1> QED BY <1>1, <1>4, <1>5 DEF CardInv, NeverAll

LEMMA DealtStepCards ==
    ASSUME GInv, NEW s, NEW rule \in {"Ti_zimo", "Kan"}, NEW g, DealtStep(s, rule, g),
           UNCHANGED <<deck, payIndex>>, ~ CardOnTable'
    PROVE  CardInv' /\ (NeverAll => NeverAll')
<1>0. s \in Site /\ \A t \in Site \ {s} : SameHand(players[t], players'[t])
  BY DEF DealtStep
<1>1. \A t \in Site \ {s} :
         /\ Owned(players'[t]) = Owned(players[t]) /\ Tidy(players'[t])
         /\ DiscardsKept(players'[t]) /\ (NeverAte(players[t]) => NeverAte(players'[t]))
  BY <1>0, SameHandOf, Zenon
<1>2. OneOwner /\ TidyInv /\ DiscardsKept(players[s]) /\ players[s] \in CardMgr
  BY <1>0 DEF GInv, TypeOK, HistoryInv
<1>3. Owned(players'[s]) = Owned(players[s]) /\ Tidy(players'[s])
  BY Zenon DEF DealtStep, DealtLaid
<1>4. /\ players[s].chou["Chi"] \subseteq players'[s].chou["Chi"]
      /\ Entered(players[s], players'[s].hist, rule, g)
  BY DEF DealtStep, DealtLaid
<1>5. DiscardsKept(players'[s]) /\ (NeverAte(players[s]) => NeverAte(players'[s]))
  <2> DEFINE m == players[s]
             p == players'[s]
  <2>1. /\ m \in CardMgr /\ m.chou["Chi"] \subseteq p.chou["Chi"]
        /\ Entered(m, p.hist, rule, g) /\ DiscardsKept(m)
    BY <1>2, <1>4
  <2> HIDE DEF m, p
  <2>2. NeverAte(m) => DiscardsKept(p) /\ NeverAte(p)
    BY <2>1, HistoryAfter
  <2>3. DiscardsKept(p)
    BY <2>1 DEF DiscardsKept, Entered
  <2> QED BY <2>2, <2>3 DEF m, p
<1>6. Undrawn' = Undrawn
  BY DEF Undrawn
<1>7. \A t \in Site : Owned(players'[t]) = Owned(players[t]) /\ Tidy(players'[t])
                      /\ DiscardsKept(players'[t])
  BY <1>1, <1>3, <1>5
<1>8. OneOwner'
  BY <1>2, <1>6, <1>7 DEF OneOwner
<1>9. TidyInv' /\ HistoryInv'
  BY <1>2, <1>7 DEF TidyInv, HistoryInv
<1>10. NeverAll => NeverAll'
  BY <1>1, <1>5 DEF NeverAll
<1> QED BY <1>8, <1>9, <1>10 DEF CardInv

LEMMA DiscardStepCards ==
    ASSUME GInv, curPaysite \in Site, NEW c, DiscardStep(c),
           UNCHANGED <<deck, payIndex>>, paycard' = c
    PROVE  CardInv' /\ (NeverAll => NeverAll')
<1> DEFINE s == curPaysite
<1>0. s \in Site /\ \A t \in Site \ {s} : SameHand(players[t], players'[t])
  BY DEF DiscardStep
<1>1. \A t \in Site \ {s} :
         /\ Owned(players'[t]) = Owned(players[t]) /\ Tidy(players'[t])
         /\ DiscardsKept(players'[t]) /\ (NeverAte(players[t]) => NeverAte(players'[t]))
  BY <1>0, SameHandOf, Zenon
<1>2. OneOwner /\ TidyInv /\ DiscardsKept(players[s]) /\ players[s] \in CardMgr
  BY <1>0 DEF GInv, TypeOK, HistoryInv
<1>3. /\ Owned(players'[s]) = Owned(players[s]) \ {c} /\ Tidy(players'[s])
      /\ c \in Owned(players[s])
  BY DEF DiscardStep, Discarded
<1>4. DiscardsKept(players'[s]) /\ (NeverAte(players[s]) => NeverAte(players'[s]))
  <2> DEFINE m == players[s]
             p == players'[s]
  <2>1. m \in CardMgr /\ Discarded(m, p, c) /\ DiscardsKept(m)
    BY <1>2 DEF DiscardStep
  <2> HIDE DEF m, p
  <2>2. NeverAte(m) => DiscardsKept(p) /\ NeverAte(p)
    BY <2>1, HistoryAfterDiscard
  <2>3. DiscardsKept(p)
    BY <2>1 DEF DiscardsKept, Entered, Discarded
  <2> QED BY <2>2, <2>3 DEF m, p
<1>5. Undrawn' = Undrawn
  BY DEF Undrawn
<1> HIDE DEF s
<1>6. OneOwner'
  BY <1>0, <1>1, <1>2, <1>3, <1>5, Zenon DEF OneOwner
<1>7. TidyInv' /\ HistoryInv'
  BY <1>1, <1>2, <1>3, <1>4, Zenon DEF TidyInv, HistoryInv
<1>8. NeverAll => NeverAll'
  BY <1>1, <1>4 DEF NeverAll
<1> QED BY <1>6, <1>7, <1>8 DEF CardInv

LEMMA MeldStepCards ==
    ASSUME GInv, Dispatching, NEW s, NEW rule \in FromHand \cup FromShow, NEW g,
           MeldStep(s, rule, g), UNCHANGED <<deck, payIndex>>, ~ CardOnTable'
    PROVE  /\ CardInv'
           /\ NeverAll /\ (rule = "Chi" => \A c \in g : FaceOf(c) \notin players[s].chou["Chi"])
                 => NeverAll'
<1>0. s \in Site /\ \A t \in Site \ {s} : SameHand(players[t], players'[t])
  BY DEF MeldStep
<1>1. \A t \in Site \ {s} :
         /\ Owned(players'[t]) = Owned(players[t]) /\ Tidy(players'[t])
         /\ DiscardsKept(players'[t]) /\ (NeverAte(players[t]) => NeverAte(players'[t]))
  BY <1>0, SameHandOf, Zenon
<1>2. /\ OneOwner /\ TidyInv /\ DiscardsKept(players[s]) /\ players[s] \in CardMgr
      /\ CardOnTable
  BY <1>0 DEF GInv, TypeOK, HistoryInv, Dispatching
<1>3. Owned(players'[s]) = Owned(players[s]) \cup {paycard} /\ Tidy(players'[s])
  BY Zenon DEF MeldStep, Melded
<1>4. /\ DiscardsKept(players'[s])
      /\ NeverAte(players[s]) /\ (rule = "Chi" => \A c \in g : FaceOf(c) \notin players[s].chou["Chi"])
            => NeverAte(players'[s])
  <2> DEFINE m == players[s]
             p == players'[s]
  <2>1. /\ m \in CardMgr /\ m.chou["Chi"] \subseteq p.chou["Chi"]
        /\ Entered(m, p.hist, rule, g) /\ DiscardsKept(m)
    BY <1>2, Zenon DEF MeldStep, Melded
  <2>2. rule # "None"
    BY RuleKinds DEF Alone
  <2> HIDE DEF m, p
  <2>3. NeverAte(m) /\ (rule = "Chi" => \A c \in g : FaceOf(c) \notin m.chou["Chi"]) => NeverAte(p)
    BY <2>1, <2>2, HistoryAfter, Zenon
  <2>4. DiscardsKept(p)
    BY <2>1, <2>2 DEF DiscardsKept, Entered
  <2> QED BY <2>3, <2>4, Zenon DEF m, p
<1>5. Undrawn' = Undrawn
  BY DEF Undrawn
<1>6. OneOwner'
  <2>1. /\ \A t, u \in Site : t # u => Owned(players[t]) \cap Owned(players[u]) = {}
        /\ \A t \in Site : Owned(players[t]) \cap Undrawn = {} /\ paycard \notin Owned(players[t])
        /\ paycard \notin Undrawn
    BY <1>2, Zenon DEF OneOwner
  <2>2. \A t, u \in Site : t # u => Owned(players'[t]) \cap Owned(players'[u]) = {}
    BY <1>1, <1>3, <2>1, SMTT(20)
  <2>3. \A t \in Site : Owned(players'[t]) \cap Undrawn' = {}
    BY <1>1, <1>3, <1>5, <2>1
  <2> QED BY <2>2, <2>3, Zenon DEF OneOwner
<1>7. TidyInv' /\ HistoryInv'
  BY <1>1, <1>2, <1>3, <1>4, Zenon DEF TidyInv, HistoryInv
<1>8. NeverAll /\ (rule = "Chi" => \A c \in g : FaceOf(c) \notin players[s].chou["Chi"])
         => NeverAll'
  BY <1>0, <1>1, <1>4, Zenon DEF NeverAll
<1> QED BY <1>6, <1>7, <1>8 DEF CardInv

\* dispatchPokes deals from disjoint parts of the deck
DealtIndex(z, s) ==
    LET j == SeatsAfter(z, s)
    IN  ((j * PlayerCardCnt + 1)..((j + 1) * PlayerCardCnt))
          \cup IF s = z THEN {4 * PlayerCardCnt + 1} ELSE {}

LEMMA DealtIndexes ==
    ASSUME Facts, NEW z \in Site, NEW s \in Site
    PROVE  /\ DealtIndex(z, s) \subseteq 1..(4 * PlayerCardCnt + 1)
           /\ \A t \in Site : s # t => DealtIndex(z, s) \cap DealtIndex(z, t) = {}
           /\ IsFiniteSet(DealtIndex(z, s))
           /\ Cardinality(DealtIndex(z, s)) = PlayerCardCnt + IF s = z THEN 1 ELSE 0
<1> DEFINE P == PlayerCardCnt
           part(j) == (j * P + 1)..((j + 1) * P)
<1>0. P \in Nat
  BY DeckAssumption
<1>1. ASSUME NEW j \in 0..3
      PROVE  /\ part(j) \subseteq 1..(4 * P)
             /\ \A k \in 0..3 : j # k => part(j) \cap part(k) = {}
             /\ IsFiniteSet(part(j)) /\ Cardinality(part(j)) = P
  <2>1. /\ part(0) = 1..P /\ part(1) = (P + 1)..(2 * P)
        /\ part(2) = (2 * P + 1)..(3 * P) /\ part(3) = (3 * P + 1)..(4 * P)
    BY <1>0
  <2>2. part(j) \subseteq 1..(4 * P) /\ \A k \in 0..3 : j # k => part(j) \cap part(k) = {}
    <3>1. j \in {0, 1, 2, 3} /\ 0..3 = {0, 1, 2, 3}
      OBVIOUS
    <3> HIDE DEF part
    <3> QED BY <1>0, <2>1, <3>1
  <2>3. ASSUME NEW a \in Int
        PROVE  /\ IsFiniteSet((a + 1)..(a + P)) /\ Cardinality((a + 1)..(a + P)) = P
    <3>1. a + 1 \in Int /\ a + P \in Int
      BY <1>0
    <3>2. /\ IsFiniteSet((a + 1)..(a + P))
          /\ Cardinality((a + 1)..(a + P)) =
                IF a + 1 > a + P THEN 0 ELSE (a + P) - (a + 1) + 1
      BY <3>1 DEF Facts, FS_Range
    <3> QED BY <1>0, <3>2
  <2>4. PICK a \in Int : part(j) = (a + 1)..(a + P)
    <3>1. j \in {0, 1, 2, 3}
      OBVIOUS
    <3>2. /\ 0 \in Int /\ P \in Int /\ 2 * P \in Int /\ 3 * P \in Int
          /\ part(0) = (0 + 1)..(0 + P) /\ part(1) = (P + 1)..(P + P)
          /\ part(2) = (2 * P + 1)..(2 * P + P) /\ part(3) = (3 * P + 1)..(3 * P + P)
      BY <1>0
    <3> HIDE DEF part
    <3> QED BY <3>1, <3>2, Zenon
  <2> QED BY <2>2, <2>3, <2>4, Zenon
<1>2. ASSUME NEW t \in Site
      PROVE  DealtIndex(z, t) = part(SeatsAfter(z, t)) \cup IF t = z THEN {4 * P + 1} ELSE {}
  BY DEF DealtIndex
<1>3. \A t \in Site : SeatsAfter(z, t) \in 0..3 /\ (s # t => SeatsAfter(z, s) # SeatsAfter(z, t))
  BY Seats
<1> HIDE DEF part
<1>4. \A t \in Site : part(SeatsAfter(z, t)) \subseteq 1..(4 * P)
  BY <1>1, <1>3
<1>5. 4 * P + 1 \in 1..(4 * P + 1) /\ 4 * P + 1 \notin 1..(4 * P) /\ 1..(4 * P) \subseteq 1..(4 * P + 1)
  BY <1>0
<1>6. DealtIndex(z, s) \subseteq 1..(4 * P + 1)
  BY <1>2, <1>4, <1>5
<1>7. ASSUME NEW t \in Site, s # t
      PROVE  DealtIndex(z, s) \cap DealtIndex(z, t) = {}
  <2>1. part(SeatsAfter(z, s)) \cap part(SeatsAfter(z, t)) = {}
    BY <1>1, <1>3, <1>7
  <2>2. 4 * P + 1 \notin part(SeatsAfter(z, s)) /\ 4 * P + 1 \notin part(SeatsAfter(z, t))
    BY <1>4, <1>5
  <2> QED BY <1>2, <1>7, <2>1, <2>2
<1>8. IsFiniteSet(DealtIndex(z, s)) /\ Cardinality(DealtIndex(z, s)) = P + IF s = z THEN 1 ELSE 0
  <2>1. IsFiniteSet(part(SeatsAfter(z, s))) /\ Cardinality(part(SeatsAfter(z, s))) = P
    BY <1>1, <1>3
  <2>2. CASE s # z
    BY <1>0, <1>2, <2>1, <2>2
  <2>3. CASE s = z
    <3>1. 4 * P + 1 \notin part(SeatsAfter(z, s))
      BY <1>4, <1>5
    <3>2. DealtIndex(z, s) = part(SeatsAfter(z, s)) \cup {4 * P + 1}
      BY <1>2, <2>3
    <3> QED BY <2>1, <2>3, <3>1, <3>2 DEF Facts, FS_Add
  <2> QED BY <2>2, <2>3
<1> QED BY <1>6, <1>7, <1>8

LEMMA DealtHand ==
    ASSUME Facts, NEW d \in Decks, NEW z \in Site, NEW s \in Site
    PROVE  /\ Dealt(d, z, s) = {d[i] : i \in DealtIndex(z, s)}
           /\ DealtIndex(z, s) \subseteq DOMAIN d
           /\ Dealt(d, z, s) \in SUBSET Card
           /\ Cardinality(Dealt(d, z, s)) = PlayerCardCnt + IF s = z THEN 1 ELSE 0
<1> DEFINE I == DealtIndex(z, s)
           T == {d[i] : i \in I}
           f == [i \in I |-> d[i]]
<1>1. /\ d \in Seq(Card) /\ \A i, j \in DOMAIN d : d[i] = d[j] => i = j
      /\ Len(d) >= 4 * PlayerCardCnt + 1 /\ PlayerCardCnt \in Nat
  BY DeckAssumption
<1>2. DOMAIN d = 1..Len(d) /\ Len(d) \in Nat /\ \A i \in 1..Len(d) : d[i] \in Card
  BY <1>1
<1>3. I \subseteq 1..(4 * PlayerCardCnt + 1) /\ IsFiniteSet(I)
      /\ Cardinality(I) = PlayerCardCnt + IF s = z THEN 1 ELSE 0
  BY DealtIndexes
<1>4. Dealt(d, z, s) = T
  BY Zenon DEF Dealt, DealtIndex
<1>5. 1..(4 * PlayerCardCnt + 1) \subseteq 1..Len(d)
  BY <1>1, <1>2
<1> HIDE DEF I
<1>6. /\ f \in [I -> T] /\ \A t \in T : \E i \in I : f[i] = t
      /\ \A i, j \in I : f[i] = f[j] => i = j
  BY <1>1, <1>2, <1>3, <1>5
<1>7. Cardinality(T) = Cardinality(I)
  <2> HIDE DEF f, T
  <2> QED BY <1>3, <1>6 DEF Facts, FS_Onto
<1>8. I \subseteq DOMAIN d /\ T \in SUBSET Card
  BY <1>2, <1>3, <1>5, Zenon
<1> QED BY <1>3, <1>4, <1>7, <1>8 DEF I

\* The state of the cards when they are dealt
Fresh(z) ==
    \A s \in Site : /\ players'[s] \in CardMgr
                    /\ Cardinality(Owned(players'[s])) = PlayerCardCnt + IF s = z THEN 1 ELSE 0
                    /\ players'[s].hist = <<>> /\ players'[s].wufu = FALSE
                    /\ players'[s].show = [r \in Melds |-> {}]

LEMMA NoHistory ==
    ASSUME NEW m, m.hist = <<>>
    PROVE  DiscardsKept(m) /\ NeverAte(m)
<1>1. DOMAIN m.hist = {}
  OBVIOUS
<1> QED BY <1>1 DEF DiscardsKept, NeverAte

LEMMA StartPlayCards ==
    ASSUME Facts, GInv, startPlay, zhuang' \in Site
    PROVE  /\ CardInv' /\ NeverAll' /\ Fresh(zhuang')
           /\ players' \in [Site -> CardMgr] /\ deck' \in Seq(Card)
<1> DEFINE z == zhuang'
<1>1. PICK d \in Decks : /\ deck' = d
                         /\ players' = [s \in Site |-> initCards(Dealt(d, z, s))]
  BY DEF startPlay
<1>2. /\ d \in Seq(Card) /\ \A i, j \in DOMAIN d : d[i] = d[j] => i = j
      /\ PlayerCardCnt \in Nat
  BY DeckAssumption
<1>3. z \in Site
  OBVIOUS
<1> HIDE DEF z
<1>4. ASSUME NEW s \in Site
      PROVE  /\ players'[s] \in CardMgr /\ Owned(players'[s]) = Dealt(d, z, s)
             /\ Tidy(players'[s]) /\ players'[s].hist = <<>> /\ players'[s].wufu = FALSE
             /\ players'[s].show = [r \in Melds |-> {}]
             /\ Dealt(d, z, s) = {d[i] : i \in DealtIndex(z, s)}
             /\ DealtIndex(z, s) \subseteq DOMAIN d
             /\ Cardinality(Dealt(d, z, s)) = PlayerCardCnt + IF s = z THEN 1 ELSE 0
  <2>1. players'[s] = initCards(Dealt(d, z, s))
    BY <1>1
  <2>2. /\ Dealt(d, z, s) = {d[i] : i \in DealtIndex(z, s)}
        /\ DealtIndex(z, s) \subseteq DOMAIN d
        /\ Dealt(d, z, s) \in SUBSET Card
        /\ Cardinality(Dealt(d, z, s)) = PlayerCardCnt + IF s = z THEN 1 ELSE 0
    BY <1>3, DealtHand, Zenon
  <2> DEFINE C == Dealt(d, z, s)
  <2>3. C \in SUBSET Card
    BY <2>2
  <2> HIDE DEF C
  <2>4. initCards(C) \in CardMgr /\ Owned(initCards(C)) = C /\ Tidy(initCards(C))
    BY <2>3, DealtCards
  <2>5. /\ initCards(C).hist = <<>> /\ initCards(C).wufu = FALSE
        /\ initCards(C).show = [r \in Melds |-> {}]
    BY DEF initCards
  <2> QED BY <2>1, <2>2, <2>4, <2>5, Zenon DEF C
<1>5. players' \in [Site -> CardMgr]
  <2>1. players' = [s \in Site |-> players'[s]]
    BY <1>1
  <2> QED BY <1>4, <2>1, Zenon
<1>6. ASSUME NEW s \in Site, NEW t \in Site, s # t
      PROVE  Owned(players'[s]) \cap Owned(players'[t]) = {}
  <2>1. DealtIndex(z, s) \cap DealtIndex(z, t) = {}
    BY <1>3, <1>6, DealtIndexes
  <2>2. /\ Owned(players'[s]) = {d[i] : i \in DealtIndex(z, s)}
        /\ Owned(players'[t]) = {d[i] : i \in DealtIndex(z, t)}
        /\ DealtIndex(z, s) \subseteq DOMAIN d /\ DealtIndex(z, t) \subseteq DOMAIN d
    BY <1>4, Zenon
  <2> QED BY <1>2, <2>1, <2>2, SMTT(20)
<1>7. ASSUME NEW s \in Site
      PROVE  Owned(players'[s]) \cap Undrawn' = {}
  <2>1. payIndex' = 4 * PlayerCardCnt + 2
    BY DEF startPlay
  <2>2. Undrawn' = {d[i] : i \in (4 * PlayerCardCnt + 2)..Len(d)}
    BY <1>1, <2>1 DEF Undrawn
  <2>3. /\ Owned(players'[s]) = {d[i] : i \in DealtIndex(z, s)}
        /\ DealtIndex(z, s) \subseteq DOMAIN d
    BY <1>4, Zenon
  <2>4. DealtIndex(z, s) \subseteq 1..(4 * PlayerCardCnt + 1)
    BY <1>3, DealtIndexes
  <2>5. (4 * PlayerCardCnt + 2)..Len(d) \subseteq DOMAIN d
    BY <1>2
  <2>6. \A i \in DealtIndex(z, s) : i \notin (4 * PlayerCardCnt + 2)..Len(d)
    BY <1>2, <2>4
  <2> QED BY <1>2, <2>2, <2>3, <2>5, <2>6
<1>8. ~ CardOnTable'
  BY DEF startPlay, CardOnTable
<1>9. OneOwner'
  BY <1>6, <1>7, <1>8 DEF OneOwner
<1>10. TidyInv'
  BY <1>1, <1>2, <1>4, Zenon DEF TidyInv
<1>11. HistoryInv' /\ NeverAll'
  BY <1>4, NoHistory, Zenon DEF HistoryInv, NeverAll
<1>12. Fresh(z)
  BY <1>4, Zenon DEF Fresh
<1> QED BY <1>1, <1>2, <1>5, <1>9, <1>10, <1>11, <1>12 DEF CardInv, z

LEMMA SystemCards ==
    ASSUME GInv, systemDispatchCard
    PROVE  CardInv' /\ (NeverAll => NeverAll') /\ paycard' \in Card
<1>1. /\ deck \in Seq(Card) /\ payIndex \in Nat \ {0} /\ payIndex <= Len(deck)
      /\ paycard' = deck[payIndex] /\ payIndex' = payIndex + 1
      /\ UNCHANGED <<deck, players>>
      /\ \A i, j \in DOMAIN deck : deck[i] = deck[j] => i = j
      /\ OneOwner /\ TidyInv /\ HistoryInv
  BY DEF GInv, TypeOK, TidyInv, systemDispatchCard
<1>2. /\ DOMAIN deck = 1..Len(deck) /\ Len(deck) \in Nat /\ payIndex \in DOMAIN deck
      /\ deck[payIndex] \in Card
  BY <1>1
<1>3. paycard' \in Undrawn /\ Undrawn' \subseteq Undrawn /\ paycard' \notin Undrawn'
  BY <1>1, <1>2 DEF Undrawn
<1>4. OneOwner'
  BY <1>1, <1>3, Zenon DEF OneOwner
<1>5. TidyInv' /\ HistoryInv' /\ (NeverAll => NeverAll')
  BY <1>1 DEF TidyInv, HistoryInv, NeverAll
<1> QED BY <1>1, <1>2, <1>4, <1>5 DEF CardInv

-----------------------------------------------------------------------------
(* How many cards a player has after each kind of step                     *)

LEMMA OwnedFinite ==
    ASSUME Facts, NEW m \in CardMgr
    PROVE  IsFiniteSet(Owned(m)) /\ Cardinality(Owned(m)) \in Nat
<1>1. Owned(m) \in SUBSET Card
  BY DEF Owned, Shown, CardMgr, Melds
<1> QED BY <1>1, CardsFinite

LEMMA BalancedAfterMeld ==
    ASSUME Facts, NEW m \in CardMgr, NEW p, NEW rule \in FromHand \cup FromShow, NEW cards, NEW card,
           Melded(m, p, rule, cards, card), card \notin Owned(m), Balanced(m, 0)
    PROVE  Balanced(p, IF canPayCardAfterRule(p, rule) THEN 1 ELSE 0)
<1>1. /\ Owned(p) = Owned(m) \cup {card} /\ p.show["Ti_zimo"] = m.show["Ti_zimo"]
      /\ Quads(p) = IF rule \in FourRules THEN Quads(m) + 1 ELSE Quads(m)
  BY DEF Melded
<1>2. Quads(m) \in Nat /\ PlayerCardCnt \in Nat
  BY FourFinite, DeckAssumption, Zenon
<1>3. Cardinality(Owned(m) \cup {card}) = Cardinality(Owned(m)) + 1
  BY OwnedFinite, Zenon DEF Facts, FS_Add
<1> SUFFICES ASSUME Cardinality(p.show["Ti_zimo"]) <= 1
             PROVE  Cardinality(Owned(p)) =
                       PlayerCardCnt + (IF canPayCardAfterRule(p, rule) THEN 1 ELSE 0)
                         + (IF Quads(p) > 1 THEN Quads(p) - 1 ELSE 0)
  BY Zenon DEF Balanced
<1>4. Cardinality(Owned(m)) = PlayerCardCnt + (IF Quads(m) > 1 THEN Quads(m) - 1 ELSE 0)
  BY <1>1, <1>2, SMTT(20) DEF Balanced
<1>5. Cardinality(Owned(p)) = PlayerCardCnt + (IF Quads(m) > 1 THEN Quads(m) - 1 ELSE 0) + 1
  BY <1>1, <1>3, <1>4, Zenon
<1>6. CASE rule \in FourRules
  <2>1. Quads(p) = Quads(m) + 1 /\ (canPayCardAfterRule(p, rule) <=> Quads(p) <= 1)
    BY <1>1, <1>6 DEF canPayCardAfterRule
  <2>2. (IF canPayCardAfterRule(p, rule) THEN 1 ELSE 0) = IF Quads(m) + 1 <= 1 THEN 1 ELSE 0
    BY <2>1, Zenon
  <2>3. (IF Quads(p) > 1 THEN Quads(p) - 1 ELSE 0)
           = IF Quads(m) + 1 > 1 THEN (Quads(m) + 1) - 1 ELSE 0
    BY <2>1, Zenon
  <2>4. Cardinality(Owned(p)) = PlayerCardCnt + (IF Quads(m) + 1 <= 1 THEN 1 ELSE 0)
                                   + (IF Quads(m) + 1 > 1 THEN (Quads(m) + 1) - 1 ELSE 0)
    BY <1>2, <1>5, OneMoreFour, Zenon
  <2> QED BY <2>2, <2>3, <2>4, Zenon
<1>7. CASE rule \notin FourRules
  <2>1. Quads(p) = Quads(m) /\ canPayCardAfterRule(p, rule)
    BY <1>1, <1>7 DEF canPayCardAfterRule
  <2> QED BY <1>2, <1>5, <2>1, OneMoreFour, Zenon
<1> QED BY <1>6, <1>7, Zenon

LEMMA BalancedAfterDiscard ==
    ASSUME Facts, NEW m \in CardMgr, NEW p, NEW c, Discarded(m, p, c), Balanced(m, 1)
    PROVE  Balanced(p, 0)
<1>1. /\ Owned(p) = Owned(m) \ {c} /\ c \in Owned(m) /\ p.show = m.show
  BY DEF Discarded
<1>2. Quads(m) \in Nat /\ PlayerCardCnt \in Nat /\ Quads(p) = Quads(m)
  BY <1>1, FourFinite, DeckAssumption, Zenon DEF Quads
<1>3. Cardinality(Owned(m) \ {c}) = Cardinality(Owned(m)) - 1
  BY <1>1, OwnedFinite, Zenon DEF Facts, FS_Remove
<1> SUFFICES ASSUME Cardinality(p.show["Ti_zimo"]) <= 1
             PROVE  Cardinality(Owned(p)) =
                       PlayerCardCnt + 0 + (IF Quads(p) > 1 THEN Quads(p) - 1 ELSE 0)
  BY DEF Balanced
<1>4. Cardinality(Owned(m)) = PlayerCardCnt + 1 + (IF Quads(m) > 1 THEN Quads(m) - 1 ELSE 0)
  BY <1>1, <1>2 DEF Balanced
<1> QED BY <1>1, <1>2, <1>3, <1>4, SMTT(20)

LEMMA QuadsDealt ==
    ASSUME NEW m \in CardMgr, OnlyDealt(m)
    PROVE  Quads(m) = Cardinality(m.show["Ti_zimo"])
<1>1. UNION {m.show[r] : r \in FourRules} = m.show["Ti_zimo"]
  BY DEF OnlyDealt, FourRules
<1> QED BY <1>1, Zenon DEF Quads

LEMMA BalancedAfterDealt ==
    ASSUME Facts, NEW m \in CardMgr, NEW p, NEW rule, NEW cards, DealtLaid(m, p, rule, cards),
           OnlyDealt(m), NEW due, Balanced(m, due)
    PROVE  OnlyDealt(p) /\ Balanced(p, due)
<1>1. /\ p \in CardMgr /\ Owned(p) = Owned(m)
      /\ \A r \in Melds \ {"Ti_zimo", "Kan"} : p.show[r] = m.show[r]
      /\ m.show["Ti_zimo"] \subseteq p.show["Ti_zimo"]
  BY DEF DealtLaid
<1>2. OnlyDealt(p)
  <2>1. FourRules \ {"Ti_zimo"} \subseteq Melds \ {"Ti_zimo", "Kan"}
    BY DEF FourRules, Melds, Rule
  <2> QED BY <1>1, <2>1, Zenon DEF OnlyDealt
<1>3. Quads(m) = Cardinality(m.show["Ti_zimo"]) /\ Quads(p) = Cardinality(p.show["Ti_zimo"])
  BY <1>1, <1>2, QuadsDealt
<1>4. Quads(m) \in Nat /\ Quads(p) \in Nat
  BY <1>1, FourFinite, Zenon
<1>5. Cardinality(m.show["Ti_zimo"]) <= Cardinality(p.show["Ti_zimo"])
  BY <1>1, FourFinite, Zenon DEF Facts, FS_Part
<1>6. Balanced(p, due)
  <2>1. ASSUME Cardinality(p.show["Ti_zimo"]) <= 1
        PROVE  ~ Quads(p) > 1 /\ ~ Quads(m) > 1 /\ Cardinality(m.show["Ti_zimo"]) <= 1
    BY <1>3, <1>4, <1>5, <2>1, AtMostOne, Zenon
  <2>2. ASSUME Cardinality(p.show["Ti_zimo"]) <= 1
        PROVE  Cardinality(Owned(p)) = PlayerCardCnt + due + 0
    BY <1>1, <2>1, <2>2, Zenon DEF Balanced
  <2> QED BY <2>1, <2>2, Zenon DEF Balanced
<1> QED BY <1>2, <1>6

\* An offer that is no longer open is choupai for its player, and stays so
\* when the best offer is laid
LEMMA LaidKeepsChoupai ==
    ASSUME Dispatching, NEW rest, NEW e \in rest, OfferKept(e), e.site \in Site, LayMeld(rest, e),
           NEW s \in Site, <<s, "Peng">> \in asked,
           ~ \E d \in rest : d.site = s /\ d.rule = "Peng"
    PROVE  FaceOf(paycard) \in players'[s].chou["Peng"]
<1> DEFINE cs == Choupaid(rest)
           ms == Taken(cs, e.site, e.rule)
           g == CHOOSE h \in e.cards : TRUE
           q == ms[e.site]
           p == payCards(q, e.rule, Own(g), paycard)
<1>1. SameTable(cs) /\ SameTable(ms)
  BY ChoupaidSame, TakenSame
<1>2. FaceOf(paycard) \in cs[s].chou["Peng"]
  <2>1. players[s] \in CardMgr
    BY DEF Dispatching
  <2> QED BY <2>1 DEF Choupaid, CardMgr
<1>3. cs[s] \in CardMgr /\ q \in CardMgr
  BY <1>1, Zenon DEF SameTable
<1>4. ms[s].chou = cs[s].chou
  <2> HIDE DEF cs
  <2>1. \/ ms[s] = cs[s]
        \/ ms[s] = [cs[s] EXCEPT !.single = @ \ {paycard}]
        \/ ms[s] = [cs[s] EXCEPT !.pengSingle = @ \cup {paycard}]
    BY DEF Taken, removeSingleShowCard
  <2> HIDE DEF ms
  <2> QED BY <1>3, <2>1 DEF CardMgr
<1>5. players' = [ms EXCEPT ![e.site] = p]
  BY DEF LayMeld
<1>6. e.rule \in FromHand /\ paycard \in Card
  BY TakenGroup, Zenon DEF Dispatching
<1>7. p.chou = q.chou
  <2> HIDE DEF q, g
  <2>1. CASE CanPay(q, e.rule, Own(g), paycard)
    <3>1. HandPaid(q, payCards(q, e.rule, Own(g), paycard), e.rule, Own(g), paycard)
      BY <1>3, <1>6, <2>1, LaidFromHand, Zenon
    <3> QED BY <3>1, Zenon DEF HandPaid
  <2>2. CASE ~ CanPay(q, e.rule, Own(g), paycard)
    BY <2>2 DEF payCards
  <2> QED BY <2>1, <2>2
<1> HIDE DEF cs, ms, p
<1>8. players'[s].chou = ms[s].chou
  BY <1>1, <1>5, <1>7, Zenon DEF SameTable
<1> QED BY <1>2, <1>4, <1>8, Zenon

\* A step that leaves the offers with a Chi laid it as the best of the list
LEMMA ChiIsBest ==
    ASSUME GInv, [Next]_vars, pc = "offer", pc' # "offer", lastPayCardRule' = "Chi",
           NEW e \in possibles, e.rule = "Peng"
    PROVE  FaceOf(paycard) \in players'[e.site].chou["Peng"]
<1>1. TakeOffer \/ PassOffer
  BY Zenon DEF Next, vars, runVars, startPlay, StartGame, BestHu, NoBestHu, LayDealt, AskAllWufu,
         selectWufuBaojing, WufuTimeout, WufuDone, tryHupai, systemDispatchCard, Hongzhuang,
         playerPayCards, Force1, HuByRule, HuByCard, Force2, Offer, Settle, Over
<1>2. PICK rest : RestOf(rest) /\ Answered(rest)
  BY <1>1, OffersLeft
<1>3. PICK b \in rest : (\A d \in rest : b.rank <= d.rank) /\ LayMeld(rest, b)
  BY <1>2 DEF Answered, PassTurn
<1>4. b.rule = "Chi" /\ OfferKept(b) /\ b.site \in Site /\ b.rank \in Nat
  BY <1>2, <1>3 DEF LayMeld, RestOf, Entry
<1>5. ~ \E d \in rest : d.site = e.site /\ d.rule = "Peng"
  <2> SUFFICES ASSUME NEW d \in rest, d.rule = "Peng" PROVE FALSE
    OBVIOUS
  <2>1. d.rank < b.rank
    BY <1>2, <1>4, SMTT(20) DEF RestOf, RuleLevel
  <2>2. b.rank <= d.rank /\ d.rank \in Nat
    BY <1>2, <1>3 DEF RestOf, Entry
  <2> QED BY <1>4, <2>1, <2>2
<1>6. <<e.site, "Peng">> \in asked /\ e.site \in Site
  BY Zenon DEF GInv, TypeOK, OfferInv, OfferKept, Entry
<1>7. Dispatching
  BY AtDispatch DEF CardOnTable
<1> QED BY <1>3, <1>4, <1>5, <1>6, <1>7, LaidKeepsChoupai

\* What a step after the deal shows of a player with an alarm
UneatenStep == \A s \in Site : players[s].wufu => players'[s].show["Chi"] = players[s].show["Chi"]

LEMMA MeldStepUneaten ==
    ASSUME NEW s, NEW rule, NEW g, MeldStep(s, rule, g), rule = "Chi" => ~ players[s].wufu
    PROVE  UneatenStep
BY Zenon DEF MeldStep, Melded, SameHand, UneatenStep

LEMMA NextUneaten ==
    ASSUME Facts, GInv, HandSent, [Next]_vars, pc # "idle"
    PROVE  UneatenStep
<1>1. CASE UNCHANGED players
  BY <1>1 DEF UneatenStep
<1>2. CASE LayDealt
  <2>1. \/ SameStep
        \/ \E s \in Site, rule \in {"Ti_zimo", "Kan"}, g \in SUBSET Card : DealtStep(s, rule, g)
    BY <1>2, LayDealtEffect
  <2>2. "Chi" \in Melds \ {"Ti_zimo", "Kan"}
    BY DEF Melds, Rule
  <2> QED BY <2>1, <2>2, Zenon DEF SameStep, DealtStep, DealtLaid, SameHand, UneatenStep
<1>3. CASE selectWufuBaojing \/ WufuTimeout
  <2>1. \E code \in BOOLEAN : WufuDone(code)
    BY <1>3 DEF selectWufuBaojing, WufuTimeout, GInv, TypeOK
  <2> QED BY <2>1, WufuDoneEffect DEF UneatenStep
<1>4. ASSUME NEW c \in Card, playerPayCards(c)
      PROVE  UneatenStep
  BY <1>4, DiscardStepEffect, Zenon DEF DiscardStep, Discarded, SameHand, UneatenStep
<1>5. CASE Force1 \/ Force2 \/ HuByRule
  <2>1. Dispatching
    BY <1>5, AtDispatch, Zenon DEF Force1, Force2, HuByRule, CardOnTable
  <2>2. \E x : Candidate(x) /\ players' = [players EXCEPT ![x.site] = After(x)]
    <3>1. CASE Force1
      BY <2>1, <3>1, ForceCandidate, Zenon DEF Force1
    <3>2. CASE Force2
      BY <2>1, <3>2, ForceCandidate, Zenon DEF Force2
    <3>3. CASE HuByRule
      <4>1. PICK x \in Payable(RuleCards) : players' = [players EXCEPT ![x.site] = After(x)]
        BY <3>3, Zenon DEF HuByRule, HuGroups
      <4>2. Candidate(x)
        BY <2>1, PayableCandidate, Zenon DEF Dispatching
      <4> QED BY <4>1, <4>2, Zenon
    <3> QED BY <1>5, <3>1, <3>2, <3>3
  <2>4. PICK x : Candidate(x) /\ players' = [players EXCEPT ![x.site] = After(x)]
    BY <2>2, Zenon
  <2>5. MeldStep(x.site, x.rule, Own(x.group))
    BY <2>1, <2>4, CandidateEffect, Zenon
  <2> QED BY <2>4, <2>5, MeldStepUneaten DEF Candidate
<1>6. CASE TakeOffer \/ PassOffer
  <2>1. pc = "offer" /\ Dispatching
    BY <1>6, AtDispatch DEF TakeOffer, PassOffer, CardOnTable
  <2>2. PICK rest : RestOf(rest) /\ Answered(rest)
    BY <1>6, OffersLeft
  <2>3. \/ UNCHANGED players
        \/ players' = Choupaid(rest)
        \/ \E e \in rest : LayMeld(rest, e)
    BY <2>2 DEF Answered
  <2>4. CASE players' = Choupaid(rest)
    BY <2>1, <2>4, ChoupaidSame DEF SameTable, SameHand, UneatenStep
  <2>5. ASSUME NEW e \in rest, LayMeld(rest, e)
        PROVE  UneatenStep
    <3>1. OfferKept(e) /\ e.site \in Site
      BY <2>2 DEF RestOf, Entry
    <3>2. MeldStep(e.site, e.rule, Own(CHOOSE h \in e.cards : TRUE))
      BY <2>1, <2>5, <3>1, LayMeldEffect
    <3> QED BY <3>1, <3>2, MeldStepUneaten, Zenon DEF OfferKept
  <2> QED BY <1>1, <2>3, <2>4, <2>5
<1>7. \/ UNCHANGED players \/ LayDealt \/ selectWufuBaojing \/ WufuTimeout
      \/ \E c \in Card : playerPayCards(c)
      \/ Force1 \/ Force2 \/ HuByRule \/ TakeOffer \/ PassOffer
  BY Zenon DEF Next, vars, runVars, startPlay, StartGame, BestHu, NoBestHu, AskAllWufu, tryHupai,
         systemDispatchCard, Hongzhuang, HuByCard, Offer, Settle, Over
<1> QED BY <1>1, <1>2, <1>3, <1>4, <1>5, <1>6, <1>7
=============================================================================
