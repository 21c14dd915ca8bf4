------------------------------ MODULE GameSteps ------------------------------
(***************************************************************************)
(* Every step of run keeps the invariant of GameProofs, lays the best      *)
(* offer first, and leaves a player with a wufu alarm without a Chi.       *)
(***************************************************************************)
EXTENDS GameProofs

-----------------------------------------------------------------------------
(* The invariant, step by step                                             *)

LEMMA InitGInv ==
    ASSUME Facts
    PROVE  Init => GInv
<1> SUFFICES ASSUME Init PROVE GInv
  OBVIOUS
<1> DEFINE m == initCards({})
<1>1. ScoreInv
  BY InitScoreInv DEF Init
<1>2. m \in CardMgr /\ Owned(m) = {} /\ Tidy(m)
  <2>1. {} \in SUBSET Card
    OBVIOUS
  <2> QED BY <2>1, DealtCards
<1>3. m.hist = <<>> /\ m.wufu = FALSE
  BY DEF initCards
<1> HIDE DEF m
<1>4. \A s \in Site : players[s] = m
  BY DEF Init, m
<1>5. players \in [Site -> CardMgr]
  BY <1>2 DEF Init, m
<1>6. pc = "idle" /\ turns = 0 /\ deck = <<>> /\ payIndex = 1 /\ possibles = {}
  BY DEF Init
<1>7. TypeOK
  <2>1. ScoreTypeOK
    BY <1>1 DEF ScoreInv
  <2>2. outcome \in [site : Site \cup {NoSite}, type : WinType, dp : Site \cup {NoSite}]
    BY DEF Init, NoOutcome, WinType
  <2> QED BY <1>5, <1>6, <2>1, <2>2 DEF Init, TypeOK, Rule, NoSite, MAX_PLAYER_COUNT, TurnCap
<1>8. Control
  BY <1>6 DEF Control, Playing, Ready, Opening, Won, Before, CardOnTable
<1>9. OneOwner
  BY <1>2, <1>4, <1>6 DEF OneOwner, CardOnTable
<1>10. TidyInv /\ HistoryInv
  BY <1>2, <1>3, <1>4, <1>6, NoHistory DEF TidyInv, HistoryInv
<1>11. OfferInv /\ BalanceInv /\ NeverEatDiscarded /\ ScoredRuleWon /\ WufuInv
  BY <1>6 DEF OfferInv, BalanceInv, Before, CardOnTable, NeverEatDiscarded, ScoredRuleWon,
              WufuInv, WufuWinsByFive
<1> QED BY <1>1, <1>7, <1>8, <1>9, <1>10, <1>11 DEF GInv

LEMMA startPlayKeeps ==
    ASSUME Facts, GInv, ScoreInv', startPlay
    PROVE  GInv'
<1>1. zhuang' \in Site /\ ScoreTypeOK'
  BY DEF ScoreInv, ScoreTypeOK
<1>2. /\ CardInv' /\ NeverAll' /\ Fresh(zhuang')
      /\ players' \in [Site -> CardMgr] /\ deck' \in Seq(Card)
  BY <1>1, StartPlayCards
<1>3. /\ pc' = "wait" /\ pc = "idle" /\ turns' = 0 /\ phase' = "playing" /\ curPaysite' = zhuang'
      /\ lastPayCardRule' = "Ti" /\ curPayCardRule' = "Ti"
  BY DEF startPlay, newGame, GInv, Control, Opening
<1>4. TypeOK'
  <2>1. payIndex' \in Nat \ {0}
    BY DeckAssumption DEF startPlay
  <2>2. "Ti" \in Rule
    BY DEF Rule
  <2>3. /\ paycard' \in Card \cup {NoCard} /\ possibles' \in SUBSET Entry
        /\ asked' \in SUBSET (Site \X Rule)
        /\ playWufu' \in BOOLEAN /\ wufuSite' \in Site \cup {NoSite}
        /\ laid' \in 0..MAX_PLAYER_COUNT /\ turns' \in 0..TurnCap
        /\ outcome' \in [site : Site \cup {NoSite}, type : WinType, dp : Site \cup {NoSite}]
    BY DEF startPlay, GInv, TypeOK
  <2> QED BY <1>1, <1>2, <1>3, <2>1, <2>2, <2>3 DEF TypeOK
<1>5. Control'
  BY <1>1, <1>3 DEF Control, Playing, Ready, Opening, Won, Before, CardOnTable
<1>6. BalanceInv'
  <2>1. ASSUME NEW s \in Site
        PROVE  Balanced(players'[s], Due(s)') /\ OnlyDealt(players'[s])
    <3> DEFINE p == players'[s]
    <3>1. /\ p \in CardMgr
          /\ Cardinality(Owned(p)) = PlayerCardCnt + (IF s = zhuang' THEN 1 ELSE 0)
          /\ p.show = [r \in Melds |-> {}]
      BY <1>2, Zenon DEF Fresh
    <3>2. Due(s)' = IF s = zhuang' THEN 1 ELSE 0
      BY <1>3 DEF Due, System
    <3> HIDE DEF p
    <3>3. OnlyDealt(p) /\ p.show["Ti_zimo"] = {}
      BY <3>1 DEF OnlyDealt, FourRules, Melds, Rule
    <3>4. Quads(p) = 0
      BY <3>1, <3>3, QuadsDealt DEF Facts, FS_Empty
    <3>5. Balanced(p, IF s = zhuang' THEN 1 ELSE 0)
      BY <3>1, <3>4, DeckAssumption DEF Balanced
    <3> QED BY <3>2, <3>3, <3>5 DEF p
  <2> QED BY <1>3, <2>1 DEF BalanceInv, CardOnTable
<1>7. WufuInv'
  BY <1>2, <1>3 DEF WufuInv, WufuWinsByFive, Fresh
<1>8. NeverEatDiscarded'
  BY <1>2, <1>3 DEF NeverEatDiscarded, NeverAll, NeverAte
<1>9. OfferInv' /\ ScoredRuleWon'
  BY <1>3 DEF OfferInv, ScoredRuleWon
<1> QED BY <1>2, <1>4, <1>5, <1>6, <1>7, <1>8, <1>9 DEF GInv, CardInv

LEMMA WinTypes ==
    /\ \A w, n, sp : /\ Hupai(w, n, sp) \in WinType
                     /\ w /\ Hupai(w, n, sp) # "none" => Hupai(w, n, sp) = "wufu"
    /\ \A own, sp, n : BestHupai(own, sp, n) \in WinType
BY DEF Hupai, BestHupai, WinType

\* A step that touches no player's cards
LEMMA UnchangedCards ==
    ASSUME GInv, UNCHANGED <<players, deck, payIndex>>,
           CardOnTable' => CardOnTable /\ paycard' = paycard
    PROVE  CardInv' /\ (NeverAll => NeverAll')
BY UnchangedPlayers, SameStepCards

\* What the end of a game needs of the step that ends it
WinStep ==
    /\ pc' = "settle"
    /\ outcome'.type \in WinType \ {"none"} /\ outcome'.site \in Site
    /\ outcome'.dp \in {NoSite, CardFrom'} /\ outcome'.dp # outcome'.site
    /\ outcome' \in [site : Site \cup {NoSite}, type : WinType, dp : Site \cup {NoSite}]
    /\ CardFrom' = outcome'.site => curPayCardRule' = "Ti"
    /\ UNCHANGED <<scoreVars, deck, payIndex, curPaysite, lastPayCardRule, possibles, asked,
                   playWufu, wufuSite, laid>>
    /\ turns' \in 0..TurnCap /\ curPayCardRule' \in Rule /\ paycard' \in Card \cup {NoCard}
    /\ ScoredRuleWon' /\ WufuWinsByFive'

LEMMA WinKeeps ==
    ASSUME GInv, pc \notin {"idle", "over"}, started = Site, WinStep, ScoreInv',
           players' \in [Site -> CardMgr], CardInv'
    PROVE  GInv'
<1>1. TypeOK'
  BY DEF TypeOK, WinStep, GInv, ScoreInv
<1>2. Control'
  BY DEF Control, Playing, Ready, Opening, Won, Before, CardOnTable, WinStep, GInv, scoreVars
<1>3. OfferInv' /\ BalanceInv' /\ NeverEatDiscarded' /\ WufuInv' /\ ScoredRuleWon'
  BY DEF OfferInv, BalanceInv, Before, CardOnTable, NeverEatDiscarded, WufuInv, WinStep
<1> QED BY <1>1, <1>2, <1>3 DEF GInv, CardInv

LEMMA StartGameKeeps ==
    ASSUME GInv, ScoreInv', NEW p \in Site, StartGame(p)
    PROVE  GInv'
<1>1. /\ pc = "wait" /\ pc' = pc /\ phase' = phase /\ UNCHANGED runVars
  BY DEF StartGame, playerStartGame, runVars
<1>2. CardInv' /\ (NeverAll => NeverAll')
  BY <1>1, UnchangedCards DEF runVars, CardOnTable
<1>3. TypeOK'
  BY <1>1 DEF TypeOK, GInv, ScoreInv, runVars
<1>4. Control'
  BY <1>1 DEF Control, Playing, Ready, Opening, Won, Before, CardOnTable, GInv, runVars
<1>5. BalanceInv'
  BY <1>1 DEF BalanceInv, Before, CardOnTable, Due, System, GInv, runVars
<1>6. OfferInv' /\ ScoredRuleWon' /\ WufuInv'
  BY <1>1 DEF OfferInv, ScoredRuleWon, WufuInv, WufuWinsByFive, GInv, runVars
<1>7. NeverEatDiscarded'
  BY <1>1 DEF NeverEatDiscarded, GInv, runVars
<1> QED BY <1>2, <1>3, <1>4, <1>5, <1>6, <1>7 DEF GInv, CardInv

LEMMA BestHuKeeps ==
    ASSUME Facts, GInv, ScoreInv', BestHu
    PROVE  GInv'
<1> DEFINE s == FirstSite(BestSites)
<1>1. /\ pc = "wait" /\ started = Site /\ curPaysite \in Site /\ turns = 0
      /\ players \in [Site -> CardMgr] /\ curPayCardRule = "Ti"
      /\ \A t \in Site : ~ players[t].wufu
  BY DEF BestHu, GInv, TypeOK, Control, Playing, Opening, Before, WufuInv
<1>2. s \in Site /\ BestOf(s) # "none"
  <2>1. BestSites \in SUBSET Site /\ BestSites # {}
    BY DEF BestHu, BestSites
  <2>2. s \in BestSites
    BY <1>1, <2>1, FirstSiteIn
  <2> QED BY <2>2 DEF BestSites
<1>3. BestOf(s) \in WinType
  BY WinTypes DEF BestOf
<1> HIDE DEF s
<1>4. /\ outcome' = [site |-> s, type |-> BestOf(s), dp |-> NoSite] /\ pc' = "settle"
      /\ UNCHANGED <<deck, payIndex, players, curPaysite, lastPayCardRule, curPayCardRule,
                   paycard, possibles, asked, playWufu, wufuSite, laid, turns, scoreVars>>
  BY DEF BestHu, Win, s
<1>5. CardInv' /\ players' \in [Site -> CardMgr]
  BY <1>1, <1>4, UnchangedCards DEF CardOnTable
<1>6. WinStep
  <2>1. ScoredRuleWon' /\ WufuWinsByFive'
    BY <1>1, <1>2, <1>4 DEF ScoredRuleWon, WufuWinsByFive
  <2>2. NoSite # s
    BY <1>2, Seats
  <2>3. turns' \in 0..TurnCap /\ curPayCardRule' \in Rule /\ paycard' \in Card \cup {NoCard}
    BY <1>4 DEF GInv, TypeOK
  <2> QED BY <1>1, <1>2, <1>3, <1>4, <2>1, <2>2, <2>3 DEF WinStep
<1> QED BY <1>1, <1>5, <1>6, WinKeeps

LEMMA NoBestHuKeeps ==
    ASSUME GInv, ScoreInv', NoBestHu
    PROVE  GInv'
<1>1. /\ pc = "wait" /\ pc' = "lay" /\ started = Site /\ laid' = 0
      /\ UNCHANGED <<deck, payIndex, players, curPaysite, lastPayCardRule, curPayCardRule,
                   paycard, possibles, asked, playWufu, wufuSite, turns, outcome, scoreVars>>
  BY DEF NoBestHu
<1>2. CardInv' /\ (NeverAll => NeverAll')
  BY <1>1, UnchangedCards DEF CardOnTable
<1>3. TypeOK'
  BY <1>1 DEF TypeOK, GInv, ScoreInv, MAX_PLAYER_COUNT
<1>4. Control'
  BY <1>1 DEF Control, Playing, Ready, Opening, Won, Before, CardOnTable, GInv, scoreVars
<1>5. BalanceInv'
  BY <1>1 DEF BalanceInv, Before, CardOnTable, Due, System, GInv
<1>6. OfferInv' /\ ScoredRuleWon' /\ WufuInv'
  BY <1>1 DEF OfferInv, ScoredRuleWon, WufuInv, WufuWinsByFive
<1>7. NeverEatDiscarded'
  BY <1>1 DEF NeverEatDiscarded, GInv
<1> QED BY <1>2, <1>3, <1>4, <1>5, <1>6, <1>7 DEF GInv, CardInv

LEMMA LayDealtKeeps ==
    ASSUME Facts, GInv, ScoreInv', LayDealt
    PROVE  GInv'
<1>1. /\ pc = "lay" /\ pc' = "lay"
      /\ UNCHANGED <<deck, payIndex, curPaysite, lastPayCardRule, curPayCardRule, paycard,
                     possibles, asked, playWufu, wufuSite, turns, outcome, started, phase>>
  BY DEF LayDealt
<1>2. \/ SameStep
      \/ \E s \in Site, rule \in {"Ti_zimo", "Kan"}, g \in SUBSET Card : DealtStep(s, rule, g)
  BY LayDealtEffect
<1>3. CardInv' /\ (NeverAll => NeverAll')
  <2>1. ~ CardOnTable'
    BY <1>1 DEF CardOnTable
  <2>2. CASE SameStep
    BY <1>1, <2>1, <2>2, SameStepCards
  <2>3. CASE \E s \in Site, rule \in {"Ti_zimo", "Kan"}, g \in SUBSET Card : DealtStep(s, rule, g)
    BY <1>1, <2>1, <2>3, DealtStepCards
  <2> QED BY <1>2, <2>2, <2>3
<1>4. players' \in [Site -> CardMgr]
  BY <1>2 DEF SameStep, DealtStep
<1>5. laid' \in 0..MAX_PLAYER_COUNT
  BY SMTT(20) DEF LayDealt, LayGroup, GInv, TypeOK, MAX_PLAYER_COUNT
<1>6. TypeOK'
  BY <1>1, <1>4, <1>5 DEF TypeOK, GInv, ScoreInv
<1>7. Control'
  BY <1>1 DEF Control, Playing, Ready, Opening, Won, Before, CardOnTable, GInv
<1>8. BalanceInv'
  <2>1. \A s \in Site : /\ Balanced(players[s], Due(s)) /\ OnlyDealt(players[s])
                        /\ players[s] \in CardMgr /\ Due(s)' = Due(s)
    BY <1>1 DEF GInv, TypeOK, BalanceInv, Before, Due, System
  <2>2. ASSUME NEW s \in Site, SameHand(players[s], players'[s])
        PROVE  Balanced(players'[s], Due(s)) /\ OnlyDealt(players'[s])
    <3>1. /\ \A due : Balanced(players'[s], due) = Balanced(players[s], due)
          /\ players'[s].show = players[s].show
      BY <2>2, SameHandOf
    <3> QED BY <2>1, <3>1 DEF OnlyDealt
  <2>3. \A s \in Site : Balanced(players'[s], Due(s)) /\ OnlyDealt(players'[s])
    <3>1. CASE SameStep
      BY <2>2, <3>1 DEF SameStep
    <3>2. ASSUME NEW s \in Site, NEW rule \in {"Ti_zimo", "Kan"}, NEW g, DealtStep(s, rule, g)
          PROVE  \A t \in Site : Balanced(players'[t], Due(t)) /\ OnlyDealt(players'[t])
      <4>1. Balanced(players'[s], Due(s)) /\ OnlyDealt(players'[s])
        BY <2>1, <3>2, BalancedAfterDealt DEF DealtStep
      <4> QED BY <2>2, <3>2, <4>1 DEF DealtStep
    <3> QED BY <1>2, <3>1, <3>2
  <2> QED BY <1>1, <2>1, <2>3 DEF BalanceInv, CardOnTable
<1>9. OfferInv' /\ ScoredRuleWon' /\ WufuInv'
  BY <1>1 DEF OfferInv, ScoredRuleWon, WufuInv, WufuWinsByFive
<1>10. NeverEatDiscarded'
  <2>1. NeverAll
    BY <1>1, NeverEatIs DEF GInv
  <2>2. NeverAll'
    BY <1>3, <2>1
  <2> QED BY <2>2 DEF NeverEatDiscarded, NeverAll, NeverAte
<1> QED BY <1>3, <1>6, <1>7, <1>8, <1>9, <1>10 DEF GInv, CardInv

LEMMA AskWufuEffect ==
    ASSUME Facts, curPaysite \in Site, NEW S \in SUBSET Site, NEW ms, NEW next, AskWufu(S, ms, next),
           playWufu \in BOOLEAN
    PROVE  /\ playWufu' \in BOOLEAN
           /\ \/ pc' = next /\ wufuSite' = NoSite
              \/ pc' = "wufu" /\ wufuSite' \in Site
<1> DEFINE able == {s \in S : checkWufuBaojing(ms[s])}
<1>1. CASE able = {}
  BY <1>1, Zenon DEF AskWufu
<1>2. CASE able # {}
  <2>1. able \in SUBSET Site
    OBVIOUS
  <2>2. wufuSite' = FirstSite(able) /\ pc' = "wufu" /\ UNCHANGED playWufu
    BY <1>2 DEF AskWufu
  <2> HIDE DEF able
  <2>3. FirstSite(able) \in able
    BY <1>2, <2>1, FirstSiteIn
  <2> QED BY <2>1, <2>2, <2>3
<1> QED BY <1>1, <1>2

LEMMA AskAllWufuKeeps ==
    ASSUME Facts, GInv, ScoreInv', AskAllWufu
    PROVE  GInv'
<1>1. /\ pc = "lay" /\ AskWufu(Site, players, "tryhu")
      /\ UNCHANGED <<deck, payIndex, players, curPaysite, lastPayCardRule, curPayCardRule,
                     paycard, possibles, asked, laid, turns, outcome, scoreVars>>
  BY DEF AskAllWufu
<1>2. curPaysite \in Site /\ playWufu \in BOOLEAN
  BY <1>1 DEF GInv, TypeOK, Control, Playing
<1>3. /\ playWufu' \in BOOLEAN
      /\ \/ pc' = "tryhu" /\ wufuSite' = NoSite
         \/ pc' = "wufu" /\ wufuSite' \in Site
  BY <1>1, <1>2, AskWufuEffect
<1>4. CardInv' /\ (NeverAll => NeverAll')
  BY <1>1, <1>3, UnchangedCards DEF CardOnTable
<1>5. TypeOK'
  BY <1>1, <1>3 DEF TypeOK, GInv, ScoreInv
<1>6. Control'
  BY <1>1, <1>3 DEF Control, Playing, Ready, Opening, Won, Before, CardOnTable, GInv, scoreVars
<1>7. BalanceInv'
  BY <1>1, <1>3 DEF BalanceInv, Before, CardOnTable, Due, System, GInv
<1>8. OfferInv' /\ ScoredRuleWon' /\ WufuInv'
  BY <1>3 DEF OfferInv, ScoredRuleWon, WufuInv, WufuWinsByFive
<1>9. NeverEatDiscarded'
  <2>1. NeverAll
    BY <1>1, NeverEatIs DEF GInv
  <2> QED BY <1>4, <2>1, Zenon DEF NeverEatDiscarded, NeverAll, NeverAte
<1> QED BY <1>4, <1>5, <1>6, <1>7, <1>8, <1>9 DEF GInv, CardInv

LEMMA WufuDoneKeeps ==
    ASSUME GInv, ScoreInv', NEW code \in BOOLEAN, WufuDone(code)
    PROVE  GInv'
<1>1. /\ pc = "wufu" /\ pc' = (IF turns = 0 THEN "tryhu" ELSE "turn")
      /\ playWufu' = FALSE /\ wufuSite' = NoSite
      /\ UNCHANGED <<deck, payIndex, curPaysite, lastPayCardRule, curPayCardRule, paycard,
                     possibles, asked, laid, turns, outcome, scoreVars>>
  BY DEF WufuDone
<1>2. SameStep
  BY WufuDoneEffect
<1>3. CardInv' /\ (NeverAll => NeverAll') /\ players' \in [Site -> CardMgr]
  BY <1>1, <1>2, SameStepCards DEF CardOnTable, SameStep
<1>4. TypeOK'
  BY <1>1, <1>3, Zenon DEF TypeOK, GInv, ScoreInv
<1>5. Control'
  BY <1>1 DEF Control, Playing, Ready, Opening, Won, Before, CardOnTable, GInv, scoreVars
<1>6. BalanceInv'
  <2>1. \A s \in Site : /\ \A due : Balanced(players'[s], due) = Balanced(players[s], due)
                        /\ players'[s].show = players[s].show
    BY <1>2, SameHandOf DEF SameStep
  <2>2. \A s \in Site : Balanced(players[s], Due(s)) /\ Due(s)' = Due(s)
    BY <1>1 DEF GInv, BalanceInv, Due, System
  <2>3. Before' => \A s \in Site : OnlyDealt(players'[s])
    BY <1>1, <2>1 DEF GInv, BalanceInv, Before, OnlyDealt
  <2> QED BY <1>1, <2>1, <2>2, <2>3 DEF BalanceInv, CardOnTable
<1>7. OfferInv' /\ ScoredRuleWon' /\ WufuInv'
  BY <1>1 DEF OfferInv, ScoredRuleWon, WufuInv, WufuWinsByFive
<1>8. NeverEatDiscarded'
  <2>1. NeverAll
    BY <1>1, NeverEatIs DEF GInv
  <2>2. NeverAll'
    BY <1>3, <2>1
  <2> QED BY <2>2 DEF NeverEatDiscarded, NeverAll, NeverAte
<1> QED BY <1>3, <1>4, <1>5, <1>6, <1>7, <1>8 DEF GInv, CardInv

LEMMA tryHupaiKeeps ==
    ASSUME Facts, GInv, ScoreInv', tryHupai
    PROVE  GInv'
<1>1. /\ pc = "tryhu" /\ started = Site /\ curPaysite \in Site /\ turns = 0
      /\ players \in [Site -> CardMgr] /\ curPayCardRule = "Ti"
      /\ UNCHANGED <<deck, payIndex, players, curPaysite, lastPayCardRule, curPayCardRule,
                     paycard, possibles, asked, playWufu, wufuSite, laid, turns, scoreVars>>
  BY DEF tryHupai, GInv, TypeOK, Control, Playing, Ready, Opening, Before
<1>2. CASE HuSites # {}
  <2> DEFINE s == FirstSite(HuSites)
  <2>1. s \in Site /\ HuType(players[s], {}) # "none"
    <3>1. HuSites \in SUBSET Site
      BY DEF HuSites
    <3>2. s \in HuSites
      BY <1>1, <1>2, <3>1, FirstSiteIn
    <3> QED BY <3>2 DEF HuSites
  <2>2. /\ HuType(players[s], {}) \in WinType
        /\ players[s].wufu => HuType(players[s], {}) = "wufu"
    BY <2>1, WinTypes DEF HuType
  <2>3. outcome' = [site |-> s, type |-> HuType(players[s], {}), dp |-> NoSite] /\ pc' = "settle"
    BY <1>2 DEF tryHupai, Win
  <2> HIDE DEF s
  <2>4. CardInv' /\ players' \in [Site -> CardMgr]
    BY <1>1, <2>3, UnchangedCards DEF CardOnTable
  <2>5. WinStep
    <3>1. ScoredRuleWon' /\ WufuWinsByFive'
      BY <1>1, <2>1, <2>2, <2>3 DEF ScoredRuleWon, WufuWinsByFive
    <3>2. NoSite # s
      BY <2>1, Seats
    <3>3. turns' \in 0..TurnCap /\ curPayCardRule' \in Rule /\ paycard' \in Card \cup {NoCard}
      BY <1>1 DEF GInv, TypeOK
    <3> QED BY <1>1, <2>1, <2>2, <2>3, <3>1, <3>2, <3>3 DEF WinStep
  <2> QED BY <1>1, <2>4, <2>5, WinKeeps
<1>3. CASE HuSites = {}
  <2>1. pc' = "turn" /\ UNCHANGED outcome
    BY <1>3 DEF tryHupai
  <2>2. CardInv' /\ (NeverAll => NeverAll')
    BY <1>1, <2>1, UnchangedCards DEF CardOnTable
  <2>3. TypeOK'
    BY <1>1, <2>1 DEF TypeOK, GInv, ScoreInv
  <2>4. Control'
    BY <1>1, <2>1 DEF Control, Playing, Ready, Opening, Won, Before, CardOnTable, GInv, scoreVars
  <2>5. BalanceInv'
    BY <1>1, <2>1 DEF BalanceInv, Before, CardOnTable, Due, System, GInv
  <2>6. OfferInv' /\ ScoredRuleWon' /\ WufuInv'
    BY <2>1 DEF OfferInv, ScoredRuleWon, WufuInv, WufuWinsByFive
  <2>7. NeverEatDiscarded'
    BY <1>1, SMTT(20) DEF NeverEatDiscarded, GInv
  <2> QED BY <2>2, <2>3, <2>4, <2>5, <2>6, <2>7 DEF GInv, CardInv
<1> QED BY <1>2, <1>3

LEMMA NextTurnCounts ==
    ASSUME turns \in 0..TurnCap, NextTurn
    PROVE  turns' \in 0..TurnCap /\ turns' >= 1
BY DEF NextTurn, TurnCap

LEMMA systemDispatchCardKeeps ==
    ASSUME GInv, ScoreInv', systemDispatchCard
    PROVE  GInv'
<1>1. /\ pc = "turn" /\ pc' = "dispatch" /\ System /\ payIndex' = payIndex + 1 /\ NextTurn
      /\ UNCHANGED <<deck, players, curPaysite, lastPayCardRule, curPayCardRule, possibles,
                     asked, playWufu, wufuSite, laid, outcome, scoreVars>>
  BY DEF systemDispatchCard
<1>2. CardInv' /\ (NeverAll => NeverAll') /\ paycard' \in Card
  BY SystemCards
<1>3. turns' \in 0..TurnCap /\ turns' >= 1
  BY <1>1, NextTurnCounts DEF GInv, TypeOK
<1>4. payIndex' \in Nat \ {0}
  BY <1>1 DEF GInv, TypeOK
<1>5. TypeOK'
  BY <1>1, <1>2, <1>3, <1>4 DEF TypeOK, GInv, ScoreInv
<1>6. Control'
  BY <1>1, <1>2, <1>3 DEF Control, Playing, Ready, Opening, Won, Before, CardOnTable, GInv,
                          scoreVars
<1>7. BalanceInv'
  BY <1>1 DEF BalanceInv, Before, CardOnTable, Due, GInv
<1>8. OfferInv' /\ ScoredRuleWon' /\ WufuInv'
  BY <1>1 DEF OfferInv, ScoredRuleWon, WufuInv, WufuWinsByFive
<1>9. NeverEatDiscarded'
  BY <1>1 DEF NeverEatDiscarded, GInv
<1> QED BY <1>2, <1>5, <1>6, <1>7, <1>8, <1>9 DEF GInv, CardInv

LEMMA HongzhuangKeeps ==
    ASSUME GInv, ScoreInv', Hongzhuang
    PROVE  GInv'
<1>1. /\ pc = "turn" /\ System /\ paycard' = NoCard /\ NextTurn
      /\ outcome' = [site |-> zhuang, type |-> "hongzhuang", dp |-> NoSite] /\ pc' = "settle"
      /\ UNCHANGED <<deck, payIndex, players, curPaysite, lastPayCardRule, curPayCardRule,
                     possibles, asked, playWufu, wufuSite, laid, scoreVars>>
  BY DEF Hongzhuang, Win
<1>2. started = Site /\ players \in [Site -> CardMgr] /\ zhuang \in Site /\ curPayCardRule \in Rule
  BY <1>1 DEF GInv, TypeOK, ScoreTypeOK, Control, Ready
<1>3. CardInv' /\ players' \in [Site -> CardMgr]
  BY <1>1, <1>2, UnchangedCards DEF CardOnTable
<1>4. turns' \in 0..TurnCap
  BY <1>1, NextTurnCounts DEF GInv, TypeOK
<1>5. WinStep
  <2>1. ScoredRuleWon' /\ WufuWinsByFive'
    BY <1>1 DEF ScoredRuleWon, WufuWinsByFive
  <2>2. NoSite # zhuang /\ CardFrom' = NoSite
    BY <1>1, <1>2, Seats DEF CardFrom, System
  <2>3. "hongzhuang" \in WinType \ {"none"}
    BY DEF WinType
  <2> QED BY <1>1, <1>2, <1>4, <2>1, <2>2, <2>3 DEF WinStep
<1> QED BY <1>1, <1>2, <1>3, <1>5, WinKeeps

LEMMA playerPayCardsKeeps ==
    ASSUME Facts, GInv, HandSent, ScoreInv', NEW c \in Card, playerPayCards(c)
    PROVE  GInv'
<1>1. /\ pc = "turn" /\ pc' = "dispatch" /\ ~ System /\ paycard' = c /\ NextTurn
      /\ curPayCardRule' = "None"
      /\ UNCHANGED <<deck, payIndex, curPaysite, lastPayCardRule, possibles, asked, playWufu,
                     wufuSite, laid, outcome, scoreVars>>
  BY HandPays DEF playerPayCards
<1>2. curPaysite \in Site /\ players \in [Site -> CardMgr]
  BY <1>1 DEF GInv, TypeOK, Control, Playing
<1>3. DiscardStep(c)
  BY DiscardStepEffect
<1>4. CardInv' /\ (NeverAll => NeverAll') /\ players' \in [Site -> CardMgr]
  BY <1>1, <1>2, <1>3, DiscardStepCards DEF DiscardStep
<1>5. turns' \in 0..TurnCap /\ turns' >= 1
  BY <1>1, NextTurnCounts DEF GInv, TypeOK
<1>6. TypeOK'
  <2>1. "None" \in Rule
    BY DEF Rule
  <2> QED BY <1>1, <1>4, <1>5, <2>1 DEF TypeOK, GInv, ScoreInv
<1>7. Control'
  BY <1>1, <1>5 DEF Control, Playing, Ready, Opening, Won, Before, CardOnTable, GInv, scoreVars
<1>8. BalanceInv'
  <2>1. \A s \in Site : Balanced(players[s], IF s = curPaysite THEN 1 ELSE 0)
    BY <1>1 DEF GInv, BalanceInv, Due
  <2>2. Balanced(players'[curPaysite], 0)
    BY <1>2, <1>3, <2>1, BalancedAfterDiscard DEF DiscardStep
  <2>3. ASSUME NEW s \in Site \ {curPaysite}
        PROVE  Balanced(players'[s], 0)
    <3>1. \A due : Balanced(players'[s], due) = Balanced(players[s], due)
      BY <1>3, SameHandOf DEF DiscardStep
    <3> QED BY <2>1, <3>1
  <2> QED BY <1>1, <2>2, <2>3 DEF BalanceInv, Before, CardOnTable
<1>9. OfferInv' /\ ScoredRuleWon' /\ WufuInv'
  BY <1>1 DEF OfferInv, ScoredRuleWon, WufuInv, WufuWinsByFive
<1>10. NeverEatDiscarded'
  <2>1. NeverAll
    BY <1>1, NeverEatIs DEF GInv
  <2>2. NeverAll'
    BY <1>4, <2>1
  <2> QED BY <2>2, Zenon DEF NeverEatDiscarded, NeverAll, NeverAte
<1> QED BY <1>4, <1>6, <1>7, <1>8, <1>9, <1>10 DEF GInv, CardInv

\* A group that wins
LEMMA CandidateWins ==
    ASSUME Facts, GInv, ScoreInv', pc = "dispatch", NEW x, Candidate(x), HuAfter(x) # "none",
           players' = [players EXCEPT ![x.site] = After(x)], curPayCardRule' = x.rule,
           Win(x.site, HuAfter(x), CardFrom),
           UNCHANGED <<deck, payIndex, curPaysite, lastPayCardRule, paycard, possibles, asked,
                       playWufu, wufuSite, laid, turns, scoreVars>>
    PROVE  GInv'
<1>1. Dispatching
  BY AtDispatch DEF CardOnTable
<1>2. MeldStep(x.site, x.rule, Own(x.group))
  BY <1>1, CandidateEffect, Zenon
<1>3. /\ outcome' = [site |-> x.site, type |-> HuAfter(x), dp |-> CardFrom] /\ pc' = "settle"
  BY DEF Win
<1>4. /\ x.site \in Site /\ x.rule \in FromHand \cup FromShow
      /\ ~ System => x.site # curPaysite
  BY DEF Candidate
<1>5. CardInv' /\ players' \in [Site -> CardMgr]
  BY <1>1, <1>2, <1>3, <1>4, MeldStepCards, Zenon DEF CardOnTable, MeldStep
<1>6. CardFrom' = CardFrom /\ CardFrom # x.site /\ CardFrom \in Site \cup {NoSite}
  BY <1>1, <1>4, Seats DEF CardFrom, System, Dispatching
<1>7. players'[x.site] = After(x)
  BY <1>1, <1>4 DEF Dispatching
<1>8. ScoredRuleWon'
  BY <1>2, <1>3, Zenon DEF ScoredRuleWon, MeldStep, Melded, Entered
<1>9. /\ HuAfter(x) \in WinType
      /\ After(x).wufu => HuAfter(x) = "wufu"
  BY WinTypes, Zenon DEF HuAfter, HuType
<1>10. WufuWinsByFive'
  BY <1>3, <1>7, <1>9 DEF WufuWinsByFive
<1>11. WinStep
  <2>1. x.rule \in Rule
    BY <1>4, RuleKinds
  <2>2. turns' \in 0..TurnCap /\ paycard' \in Card \cup {NoCard}
    BY DEF GInv, TypeOK
  <2> QED BY <1>3, <1>4, <1>6, <1>8, <1>9, <1>10, <2>1, <2>2 DEF WinStep
<1> QED BY <1>1, <1>5, <1>11, WinKeeps DEF Dispatching

\* Who discards next, after a group
TurnsTo(s, rule) ==
    /\ curPaysite' \in Site /\ lastPayCardRule' \in Rule
    /\ IF canPayCardAfterRule(players'[s], rule)
       THEN curPaysite' = s /\ lastPayCardRule' # "None"
       ELSE lastPayCardRule' = "None"

\* A group that does not win
LEMMA TableMeldKeeps ==
    ASSUME Facts, GInv, ScoreInv', Dispatching, NEW s, NEW rule \in FromHand \cup FromShow, NEW g,
           MeldStep(s, rule, g), TurnsTo(s, rule),
           rule = "Chi" => \A c \in g : FaceOf(c) \notin players[s].chou["Chi"],
           playWufu' \in BOOLEAN, \/ pc' = "turn" /\ wufuSite' \in Site \cup {NoSite}
                                  \/ pc' = "wufu" /\ wufuSite' \in Site,
           curPayCardRule' \in Rule, possibles' \in SUBSET Entry,
           asked' \in SUBSET (Site \X Rule),
           UNCHANGED <<deck, payIndex, paycard, laid, turns, outcome, started, phase>>
    PROVE  GInv'
<1>1. /\ CardInv'
      /\ NeverAll /\ (rule = "Chi" => \A c \in g : FaceOf(c) \notin players[s].chou["Chi"])
            => NeverAll'
  BY MeldStepCards, Zenon DEF CardOnTable
<1>2. NeverAll'
  BY <1>1, NeverEatIs, Zenon DEF GInv, Dispatching, CardOnTable
<1>3. players' \in [Site -> CardMgr] /\ s \in Site
  BY Zenon DEF MeldStep
<1>4. TypeOK'
  BY <1>3, Zenon DEF TypeOK, GInv, ScoreInv, TurnsTo
<1>5. turns' # 0
  <2>1. turns' >= 1
    BY Zenon DEF Dispatching
  <2> QED BY <2>1, SMTT(20)
<1>6. Control'
  <2>1. phase' = "playing" /\ started' = Site /\ curPaysite' \in Site
    BY Zenon DEF Dispatching, TurnsTo
  <2> QED BY <1>5, <2>1 DEF Control, Playing, Ready, Opening, Won, Before, CardOnTable
<1>7. BalanceInv'
  <2> DEFINE due == IF canPayCardAfterRule(players'[s], rule) THEN 1 ELSE 0
  <2>1. \A t \in Site : Balanced(players[t], 0) /\ players[t] \in CardMgr
    BY Zenon DEF GInv, BalanceInv, Dispatching
  <2>2. Balanced(players'[s], due)
    BY <1>3, <2>1, BalancedAfterMeld, Zenon DEF MeldStep, Dispatching
  <2>3. ASSUME NEW t \in Site \ {s}
        PROVE  Balanced(players'[t], 0)
    <3>1. \A d : Balanced(players'[t], d) = Balanced(players[t], d)
      BY SameHandOf, Zenon DEF MeldStep
    <3> QED BY <2>1, <3>1
  <2>4. \A t \in Site : Due(t)' = IF t = s THEN due ELSE 0
    BY Zenon DEF TurnsTo, Due, System
  <2>5. \A t \in Site : Balanced(players'[t], Due(t)')
    BY <2>2, <2>3, <2>4, Zenon
  <2>6. ~ Before' /\ ~ CardOnTable'
    BY <1>5 DEF Before, CardOnTable
  <2> QED BY <2>5, <2>6, Zenon DEF BalanceInv
<1>8. OfferInv' /\ ScoredRuleWon' /\ WufuInv'
  BY Zenon DEF OfferInv, ScoredRuleWon, WufuInv, WufuWinsByFive
<1>9. NeverEatDiscarded'
  BY <1>2 DEF NeverEatDiscarded, NeverAll, NeverAte
<1> QED BY <1>1, <1>4, <1>6, <1>7, <1>8, <1>9, Zenon DEF GInv, CardInv

LEMMA TurnAfterTurns ==
    ASSUME NEW x, x.site \in Site, x.rule \in FromHand \cup FromShow, TurnAfter(x),
           players'[x.site] = After(x)
    PROVE  TurnsTo(x.site, x.rule)
<1>1. x.rule \in Rule /\ x.rule # "None" /\ "None" \in Rule
  BY RuleKinds DEF Alone, Rule
<1>2. turnNextSite(x.site) \in Site
  BY Seats
<1> QED BY <1>1, <1>2 DEF TurnAfter, TurnsTo

LEMMA Force1Keeps ==
    ASSUME Facts, GInv, ScoreInv', Force1
    PROVE  GInv'
<1>1. Dispatching /\ pc = "dispatch"
  BY AtDispatch DEF CardOnTable, Force1
<1>2. PICK x \in Payable({e \in RuleCards : e.rule \in ForceRule1}) :
         /\ players' = [players EXCEPT ![x.site] = After(x)]
         /\ curPayCardRule' = x.rule
         /\ \/ /\ HuAfter(x) # "none"
               /\ Win(x.site, HuAfter(x), CardFrom)
               /\ UNCHANGED <<curPaysite, lastPayCardRule, playWufu, wufuSite, scoreVars>>
            \/ /\ AskWufu({x.site}, players', "turn")
               /\ TurnAfter(x)
               /\ UNCHANGED <<outcome, results, zhuang, started, phase>>
         /\ UNCHANGED <<deck, payIndex, paycard, possibles, asked, laid, turns>>
  BY Zenon DEF Force1
<1>3. Candidate(x) /\ x.rule \in ForceRule1
  BY <1>1, ForceCandidate, Zenon
<1>4. CASE /\ HuAfter(x) # "none" /\ Win(x.site, HuAfter(x), CardFrom)
           /\ UNCHANGED <<curPaysite, lastPayCardRule, playWufu, wufuSite, scoreVars>>
  BY <1>1, <1>2, <1>3, <1>4, CandidateWins, Zenon
<1>5. CASE /\ AskWufu({x.site}, players', "turn") /\ TurnAfter(x)
           /\ UNCHANGED <<outcome, results, zhuang, started, phase>>
  <2>1. MeldStep(x.site, x.rule, Own(x.group))
    BY <1>1, <1>2, <1>3, CandidateEffect, Zenon
  <2>2. /\ x.site \in Site /\ x.rule \in FromHand \cup FromShow /\ x.rule # "Chi"
        /\ x.rule \in Rule
    BY <1>3, RuleKinds DEF Candidate, ForceRule1
  <2>3. players'[x.site] = After(x)
    BY <1>1, <1>2, <2>2 DEF Dispatching
  <2>4. TurnsTo(x.site, x.rule)
    BY <1>5, <2>2, <2>3, TurnAfterTurns, Zenon
  <2>5. /\ playWufu' \in BOOLEAN
        /\ \/ pc' = "turn" /\ wufuSite' = NoSite
           \/ pc' = "wufu" /\ wufuSite' \in Site
    <3>1. curPaysite \in Site /\ {x.site} \in SUBSET Site /\ playWufu \in BOOLEAN
      BY <1>1, <2>2, Zenon DEF Dispatching, GInv, TypeOK
    <3> QED BY <1>5, <3>1, AskWufuEffect
  <2>6. possibles' \in SUBSET Entry /\ asked' \in SUBSET (Site \X Rule)
    BY <1>2 DEF GInv, TypeOK
  <2> QED BY <1>1, <1>2, <1>5, <2>1, <2>2, <2>4, <2>5, <2>6, TableMeldKeeps, Zenon
<1> QED BY <1>2, <1>4, <1>5

LEMMA Force2Keeps ==
    ASSUME Facts, GInv, ScoreInv', Force2
    PROVE  GInv'
<1>1. Dispatching /\ pc = "dispatch" /\ pc' = "turn"
  BY AtDispatch DEF CardOnTable, Force2
<1>2. PICK x \in Payable({e \in RuleCards : e.rule \in ForceRule2}) :
         /\ players' = [players EXCEPT ![x.site] = After(x)]
         /\ curPayCardRule' = x.rule /\ TurnAfter(x)
         /\ UNCHANGED <<deck, payIndex, paycard, possibles, asked, playWufu, wufuSite, laid,
                        turns, outcome, started, phase>>
  BY Zenon DEF Force2
<1>3. Candidate(x) /\ x.rule \in ForceRule2
  BY <1>1, ForceCandidate, Zenon
<1>4. MeldStep(x.site, x.rule, Own(x.group))
  BY <1>1, <1>2, <1>3, CandidateEffect, Zenon
<1>5. /\ x.site \in Site /\ x.rule \in FromHand \cup FromShow /\ x.rule # "Chi"
      /\ x.rule \in Rule
  BY <1>3, RuleKinds DEF Candidate, ForceRule2
<1>6. players'[x.site] = After(x)
  BY <1>1, <1>2, <1>5 DEF Dispatching
<1>7. TurnsTo(x.site, x.rule)
  BY <1>2, <1>5, <1>6, TurnAfterTurns
<1>8. /\ possibles' \in SUBSET Entry /\ asked' \in SUBSET (Site \X Rule)
      /\ playWufu' \in BOOLEAN /\ wufuSite' \in Site \cup {NoSite}
  BY <1>2 DEF GInv, TypeOK
<1> QED BY <1>1, <1>2, <1>4, <1>5, <1>7, <1>8, TableMeldKeeps, Zenon

\* A win by a group of the card on the table
LEMMA HuByRuleKeeps ==
    ASSUME Facts, GInv, ScoreInv', HuByRule
    PROVE  GInv'
<1>1. Dispatching /\ pc = "dispatch"
  BY AtDispatch, Zenon DEF CardOnTable, HuByRule
<1>2. PICK x \in HuGroups :
         /\ players' = [players EXCEPT ![x.site] = After(x)]
         /\ curPayCardRule' = x.rule
         /\ Win(x.site, HuAfter(x), CardFrom)
         /\ UNCHANGED <<deck, payIndex, curPaysite, lastPayCardRule, paycard, possibles, asked,
                        playWufu, wufuSite, laid, turns, scoreVars>>
  BY Zenon DEF HuByRule
<1>3. x \in Payable(RuleCards) /\ HuAfter(x) # "none"
  BY DEF HuGroups
<1>4. Candidate(x)
  BY <1>1, <1>3, PayableCandidate, Zenon DEF Dispatching
<1> QED BY <1>1, <1>2, <1>3, <1>4, CandidateWins, Zenon

\* A win by the card itself, among the cards of the hand
LEMMA HuByCardKeeps ==
    ASSUME Facts, GInv, ScoreInv', HuByCard
    PROVE  GInv'
<1> DEFINE s == Min(HuByCardSites)
<1>1. Dispatching /\ pc = "dispatch"
  BY AtDispatch DEF CardOnTable, HuByCard
<1>2. /\ s \in Site /\ (System \/ s # curPaysite)
      /\ HuType(players[s], {paycard}) # "none"
  <2>1. HuByCardSites \in SUBSET Site /\ HuByCardSites # {}
    BY DEF HuByCard, HuByCardSites
  <2>2. s \in HuByCardSites
    BY <2>1, MinIn
  <2> QED BY <2>2 DEF HuByCardSites
<1>3. /\ HuType(players[s], {paycard}) \in WinType
      /\ players[s].wufu => HuType(players[s], {paycard}) = "wufu"
  BY <1>2, WinTypes, Zenon DEF HuType
<1>4. /\ outcome' = [site |-> s, type |-> HuType(players[s], {paycard}), dp |-> CardFrom]
      /\ pc' = "settle" /\ curPayCardRule' = "None"
      /\ UNCHANGED <<deck, payIndex, players, curPaysite, lastPayCardRule, paycard, possibles,
                     asked, playWufu, wufuSite, laid, turns, scoreVars>>
  BY DEF HuByCard, Win
<1> HIDE DEF s
<1>5. CardInv' /\ players' \in [Site -> CardMgr]
  BY <1>1, <1>4, UnchangedCards DEF CardOnTable, Dispatching
<1>6. CardFrom' = CardFrom /\ CardFrom # s /\ CardFrom \in Site \cup {NoSite}
  BY <1>1, <1>2, <1>4, Seats DEF CardFrom, System, Dispatching
<1>7. WinStep
  <2>1. ScoredRuleWon' /\ WufuWinsByFive'
    BY <1>2, <1>3, <1>4 DEF ScoredRuleWon, WufuWinsByFive
  <2>2. /\ turns' \in 0..TurnCap /\ paycard' \in Card \cup {NoCard}
        /\ "None" \in Rule
    BY <1>4, Zenon DEF GInv, TypeOK, Rule
  <2> QED BY <1>2, <1>3, <1>4, <1>6, <2>1, <2>2 DEF WinStep
<1> QED BY <1>1, <1>5, <1>7, WinKeeps DEF Dispatching

-----------------------------------------------------------------------------
(* The offers                                                              *)

\* Nobody takes the card
LEMMA PassTurnKeeps ==
    ASSUME GInv, ScoreInv', Dispatching, SameStep, PassTurn, curPayCardRule' \in Rule,
           UNCHANGED <<deck, payIndex, paycard, playWufu, wufuSite, laid, turns, outcome,
                       scoreVars>>
    PROVE  GInv'
<1>1. /\ curPaysite' \in Site /\ lastPayCardRule' = "None" /\ pc' = "turn"
      /\ possibles' = {} /\ asked' = {}
  BY Seats DEF PassTurn, Dispatching
<1>2. CardInv' /\ (NeverAll => NeverAll') /\ players' \in [Site -> CardMgr]
  BY <1>1, SameStepCards DEF CardOnTable, SameStep
<1>3. TypeOK'
  <2>1. "None" \in Rule
    BY DEF Rule
  <2> QED BY <1>1, <1>2, <2>1, Zenon DEF TypeOK, GInv, ScoreInv
<1>4. Control'
  BY <1>1, Zenon DEF Control, Playing, Ready, Opening, Won, Before, CardOnTable, GInv, Dispatching,
              scoreVars
<1>5. BalanceInv'
  <2>1. \A s \in Site : \A due : Balanced(players'[s], due) = Balanced(players[s], due)
    BY SameHandOf DEF SameStep
  <2>2. \A s \in Site : Balanced(players[s], 0)
    BY DEF GInv, BalanceInv, Dispatching
  <2>3. \A s \in Site : Due(s)' = 0
    BY <1>1 DEF Due, System
  <2> QED BY <1>1, <2>1, <2>2, <2>3 DEF BalanceInv, Before, CardOnTable
<1>6. OfferInv' /\ ScoredRuleWon' /\ WufuInv'
  BY <1>1 DEF OfferInv, ScoredRuleWon, WufuInv, WufuWinsByFive
<1>7. NeverEatDiscarded'
  <2>1. NeverAll
    BY NeverEatIs DEF GInv, Dispatching, CardOnTable
  <2>2. NeverAll'
    BY <1>2, <2>1
  <2> QED BY <2>2 DEF NeverEatDiscarded, NeverAll, NeverAte
<1> QED BY <1>2, <1>3, <1>4, <1>5, <1>6, <1>7 DEF GInv, CardInv

\* One entry for each seat and rule
LEMMA RuleCardsUnique ==
    ASSUME NEW d \in RuleCards, NEW e \in RuleCards, d.site = e.site, d.rule = e.rule
    PROVE  d = e
<1> DEFINE made(s) == IF s = curPaysite THEN dispatchMyCard(players[s], paycard)
                      ELSE dispatchOtherCard(players[s], paycard, System)
           entry(s, r) == [site |-> s, rule |-> r, cards |-> made(s)[r], play |-> FALSE]
<1>1. ASSUME NEW x \in RuleCards
      PROVE  x = entry(x.site, x.rule)
  <2>1. x \in UNION {{[site |-> s, rule |-> r, cards |-> made(s)[r], play |-> FALSE] :
                         r \in Melds} : s \in {t \in Site : System \/ t # curPaysite}}
    BY Zenon DEF RuleCards
  <2>2. PICK s \in {t \in Site : System \/ t # curPaysite} :
           x \in {[site |-> s, rule |-> r, cards |-> made(s)[r], play |-> FALSE] : r \in Melds}
    BY <2>1, Zenon
  <2>3. PICK r \in Melds : x = [site |-> s, rule |-> r, cards |-> made(s)[r], play |-> FALSE]
    BY <2>2, Zenon
  <2> HIDE DEF made
  <2> QED BY <2>3
<1> HIDE DEF entry
<1>2. d = entry(d.site, d.rule) /\ e = entry(e.site, e.rule)
  BY <1>1
<1> QED BY <1>2

\* The rule that the tests of HuByRule leave is a rule
LEMMA ProbedRulesType ==
    ASSUME Facts, Dispatching, curPayCardRule \in Rule
    PROVE  ProbedRules \subseteq Rule
<1>1. ASSUME NEW x \in Payable(RuleCards)
      PROVE  x.rule \in Rule
  <2>1. Candidate(x)
    BY PayableCandidate DEF Dispatching
  <2> QED BY <2>1, RuleKinds DEF Candidate
<1> QED BY <1>1 DEF ProbedRules

\* What an offer has but for its place in the list: once no group is forced,
\* only Peng and Chi are left, and payCards will accept each of their groups
Offered(e) ==
    /\ e.site \in Site /\ e.rule \in {"Peng", "Chi"} /\ e.cards # {}
    /\ ~ System => e.site # curPaysite
    /\ \A g \in e.cards : /\ g \in GroupsWith(paycard)
                          /\ CanPay(players[e.site], e.rule, Own(g), paycard)
    /\ e.rule = "Chi" => /\ ~ players[e.site].wufu
                         /\ \A c \in UNION e.cards : FaceOf(c) \notin players[e.site].chou["Chi"]

LEMMA OffersReady ==
    ASSUME Facts, Dispatching, NoForce1, \A d \in RuleCards : d.rule \notin ForceRule2,
           NEW e \in Offers
    PROVE  Offered(e)
<1> DEFINE m == players[e.site]
<1>1. e \in RuleCards /\ (e.rule = "Chi" => canChiWithPay(m, e.cards, e.site, curPaysite))
  BY DEF Offers
<1>2. Made(e)
  BY <1>1, RuleCardsMade DEF Dispatching
<1>3. e.rule \notin ForceRule1 \cup ForceRule2 /\ e.rule \in MyRules \cup OtherRules
  BY <1>1, <1>2 DEF NoForce1, Made
<1>4. e.rule \in {"Peng", "Chi"}
  BY <1>3 DEF ForceRule1, ForceRule2, MyRules, OtherRules
<1>5. /\ m \in CardMgr /\ m.hand \in SUBSET Card /\ paycard \in Card /\ paycard \notin m.hand
  BY <1>2, Zenon DEF Made, Dispatching, CardMgr, Owned
<1>6. ASSUME NEW g \in e.cards
      PROVE  CanPay(m, e.rule, Own(g), paycard)
  <2>1. CASE e.rule = "Peng"
    <3>1. g \in Peng(m.hand, paycard)
      BY <1>2, <2>1 DEF Made
    <3>2. /\ g \ {paycard} \subseteq SameFace(m.hand, paycard)
          /\ Cardinality(g \ {paycard}) = 2
          /\ OneFace((g \ {paycard}) \cup {paycard})
      BY <1>5, <3>1, PengPayable, Zenon
    <3> QED BY <2>1, <3>2 DEF CanPay, Own, SameFace, FromShow
  <2>2. CASE e.rule = "Chi"
    <3>1. g \in Chi(m.hand, paycard)
      BY <1>2, <2>2 DEF Made
    <3>2. g \ {paycard} \subseteq m.hand /\ Cardinality(g \ {paycard}) >= 2
      BY <1>5, <3>1, ChiPayable, Zenon
    <3> QED BY <2>2, <3>2 DEF CanPay, Own, FromShow
  <2> QED BY <1>4, <2>1, <2>2, Zenon
<1>7. e.rule = "Chi" => \A c \in UNION e.cards : FaceOf(c) \notin m.chou["Chi"]
  BY <1>1 DEF canChiWithPay
<1> QED BY <1>2, <1>4, <1>6, <1>7 DEF Offered, Made

\* The list of the offers, with their places
Listed(e, f) == [site |-> e.site, rule |-> e.rule, cards |-> e.cards, play |-> FALSE,
                 rank |-> f[e]]

LEMMA ListedOffers ==
    ASSUME Dispatching, \A e \in Offers : Offered(e), NEW f \in Sortings(Offers),
           possibles' = {Listed(e, f) : e \in Offers},
           asked' = {<<e.site, e.rule>> : e \in Offers},
           UNCHANGED <<players, paycard, curPaysite, lastPayCardRule>>
    PROVE  /\ possibles' \in SUBSET Entry /\ asked' \in SUBSET (Site \X Rule)
           /\ \A p \in possibles' : OfferKept(p)'
           /\ \A p, q \in possibles' :
                 /\ RuleLevel(p.rule) > RuleLevel(q.rule) => p.rank < q.rank
                 /\ p.site = q.site /\ p.rule = q.rule => p = q
<1>1. "Peng" \in Melds /\ "Chi" \in Melds /\ Melds \subseteq Rule
  BY DEF Melds, Rule
<1>2. ASSUME NEW e \in Offers
      PROVE  /\ e.site \in Site /\ e.rule \in Melds /\ e.cards \in SUBSET SUBSET Card
  BY <1>1 DEF Offered, GroupsWith
<1>3. \A e \in Offers : f[e] \in Nat
  <2>1. f \in [Offers -> 1..Cardinality(Offers)]
    BY Zenon DEF Sortings
  <2>2. \A e \in Offers : f[e] \in 1..Cardinality(Offers)
    BY <2>1, Zenon
  <2>3. \A n : \A i \in 1..n : i \in Nat
    OBVIOUS
  <2> QED BY <2>2, <2>3, Zenon
<1>4. \A e \in Offers : Listed(e, f) \in Entry
  BY <1>2, <1>3, Zenon DEF Listed, Entry
<1>5. asked' \in SUBSET (Site \X Rule)
  <2>1. \A e \in Offers : <<e.site, e.rule>> \in Site \X Rule
    BY <1>1, <1>2
  <2> QED BY <2>1, Zenon
<1>6. ASSUME NEW e \in Offers
      PROVE  OfferKept(Listed(e, f))'
  <2>1. Offered(e) /\ <<e.site, e.rule>> \in asked'
    OBVIOUS
  <2> DEFINE p == Listed(e, f)
  <2>2. p.site = e.site /\ p.rule = e.rule /\ p.cards = e.cards
    BY DEF Listed
  <2>3. System' = System /\ \A g : Own(g)' = Own(g)
    BY Zenon DEF System, Own
  <2>4. e.rule \in {"Peng", "Chi"} /\ (~ System => e.site # curPaysite) /\ e.cards # {}
    BY <2>1, Zenon DEF Offered
  <2>5. \A g \in e.cards : /\ g \in GroupsWith(paycard)'
                           /\ CanPay(players'[e.site], e.rule, Own(g)', paycard')
    BY <2>1, <2>3, Zenon DEF Offered, GroupsWith
  <2>6. e.rule = "Chi" => /\ ~ players'[e.site].wufu
                          /\ \A c \in UNION e.cards : FaceOf(c) \notin players'[e.site].chou["Chi"]
    BY <2>1, Zenon DEF Offered
  <2> HIDE DEF p
  <2>7. OfferKept(p)'
    BY <2>1, <2>2, <2>3, <2>4, <2>5, <2>6, Zenon DEF OfferKept
  <2> QED BY <2>7 DEF p
<1>7. ASSUME NEW d \in Offers, NEW e \in Offers
      PROVE  /\ RuleLevel(d.rule) > RuleLevel(e.rule) => f[d] < f[e]
             /\ d.site = e.site /\ d.rule = e.rule => d = e
  BY RuleCardsUnique, Zenon DEF Sortings, Offers
<1>8. ASSUME NEW p \in possibles', NEW q \in possibles'
      PROVE  /\ RuleLevel(p.rule) > RuleLevel(q.rule) => p.rank < q.rank
             /\ p.site = q.site /\ p.rule = q.rule => p = q
  <2>1. PICK d \in Offers : p = Listed(d, f)
    OBVIOUS
  <2>2. PICK e \in Offers : q = Listed(e, f)
    OBVIOUS
  <2> QED BY <1>7, <2>1, <2>2, Zenon DEF Listed
<1> QED BY <1>4, <1>5, <1>6, <1>8, ZenonT(30)

\* What the table asks
LEMMA OfferKeeps ==
    ASSUME Facts, GInv, ScoreInv', Offer
    PROVE  GInv'
<1>1. Dispatching /\ pc = "dispatch"
  BY AtDispatch, Zenon DEF CardOnTable, Offer
<1>2. curPayCardRule' \in Rule
  BY <1>1, ProbedRulesType, Zenon DEF Offer, GInv, TypeOK
<1>3. UNCHANGED <<deck, payIndex, players, paycard, playWufu, wufuSite, laid, turns,
                  outcome, scoreVars>>
  BY DEF Offer
<1>4. CASE Offers = {} /\ PassTurn
  BY <1>1, <1>2, <1>3, <1>4, UnchangedPlayers, PassTurnKeeps
<1>5. CASE /\ asked' = {<<e.site, e.rule>> : e \in Offers}
           /\ \E f \in Sortings(Offers) : possibles' = {Listed(e, f) : e \in Offers}
           /\ pc' = "offer"
           /\ UNCHANGED <<curPaysite, lastPayCardRule>>
  <2>1. \A e \in Offers : Offered(e)
    BY <1>1, OffersReady, Zenon DEF Offer, NoHu
  <2>2. /\ possibles' \in SUBSET Entry /\ asked' \in SUBSET (Site \X Rule)
        /\ \A p \in possibles' : OfferKept(p)'
        /\ \A p, q \in possibles' :
              /\ RuleLevel(p.rule) > RuleLevel(q.rule) => p.rank < q.rank
              /\ p.site = q.site /\ p.rule = q.rule => p = q
    BY <1>1, <1>3, <1>5, <2>1, ListedOffers, Zenon
  <2>3. OfferInv'
    BY <2>2 DEF OfferInv
  <2>4. CardInv' /\ (NeverAll => NeverAll')
    BY <1>1, <1>3, <1>5, UnchangedCards, Zenon DEF CardOnTable
  <2>5. TypeOK'
    BY <1>2, <1>3, <1>5, <2>2, Zenon DEF TypeOK, GInv, ScoreInv
  <2>6. Control'
    BY <1>1, <1>3, <1>5 DEF Control, Playing, Ready, Opening, Won, Before, CardOnTable, GInv,
                            Dispatching, scoreVars
  <2>7. BalanceInv'
    BY <1>1, <1>3, <1>5, Zenon DEF BalanceInv, Before, CardOnTable, GInv
  <2>8. ScoredRuleWon' /\ WufuInv' /\ NeverEatDiscarded'
    BY <1>1, <1>3, <1>5, Zenon DEF ScoredRuleWon, WufuInv, WufuWinsByFive, NeverEatDiscarded, GInv
  <2> QED BY <2>3, <2>4, <2>5, <2>6, <2>7, <2>8 DEF GInv, CardInv
<1> QED BY <1>4, <1>5, Zenon DEF Offer, Listed

\* One answer
LEMMA AnsweredKeeps ==
    ASSUME Facts, GInv, ScoreInv', TakeOffer \/ PassOffer
    PROVE  GInv'
<1>1. pc = "offer" /\ \E rest : RestOf(rest) /\ Answered(rest)
  BY OffersLeft
<1>2. PICK rest : RestOf(rest) /\ Answered(rest)
  BY <1>1
<1>3. Dispatching
  BY <1>1, AtDispatch DEF CardOnTable
<1>4. UNCHANGED <<deck, payIndex, paycard, laid, turns, outcome>>
  BY <1>2 DEF Answered
<1>5. \/ /\ players' = Choupaid(rest) /\ PassTurn
         /\ UNCHANGED <<curPayCardRule, playWufu, wufuSite, scoreVars>>
      \/ \E e \in rest : LayMeld(rest, e)
      \/ /\ possibles' = rest
         /\ UNCHANGED <<players, curPaysite, lastPayCardRule, curPayCardRule,
                        asked, playWufu, wufuSite, pc, scoreVars>>
  BY <1>2 DEF Answered
<1>6. CASE /\ players' = Choupaid(rest) /\ PassTurn
           /\ UNCHANGED <<curPayCardRule, playWufu, wufuSite, scoreVars>>
  <2>1. SameStep
    BY <1>3, <1>6, ChoupaidSame DEF SameTable, SameStep
  <2>2. curPayCardRule' \in Rule
    BY <1>6 DEF GInv, TypeOK
  <2> QED BY <1>3, <1>4, <1>6, <2>1, <2>2, PassTurnKeeps
<1>7. ASSUME NEW e \in rest, LayMeld(rest, e)
      PROVE  GInv'
  <2> DEFINE g == CHOOSE h \in e.cards : TRUE
  <2>1. OfferKept(e) /\ e.site \in Site
    BY <1>2 DEF RestOf, Entry
  <2>2. g \in e.cards /\ e.rule \in FromHand
    BY <2>1, TakenGroup, Zenon
  <2>3. MeldStep(e.site, e.rule, Own(g)) /\ curPayCardRule' = e.rule
    BY <1>3, <1>7, <2>1, LayMeldEffect
  <2>4. /\ AskWufu({e.site}, players', "turn")
        /\ curPaysite' = e.site /\ lastPayCardRule' = e.rule
        /\ possibles' = {} /\ asked' = {}
        /\ UNCHANGED <<results, zhuang, started, phase>>
    BY <1>7 DEF LayMeld
  <2> HIDE DEF g
  <2>5. e.rule \in {"Peng", "Chi"} /\ e.rule \in Rule /\ e.rule # "None"
    BY <2>1 DEF OfferKept, Rule
  <2>6. TurnsTo(e.site, e.rule)
    BY <2>1, <2>4, <2>5 DEF TurnsTo, canPayCardAfterRule, FourRules
  <2>7. /\ playWufu' \in BOOLEAN
        /\ \/ pc' = "turn" /\ wufuSite' = NoSite
           \/ pc' = "wufu" /\ wufuSite' \in Site
    <3>1. curPaysite \in Site /\ {e.site} \in SUBSET Site /\ playWufu \in BOOLEAN
      BY <1>3, <2>1 DEF Dispatching, GInv, TypeOK
    <3> QED BY <2>4, <3>1, AskWufuEffect
  <2>8. e.rule = "Chi" => \A c \in Own(g) : FaceOf(c) \notin players[e.site].chou["Chi"]
    BY <2>1, <2>2, Zenon DEF OfferKept, Own
  <2> QED BY <1>3, <1>4, <2>2, <2>3, <2>4, <2>5, <2>6, <2>7, <2>8, TableMeldKeeps, Zenon
<1>8. CASE /\ possibles' = rest
           /\ UNCHANGED <<players, curPaysite, lastPayCardRule, curPayCardRule,
                          asked, playWufu, wufuSite, pc, scoreVars>>
  <2>1. /\ rest \in SUBSET Entry /\ \A e \in rest : OfferKept(e)
        /\ \A d, e \in rest : /\ RuleLevel(d.rule) > RuleLevel(e.rule) => d.rank < e.rank
                              /\ d.site = e.site /\ d.rule = e.rule => d = e
    BY <1>2 DEF RestOf
  <2>2. \A e \in rest : OfferKept(e)'
    BY <1>4, <1>8, <2>1, Zenon DEF OfferKept, System, Own
  <2>3. OfferInv'
    BY <1>8, <2>1, <2>2 DEF OfferInv
  <2>4. CardInv' /\ (NeverAll => NeverAll')
    BY <1>3, <1>4, <1>8, UnchangedCards DEF CardOnTable
  <2>5. TypeOK'
    BY <1>4, <1>8, <2>1 DEF TypeOK, GInv, ScoreInv
  <2>6. Control'
    BY <1>1, <1>4, <1>8, Zenon DEF Control, Playing, Ready, Opening, Won, Before, CardOnTable, GInv,
                            scoreVars
  <2>7. BalanceInv'
    BY <1>1, <1>4, <1>8 DEF BalanceInv, Before, CardOnTable, GInv
  <2>8. ScoredRuleWon' /\ WufuInv' /\ NeverEatDiscarded'
    BY <1>1, <1>4, <1>8, Zenon DEF ScoredRuleWon, WufuInv, WufuWinsByFive, NeverEatDiscarded, GInv
  <2> QED BY <2>3, <2>4, <2>5, <2>6, <2>7, <2>8 DEF GInv, CardInv
<1> QED BY <1>5, <1>6, <1>7, <1>8

-----------------------------------------------------------------------------
(* The end of a game, and the theorems                                     *)

LEMMA SettleKeeps ==
    ASSUME GInv, ScoreInv', Settle
    PROVE  GInv'
<1>1. /\ pc = "settle" /\ pc' \in {"over", "idle"} /\ possibles' = {}
      /\ UNCHANGED <<deck, payIndex, players, lastPayCardRule, curPayCardRule, paycard, asked,
                     playWufu, wufuSite, laid, outcome>>
      /\ \/ pc' = "over" /\ UNCHANGED <<curPaysite, turns>>
         \/ pc' = "idle" /\ curPaysite' = 0 /\ turns' = 0
  BY DEF Settle
<1>2. CardInv' /\ (NeverAll => NeverAll')
  BY <1>1, UnchangedCards DEF CardOnTable
<1>3. TypeOK'
  BY <1>1, SMTT(20) DEF TypeOK, GInv, ScoreInv, TurnCap
<1>4. Control'
  BY <1>1 DEF Control, Playing, Ready, Opening, Won, Before, CardOnTable
<1>5. OfferInv' /\ BalanceInv' /\ NeverEatDiscarded' /\ ScoredRuleWon' /\ WufuInv'
  BY <1>1, Zenon DEF OfferInv, BalanceInv, Before, CardOnTable, NeverEatDiscarded, ScoredRuleWon,
              WufuInv, WufuWinsByFive
<1> QED BY <1>2, <1>3, <1>4, <1>5 DEF GInv, CardInv

LEMMA StutterKeeps ==
    ASSUME GInv, ScoreInv', UNCHANGED vars
    PROVE  GInv'
<1>1. UNCHANGED <<deck, payIndex, players, curPaysite, lastPayCardRule, curPayCardRule,
                  paycard, possibles, asked, playWufu, wufuSite, laid, turns, outcome, pc,
                  score, totalScore, rec, results, zhuang, started, phase>>
  BY DEF vars, runVars, scoreVars
<1>2. CardInv' /\ (NeverAll => NeverAll')
  BY <1>1, UnchangedCards DEF CardOnTable
<1>3. TypeOK'
  BY <1>1 DEF TypeOK, GInv, ScoreInv
<1>4. Control'
  BY <1>1 DEF Control, Playing, Ready, Opening, Won, Before, CardOnTable, CardFrom, System, GInv
<1>5. OfferInv'
  BY <1>1, Zenon DEF OfferInv, OfferKept, System, Own, GInv
<1>6. BalanceInv'
  BY <1>1 DEF BalanceInv, Before, CardOnTable, Due, System, GInv
<1>7. NeverEatDiscarded' /\ ScoredRuleWon' /\ WufuInv'
  BY <1>1, Zenon DEF NeverEatDiscarded, ScoredRuleWon, WufuInv, WufuWinsByFive, GInv
<1> QED BY <1>2, <1>3, <1>4, <1>5, <1>6, <1>7 DEF GInv, CardInv

\* Every step of the table keeps the invariant
LEMMA NextGInv ==
    ASSUME Facts, HandSent
    PROVE  GInv /\ [Next]_vars => GInv'
<1> SUFFICES ASSUME GInv, [Next]_vars PROVE GInv'
  OBVIOUS
<1>0. ScoreInv'
  BY ScoreKept
<1>1. CASE UNCHANGED vars
  BY <1>0, <1>1, StutterKeeps
<1>2. CASE startPlay
  BY <1>0, <1>2, startPlayKeeps
<1>3. ASSUME NEW p \in Site, StartGame(p)
      PROVE  GInv'
  BY <1>0, <1>3, StartGameKeeps
<1>4. CASE BestHu
  BY <1>0, <1>4, BestHuKeeps
<1>5. CASE NoBestHu
  BY <1>0, <1>5, NoBestHuKeeps
<1>6. CASE LayDealt
  BY <1>0, <1>6, LayDealtKeeps
<1>7. CASE AskAllWufu
  BY <1>0, <1>7, AskAllWufuKeeps
<1>8. CASE selectWufuBaojing
  BY <1>0, <1>8, WufuDoneKeeps DEF selectWufuBaojing
<1>9. CASE WufuTimeout
  <2>1. playWufu \in BOOLEAN /\ WufuDone(playWufu)
    BY <1>9 DEF WufuTimeout, GInv, TypeOK
  <2> QED BY <1>0, <2>1, WufuDoneKeeps
<1>10. CASE tryHupai
  BY <1>0, <1>10, tryHupaiKeeps
<1>11. CASE systemDispatchCard
  BY <1>0, <1>11, systemDispatchCardKeeps
<1>12. CASE Hongzhuang
  BY <1>0, <1>12, HongzhuangKeeps
<1>13. ASSUME NEW c \in Card, playerPayCards(c)
       PROVE  GInv'
  BY <1>0, <1>13, playerPayCardsKeeps
<1>14. CASE Force1
  BY <1>0, <1>14, Force1Keeps
<1>15. CASE HuByRule
  BY <1>0, <1>15, HuByRuleKeeps
<1>16. CASE HuByCard
  BY <1>0, <1>16, HuByCardKeeps
<1>17. CASE Force2
  BY <1>0, <1>17, Force2Keeps
<1>18. CASE Offer
  BY <1>0, <1>18, OfferKeeps
<1>19. CASE TakeOffer \/ PassOffer
  BY <1>0, <1>19, AnsweredKeeps
<1>20. CASE Settle
  BY <1>0, <1>20, SettleKeeps
<1>21. CASE Over
  BY <1>0, <1>21, StutterKeeps DEF Over
<1> QED BY <1>1, <1>2, <1>3, <1>4, <1>5, <1>6, <1>7, <1>8, <1>9, <1>10, <1>11, <1>12, <1>13,
           <1>14, <1>15, <1>16, <1>17, <1>18, <1>19, <1>20, <1>21 DEF Next
=============================================================================
