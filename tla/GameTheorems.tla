---------------------------- MODULE GameTheorems ----------------------------
(***************************************************************************)
(* What the table promises, for any values, decks and win test, as long as *)
(* every client discards cards of its player's hand (HandSent), and what   *)
(* the scores of a room promise for any number of games.                   *)
(***************************************************************************)
EXTENDS GameSteps, FiniteSetTheorems, SequenceTheorems, WellFoundedInduction

\* The facts about finite sets, sequences and naturals that the lemmas take as
\* their hypothesis are theorems of the library.
LEMMA FactsHold == Facts
<1>1. FS_Empty /\ FS_Nat /\ FS_One
  BY FS_EmptySet, FS_CardinalityType, FS_Singleton DEF FS_Empty, FS_Nat, FS_One
<1>2. FS_Add /\ FS_Remove
  BY FS_AddElement, FS_RemoveElement DEF FS_Add, FS_Remove
<1>3. FS_Part
  BY FS_Subset DEF FS_Part
<1>4. FS_Range
  BY FS_Interval DEF FS_Range
<1>5. FS_Pairs /\ FS_Parts
  BY FS_Product, FS_SUBSET DEF FS_Pairs, FS_Parts
<1>6. FS_Onto
  <2> SUFFICES ASSUME NEW S, NEW T, NEW f, IsFiniteSet(S), f \in [S -> T],
                      \A y \in T : \E x \in S : f[x] = y
               PROVE  /\ IsFiniteSet(T) /\ Cardinality(T) <= Cardinality(S)
                      /\ Cardinality(T) = Cardinality(S) <=> \A x, y \in S : f[x] = f[y] => x = y
    BY DEF FS_Onto
  <2>1. f \in Surjection(S, T)
    BY DEF Surjection
  <2>2. f \in Injection(S, T) <=> \A x, y \in S : f[x] = f[y] => x = y
    BY DEF Injection, IsInjective
  <2> QED BY <2>1, <2>2, FS_Surjection
<1>7. Seq_Len /\ Seq_Equal
  BY LenProperties, SeqEqual DEF Seq_Len, Seq_Equal
<1>8. Seq_Append
  BY AppendProperties DEF Seq_Append
<1>9. Seq_Sub /\ Seq_Empty
  <2>1. Seq_Sub
    BY SubSeqProperties DEF Seq_Sub
  <2>2. Seq_Empty
    BY ConcatEmptySeq DEF Seq_Empty
  <2> QED BY <2>1, <2>2
<1>10. Nat_Least
  <2> SUFFICES ASSUME NEW S \in SUBSET Nat, S # {} PROVE \E n \in S : \A m \in S : n <= m
    BY DEF Nat_Least
  <2>1. PICK n \in S : \A m \in S : ~(<<m, n>> \in OpToRel(<, Nat))
    BY NatLessThanWellFounded, WFMin
  <2>2. \A m \in S : ~(m < n)
    BY <2>1 DEF OpToRel
  <2> QED BY <2>2
<1> QED BY <1>1, <1>2, <1>3, <1>4, <1>5, <1>6, <1>7, <1>8, <1>9, <1>10 DEF Facts

\* The scores of any room keep their invariant, whatever groups are laid and
\* whoever wins.
LEMMA ScoreInvariant == ScoreSpec => []ScoreInv
<1>1. ScoreInv /\ [ScoreNext]_scoreVars => ScoreInv'
  BY FactsHold, NextScoreInv
<1> QED BY <1>1, InitScoreInv, PTL DEF ScoreSpec

\* payscore, payscoreHupai, addResult and createZhuangSite keep the scores
\* integers, the records records and the banker a player.
THEOREM ScoresTyped == ScoreSpec => []ScoreTypeOK
<1>1. ScoreInv => ScoreTypeOK
  BY DEF ScoreInv
<1> QED BY <1>1, ScoreInvariant, PTL

\* What players win is what players lose, for every deck, every number of
\* games and every sequence of groups: payScoreWithOne, payScoreWithEvery and
\* payscoreHupai only move points between the players.
THEOREM ScoresSumToZero == ScoreSpec => []ZeroSum
<1>1. ScoreInv => ZeroSum
  BY DEF ScoreInv
<1> QED BY <1>1, ScoreInvariant, PTL

\* The stake is doubled for the banker's streak (getWinBuff) only when one
\* player was banker of, and won, the last two games.
THEOREM StreaksAreOnePlayers == ScoreSpec => []StreakIsOnePlayers
<1>1. ScoreInv /\ BankerInv => StreakIsOnePlayers
  <2> SUFFICES ASSUME ScoreInv, BankerInv, Streak(results) > 1
               PROVE  /\ results[Len(results)].winner = results[Len(results) - 1].winner
                      /\ results[Len(results)].zhuang = results[Len(results) - 1].zhuang
    BY DEF StreakIsOnePlayers
  <2>1. results \in Seq(Result)
    BY DEF ScoreInv, ScoreTypeOK
  <2>2. Len(results) > 1 /\ isWin(results[Len(results)]) /\ isWin(results[Len(results) - 1])
    BY <2>1, FactsHold, StreakEndsInWins
  <2>3. Len(results) \in DOMAIN results \ {1}
    BY <2>1, <2>2
  <2>4. results[Len(results)].zhuang = results[Len(results) - 1].zhuang
    BY <2>2, <2>3 DEF BankerInv, BankerStays
  <2> QED BY <2>2, <2>4 DEF isWin
<1> QED BY <1>1, InitBankerInv, NextBankerInv, ScoreInvariant, PTL DEF ScoreSpec

\* The inductive invariant of the table holds in every state of run.
LEMMA GInvHolds == HandSent /\ Spec => [](HandSent /\ GInv)
<1>1. Init => GInv
  BY FactsHold, InitGInv
<1>2. HandSent /\ GInv /\ [Next]_vars => HandSent' /\ GInv'
  BY FactsHold, NextGInv DEF HandSent
<1> QED BY <1>1, <1>2, PTL DEF Spec

\* No card is in two places, a card makes at most one forced group, and every
\* player has the number of cards that payCards and canPayCardAfterRule leave
\* them: for all values, all decks and any win test, as long as the clients
\* discard cards of the players' hands, which run does not check.
THEOREM CardsAreKept == HandSent /\ Spec => []CardsKept
<1>1. GInv => CardsKept
  <2> SUFFICES ASSUME GInv PROVE CardsKept
    OBVIOUS
  <2>1. TypeOK /\ OneOwner
    BY DEF GInv
  <2>2. HandBalance
    BY DEF GInv, BalanceInv, HandBalance
  <2> QED BY <2>1, <2>2, FactsHold, OneForced DEF CardsKept
<1> QED BY <1>1, GInvHolds, PTL

\* Every test for a win (payCards, then popHistory) leaves the cards as they
\* were.
THEOREM TestsAreUndone == HandSent /\ Spec => []ProbesUndone
<1>1. GInv => ProbesUndone
  BY FactsHold, ProbesAlwaysUndone
<1> QED BY <1>1, GInvHolds, PTL

\* No player eats a face that they discarded, but to win (canChiWithPay reads
\* choupaid, which playerPayCards writes).
THEOREM DiscardedStayUneaten == HandSent /\ Spec => []NeverEatDiscarded
<1>1. GInv => NeverEatDiscarded
  BY DEF GInv
<1> QED BY <1>1, GInvHolds, PTL

\* A win is scored by the rule of the group that won (curPayCardRule).
THEOREM WinsScoredByTheirRule == HandSent /\ Spec => []ScoredRuleWon
<1>1. GInv => ScoredRuleWon
  BY DEF GInv
<1> QED BY <1>1, GInvHolds, PTL

\* The table implements the scores: what run does to them is a step of
\* gameScoreManager's specification.
THEOREM TableImplementsScores == HandSent /\ Spec => ScoreSpec
<1>1. Init => ScoreInit
  BY DEF Init
<1>2. GInv /\ [Next]_vars => [ScoreNext]_scoreVars
  BY FactsHold, NextScored
<1> QED BY <1>1, <1>2, GInvHolds, PTL DEF Spec, ScoreSpec

\* So the scores of the table's games sum to zero, too.
THEOREM TableSumsToZero == HandSent /\ Spec => []ZeroSum
<1> QED BY TableImplementsScores, ScoresSumToZero, PTL

\* The best offer goes first: a Chi is laid only when nobody's Peng is open.
THEOREM PengGoesFirst == HandSent /\ Spec => PengBeforeChi
<1>1. GInv /\ [Next]_vars =>
        [pc = "offer" /\ pc' # "offer" /\ lastPayCardRule' = "Chi" =>
           \A e \in possibles : e.rule = "Peng" =>
              FaceOf(paycard) \in players'[e.site].chou["Peng"]]_vars
  BY ChiIsBest
<1> QED BY <1>1, GInvHolds, PTL DEF Spec, PengBeforeChi

\* A wufu alarm binds its player: they win with five triples or not at all, and
\* eat nothing any more (checkWufuBaojing, neverWufuBaojing).
THEOREM AlarmBinds == HandSent /\ Spec => WufuBinds
<1>1. GInv => WufuWinsByFive
  BY DEF GInv, WufuInv
<1>2. HandSent /\ GInv /\ [Next]_vars =>
        [\A s \in Site : players[s].wufu /\ phase' = "playing" /\ pc # "idle" =>
           players'[s].show["Chi"] = players[s].show["Chi"]]_vars
  BY FactsHold, NextUneaten DEF UneatenStep
<1>3. HandSent /\ Spec => []WufuWinsByFive
  BY <1>1, GInvHolds, PTL
<1>4. HandSent /\ Spec => WufuNeverEats
  BY <1>2, GInvHolds, PTL DEF Spec, WufuNeverEats
<1> QED BY <1>3, <1>4 DEF WufuBinds
=============================================================================
