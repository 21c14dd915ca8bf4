----------------------------- MODULE CardProofs -----------------------------
(***************************************************************************)
(* What the operations of gameScoreManager and gameResultManager do to the *)
(* scores and the banker of a room, and those of playerCardManager and     *)
(* ruleHelp to the cards of one player, for any set of values and any      *)
(* cards.                                                                  *)
(***************************************************************************)
EXTENDS PlayerCards, ScoreManager, Facts, TLAPS

-----------------------------------------------------------------------------
(* The scores.                                                             *)

SiteOrNone == Site \cup {NoSite}
Scores == [Site -> Int]

-----------------------------------------------------------------------------
(* Payments                                                                *)

\* payScoreWithOne moves points from one player to another.
LEMMA PaidByOneSum ==
    ASSUME NEW s \in Scores, NEW y \in Site, NEW p \in Site \ {y}, NEW a \in Int
    PROVE  /\ PaidByOne(s, y, p, a) \in Scores
           /\ Sum(PaidByOne(s, y, p, a)) = Sum(s)
BY DEF PaidByOne, Sum, Scores, Site, MAX_PLAYER_COUNT

\* payScoreWithEvery moves points from the others to one player.
LEMMA PaidByEverySum ==
    ASSUME NEW s \in Scores, NEW y \in Site, NEW a \in Int
    PROVE  /\ PaidByEvery(s, y, a) \in Scores
           /\ Sum(PaidByEvery(s, y, a)) = Sum(s)
BY DEF PaidByEvery, Sum, Scores, Site, MAX_PLAYER_COUNT

\* payscore pays a bill that is not addressed to the player who lays the group.
LEMMA PaidSum ==
    ASSUME NEW s \in Scores, NEW y \in Site, NEW b \in Bill, b.site # y
    PROVE  /\ Paid(s, y, b) \in Scores
           /\ Sum(Paid(s, y, b)) = Sum(s)
<1>1. b.amount \in Int /\ b.ok \in BOOLEAN /\ b.site \in Site \cup {NoSite}
  BY DEF Bill
<1>2. CASE ~ b.ok
  BY <1>2 DEF Paid
<1>3. CASE b.ok /\ b.site # NoSite
  <2>1. b.site \in Site \ {y}
    BY <1>1, <1>3
  <2>2. Paid(s, y, b) = PaidByOne(s, y, b.site, b.amount)
    BY <1>3 DEF Paid
  <2> QED BY <2>1, <2>2, <1>1, PaidByOneSum
<1>4. CASE b.ok /\ b.site = NoSite
  <2>1. Paid(s, y, b) = PaidByEvery(s, y, b.amount)
    BY <1>4 DEF Paid
  <2> QED BY <2>1, <1>1, PaidByEverySum
<1> QED BY <1>1, <1>2, <1>3, <1>4

\* The payments at the end of a game move points from the losers to the winner.
LEMMA CollectedSum ==
    ASSUME NEW s \in Scores, NEW w \in Site, NEW owed \in Scores
    PROVE  /\ Collected(s, w, owed) \in Scores
           /\ Sum(Collected(s, w, owed)) = Sum(s)
BY DEF Collected, Sum, Scores, Site, MAX_PLAYER_COUNT, turnSite

-----------------------------------------------------------------------------
(* Bills                                                                   *)

\* A group is billed to everyone or to one other player, if the card came
\* from another player and so did the card of every Peng.
LEMMA BillOther ==
    ASSUME NEW h \in Records, NEW rule \in Rule, NEW face,
           NEW y \in Site, NEW s \in SiteOrNone \ {y},
           \A q \in h.peng : q[2] # y
    PROVE  /\ payRulecard(h, rule, face, s) \in Bill
           /\ payRulecard(h, rule, face, s).site # y
<1>1. NoSite # y /\ \A q \in h.peng : q[2] \in SiteOrNone
  BY DEF Records, SiteOrNone, NoSite, Site, MAX_PLAYER_COUNT
<1>2. ASSUME NEW n \in Nat
      PROVE  Everyone(n) \in Bill /\ Everyone(n).site # y
  BY <1>1 DEF Everyone, Bill
<1>3. ASSUME NEW p \in SiteOrNone \ {y}, NEW n \in Nat, NEW m \in Nat
      PROVE  FromPayer(p, n, m) \in Bill /\ FromPayer(p, n, m).site # y
  BY <1>1, <1>2 DEF FromPayer, FromOne, Bill, SiteOrNone
<1>4. NoBill \in Bill /\ NoBill.site # y
  BY <1>1 DEF NoBill, Bill
<1>5. CASE rule = "Peng"
  <2>1. PengBill(h.threes, s) \in Bill /\ PengBill(h.threes, s).site # y
    BY <1>3, <1>4 DEF PengBill
  <2> QED BY <2>1, <1>5 DEF payRulecard, ForceRule2
<1>6. CASE rule \in {"Wei", "Kan", "Wei_chou"}
  <2>1. WeiBill(h.threes) \in Bill /\ WeiBill(h.threes).site # y
    BY <1>2, <1>4 DEF WeiBill
  <2> QED BY <2>1, <1>6 DEF payRulecard, ForceRule2
<1>7. CASE rule \in ForceRule2
  <2>1. PaoBill(h, rule, face, s) \in Bill /\ PaoBill(h, rule, face, s).site # y
    <3>1. CASE \E p \in h.peng : p[1] = face
      <4> DEFINE q == CHOOSE p \in h.peng : p[1] = face
      <4>1. q \in h.peng
        BY <3>1
      <4>2. FromPayer(q[2], 12, 4) \in Bill /\ FromPayer(q[2], 12, 4).site # y
        BY <4>1, <1>1, <1>3
      <4> QED BY <4>2, <1>2, <1>3, <1>4 DEF PaoBill
    <3>2. CASE ~ \E p \in h.peng : p[1] = face
      BY <3>2, <1>2, <1>3, <1>4 DEF PaoBill
    <3> QED BY <3>1, <3>2
  <2> QED BY <2>1, <1>7 DEF payRulecard, ForceRule2
<1>8. CASE rule \in {"Ti", "Ti_zimo", "Ti_kan", "Ti_wei"}
  <2>1. TiBill(h, rule) \in Bill /\ TiBill(h, rule).site # y
    BY <1>2 DEF TiBill
  <2> QED BY <2>1, <1>8 DEF payRulecard, ForceRule2
<1>9. CASE rule \in {"Chi", "None"}
  BY <1>9, <1>2 DEF payRulecard, ForceRule2
<1> QED BY <1>5, <1>6, <1>7, <1>8, <1>9 DEF Rule, ForceRule2

\* A bill is a bill, whoever it is addressed to.
LEMMA BillType ==
    ASSUME NEW h \in Records, NEW rule \in Rule, NEW face, NEW s \in SiteOrNone
    PROVE  payRulecard(h, rule, face, s) \in Bill
<1>1. \A q \in h.peng : q[2] \in SiteOrNone
  BY DEF Records, SiteOrNone
<1>2. ASSUME NEW n \in Nat PROVE Everyone(n) \in Bill
  BY DEF Everyone, Bill
<1>3. ASSUME NEW p \in SiteOrNone, NEW n \in Nat, NEW m \in Nat
      PROVE  FromPayer(p, n, m) \in Bill
  BY <1>2 DEF FromPayer, FromOne, Bill, SiteOrNone
<1>4. NoBill \in Bill
  BY DEF NoBill, Bill
<1>5. PengBill(h.threes, s) \in Bill
  BY <1>3, <1>4 DEF PengBill
<1>6. WeiBill(h.threes) \in Bill
  BY <1>2, <1>4 DEF WeiBill
<1>7. PaoBill(h, rule, face, s) \in Bill
  <2>1. CASE \E p \in h.peng : p[1] = face
    <3>1. (CHOOSE p \in h.peng : p[1] = face) \in h.peng
      BY <2>1
    <3> QED BY <3>1, <1>1, <1>2, <1>3, <1>4 DEF PaoBill
  <2>2. CASE ~ \E p \in h.peng : p[1] = face
    BY <2>2, <1>2, <1>3, <1>4 DEF PaoBill
  <2> QED BY <2>1, <2>2
<1>8. TiBill(h, rule) \in Bill
  BY <1>2 DEF TiBill
<1> QED BY <1>2, <1>5, <1>6, <1>7, <1>8 DEF payRulecard, Rule, ForceRule2

\* payRulecard records the group.
LEMMA RecordedType ==
    ASSUME NEW h \in Records, NEW rule \in Rule, NEW face \in Face \cup {NoFace},
           NEW s \in SiteOrNone
    PROVE  Recorded(h, rule, face, s) \in Records
BY DEF Recorded, Records, SiteOrNone

-----------------------------------------------------------------------------
(* The end of a game                                                       *)

\* getLianzhuangCount counts.
LEMMA StreakType ==
    ASSUME Facts, NEW rs \in Seq(Result)
    PROVE  Streak(rs) \in Nat
<1> DEFINE S == {i \in DOMAIN rs : \A j \in i..Len(rs) : isWin(rs[j])}
<1>1. IsFiniteSet(1..Len(rs))
  BY DEF Facts, FS_Range
<1>2. IsFiniteSet(S)
  BY <1>1 DEF Facts, FS_Part
<1>3. Cardinality(S) \in Nat
  BY <1>2 DEF Facts, FS_Nat
<1> QED BY <1>3 DEF Streak

\* Every loser owes an integer.
LEMMA OwedType ==
    ASSUME NEW w \in Site, NEW one, NEW total \in Int, NEW unit \in Int
    PROVE  Owed(w, one, total, unit) \in Scores
BY DEF Owed, Scores

\* payscoreHupai has the losers pay integers.
LEMMA HupaiOwedType ==
    ASSUME Facts, NEW t, NEW b \in Bill, NEW w \in Site, NEW dp, NEW rs \in Seq(Result)
    PROVE  HupaiOwed(t, b, w, dp, rs) \in Scores
<1> DEFINE twice == IF Streak(rs) > 1 THEN 2 ELSE 1
           extra == IF Lianzhong /\ Streak(rs) > 2 THEN 4 * (Streak(rs) - 2) ELSE 0
           big == IF isWin(rs[Len(rs)]) THEN 80 ELSE 40
           base == IF t = "dihu" THEN 8 ELSE 4
           one == IF b.site = NoSite THEN dp ELSE b.site
           amount == IF b.site = NoSite THEN 3 * b.amount ELSE b.amount
           each(n) == Owed(w, dp, 3 * (n * twice + extra), n * twice + extra)
<1>1. twice \in Int /\ extra \in Int /\ big \in Int /\ base \in Int /\ amount \in Int
      /\ b.amount \in Int
  BY StreakType DEF Bill
<1> HIDE DEF twice, extra, big, base, one, amount
<1>2. (big * twice + extra) \in Int /\ ((amount + 3 * base) * twice + 3 * extra) \in Int
      /\ ((b.amount + base) * twice + extra) \in Int
  BY <1>1
<1>3. each(4) \in Scores /\ each(8) \in Scores
  <2>1. 4 * twice + extra \in Int /\ 8 * twice + extra \in Int
        /\ 3 * (4 * twice + extra) \in Int /\ 3 * (8 * twice + extra) \in Int
    BY <1>1
  <2> QED BY <2>1, OwedType
<1>4. /\ Owed(w, NoSite, 0, big) \in Scores
      /\ Owed(w, NoSite, 0, big * twice + extra) \in Scores
      /\ Owed(w, dp, 120, 40) \in Scores
      /\ Owed(w, NoSite, 0, 0) \in Scores
      /\ Owed(w, one, (amount + 3 * base) * twice + 3 * extra,
              (b.amount + base) * twice + extra) \in Scores
  BY <1>1, <1>2, OwedType
<1>5. HupaiOwed(t, b, w, dp, rs) =
        CASE t = "qidui" -> Owed(w, NoSite, 0, big)
          [] t = "shuanglong" -> Owed(w, NoSite, 0, big * twice + extra)
          [] t = "pinghu" -> each(4)
          [] t = "tianhu" -> each(8)
          [] t = "wufu" -> Owed(w, dp, 120, 40)
          [] OTHER -> IF ~ b.ok THEN Owed(w, NoSite, 0, 0)
                      ELSE Owed(w, one, (amount + 3 * base) * twice + 3 * extra,
                                (b.amount + base) * twice + extra)
  BY DEF HupaiOwed, twice, extra, big, base, one, amount
<1> HIDE DEF each
<1> QED BY <1>3, <1>4, <1>5

-----------------------------------------------------------------------------
(* The inductive invariant                                                 *)

\* Nobody pays for their own Peng, which a later Pao on it relies on; and a
\* score is cleared by its player's start, before anyone is paid.
PengPaidByOther == \A i \in Site : \A q \in rec[i].peng : q[2] # i
ClearedByStart == started # Site => \A p \in started : score[p] = 0
ScoreInv == ScoreTypeOK /\ ZeroSum /\ PengPaidByOther /\ ClearedByStart

LEMMA InitScoreInv == ScoreInit => ScoreInv
<1> SUFFICES ASSUME ScoreInit PROVE ScoreInv
  OBVIOUS
<1>1. 1 \in Site /\ Site # {} /\ NoRecord \in Records
  BY DEF Site, MAX_PLAYER_COUNT, NoRecord, Records
<1>2. ScoreTypeOK
  BY <1>1 DEF ScoreInit, ScoreTypeOK
<1>3. ZeroSum
  BY DEF ScoreInit, ZeroSum, Sum, Site, MAX_PLAYER_COUNT
<1>4. PengPaidByOther
  BY DEF ScoreInit, PengPaidByOther, NoRecord
<1>5. ClearedByStart
  BY DEF ScoreInit, ClearedByStart
<1> QED BY <1>2, <1>3, <1>4, <1>5 DEF ScoreInv

\* startPlay clears the records and names a banker.
LEMMA newGameKeeps == ScoreInv /\ newGame => ScoreInv'
<1> SUFFICES ASSUME ScoreInv, newGame PROVE ScoreInv'
  OBVIOUS
<1> USE DEF ScoreInv
<1>1. NoRecord \in Records
  BY DEF NoRecord, Records
<1>2. createZhuangSite \in Site
  <2>1. CASE TestZhuang # 0
    BY <2>1, ScoreAssumption DEF createZhuangSite
  <2>2. CASE TestZhuang = 0 /\ results = <<>>
    BY <2>2 DEF createZhuangSite, Site, MAX_PLAYER_COUNT
  <2>3. CASE TestZhuang = 0 /\ results # <<>>
    <3> DEFINE last == results[Len(results)]
    <3>1. last \in Result
      BY <2>3 DEF ScoreTypeOK
    <3>2. last.winner \in Site /\ turnNextSite(last.zhuang) \in Site
      BY <3>1 DEF Result, turnNextSite, turnSite, Site, MAX_PLAYER_COUNT
    <3> QED BY <2>3, <3>2 DEF createZhuangSite
  <2> QED BY <2>1, <2>2, <2>3
<1>3. ScoreTypeOK'
  BY <1>1, <1>2 DEF ScoreTypeOK, newGame
<1>4. ZeroSum' /\ ClearedByStart'
  BY DEF newGame, ZeroSum, ClearedByStart, Sum
<1>5. PengPaidByOther'
  BY DEF newGame, PengPaidByOther, NoRecord
<1> QED BY <1>3, <1>4, <1>5

\* The last player to start finds every other score cleared.
LEMMA playerStartGameKeeps ==
    ASSUME ScoreInv, NEW p \in Site, playerStartGame(p)
    PROVE  ScoreInv'
<1> USE DEF ScoreInv
<1>1. ScoreTypeOK'
  BY DEF ScoreTypeOK, playerStartGame
<1>2. started # Site /\ \A q \in started' : score'[q] = 0
  BY DEF ScoreTypeOK, playerStartGame, ClearedByStart
<1>3. ZeroSum'
  BY <1>2 DEF playerStartGame, ZeroSum, Sum, Site, MAX_PLAYER_COUNT
<1>4. PengPaidByOther' /\ ClearedByStart'
  BY <1>2 DEF playerStartGame, PengPaidByOther, ClearedByStart
<1> QED BY <1>1, <1>3, <1>4

\* A group that is laid is paid for by others.
LEMMA MeldKeeps ==
    ASSUME ScoreInv, NEW p \in Site, Meld(p)
    PROVE  ScoreInv'
<1> USE DEF ScoreInv
<1>1. PICK rule \in Rule \ {"None", "Ti"}, face \in Face, s \in (Site \ {p}) \cup {NoSite} :
         payscore(p, rule, face, s)
  BY DEF Meld
<1> DEFINE h == Recorded(rec[p], rule, face, s)
           b == payRulecard(h, rule, face, s)
<1>2. rec[p] \in Records /\ s \in SiteOrNone \ {p}
  BY DEF ScoreTypeOK, SiteOrNone, NoSite, Site, MAX_PLAYER_COUNT
<1>3. h \in Records
  BY <1>2, RecordedType
<1>4. \A q \in h.peng : q[2] # p
  BY <1>2 DEF Recorded, PengPaidByOther
<1>5. b \in Bill /\ b.site # p
  BY <1>2, <1>3, <1>4, BillOther
<1>6. rec' = [rec EXCEPT ![p] = h] /\ score' = Paid(score, p, b)
      /\ totalScore' = Paid(totalScore, p, b)
  BY <1>1 DEF payscore
<1>7. UNCHANGED <<results, zhuang, started, phase>> /\ started = Site
  BY DEF Meld
<1> HIDE DEF h, b
<1>8. score' \in Scores /\ Sum(score') = Sum(score)
      /\ totalScore' \in Scores /\ Sum(totalScore') = Sum(totalScore)
  BY <1>5, <1>6, PaidSum DEF ScoreTypeOK, Scores
<1>9. ScoreTypeOK'
  BY <1>3, <1>6, <1>7, <1>8 DEF ScoreTypeOK, Scores
<1>10. ZeroSum'
  BY <1>7, <1>8 DEF ZeroSum, Sum
<1>11. PengPaidByOther'
  BY <1>4, <1>6 DEF PengPaidByOther, ScoreTypeOK
<1>12. ClearedByStart'
  BY <1>7 DEF ClearedByStart
<1> QED BY <1>9, <1>10, <1>11, <1>12

\* A win is paid by the losers to the winner.
LEMMA HuKeeps ==
    ASSUME Facts, ScoreInv, NEW p \in Site, Hu(p)
    PROVE  ScoreInv'
<1> USE DEF ScoreInv
<1>1. PICK t \in WinType \ {"none"}, rule \in Rule, turns \in 0..2, cur \in Site,
           s \in SiteOrNone, dp \in SiteOrNone :
         (s = p => rule = "Ti") /\ settle(t, rule, p, s, dp, cur, turns)
  BY DEF Hu, SiteOrNone
<1> DEFINE wt == parseWinnerType(t, rule, p, cur, turns)
           r == [zhuang |-> zhuang, winner |-> p, hongzhuang |-> wt = "hongzhuang"]
           rs == Append(results, r)
           h == Recorded(rec[p], rule, NoFace, s)
           b == payRulecard(h, rule, NoFace, s)
           owed == HupaiOwed(wt, b, p, dp, rs)
<1>2. /\ results' = rs
      /\ rec' \in {rec, [rec EXCEPT ![p] = h]}
      /\ score' = Collected(score, p, owed)
      /\ totalScore' = Collected(totalScore, p, owed)
      /\ started' = {}
      /\ phase' \in {"finish", "gameover"}
      /\ zhuang' = zhuang
  BY <1>1 DEF settle
<1>3. r \in Result
  BY DEF Result, ScoreTypeOK
<1>4. rs \in Seq(Result)
  BY <1>3 DEF ScoreTypeOK
<1>5. h \in Records
  BY RecordedType DEF ScoreTypeOK
<1>6. b \in Bill
  BY <1>5, BillType
<1>7. owed \in Scores
  BY <1>4, <1>6, HupaiOwedType
<1>8. \A q \in h.peng : q[2] # p
  BY <1>1 DEF Recorded, PengPaidByOther
<1> HIDE DEF rs, h, owed
<1>9. score' \in Scores /\ totalScore' \in Scores /\ Sum(totalScore') = Sum(totalScore)
  BY <1>2, <1>7, CollectedSum DEF ScoreTypeOK, Scores
<1>10. ScoreTypeOK'
  BY <1>2, <1>4, <1>5, <1>9 DEF ScoreTypeOK, Scores
<1>11. Site # {}
  BY DEF Site, MAX_PLAYER_COUNT
<1>12. ZeroSum'
  BY <1>2, <1>9, <1>11 DEF ZeroSum, Sum
<1>13. PengPaidByOther'
  BY <1>2, <1>8 DEF PengPaidByOther, ScoreTypeOK
<1>14. ClearedByStart'
  BY <1>2 DEF ClearedByStart
<1> QED BY <1>10, <1>12, <1>13, <1>14

\* Every step of the scores keeps the invariant.
LEMMA NextScoreInv ==
    ASSUME Facts
    PROVE  ScoreInv /\ [ScoreNext]_scoreVars => ScoreInv'
<1> SUFFICES ASSUME ScoreInv, [ScoreNext]_scoreVars PROVE ScoreInv'
  OBVIOUS
<1>1. CASE newGame
  BY <1>1, newGameKeeps
<1>2. CASE \E p \in Site : playerStartGame(p) \/ Meld(p) \/ Hu(p)
  BY <1>2, playerStartGameKeeps, MeldKeeps, HuKeeps
<1>3. CASE UNCHANGED scoreVars
  BY <1>3 DEF scoreVars, ScoreInv, ScoreTypeOK, ZeroSum, PengPaidByOther,
              ClearedByStart, Sum
<1> QED BY <1>1, <1>2, <1>3 DEF ScoreNext

-----------------------------------------------------------------------------
(* The banker                                                              *)

\* createZhuangSite names the banker of the game being played, and a banker
\* who wins stays banker.
BankerNamed == phase = "playing" => zhuang = createZhuangSite
TestBanker == TestZhuang # 0 => \A i \in DOMAIN results : results[i].zhuang = TestZhuang
BankerStays ==
    \A i \in DOMAIN results \ {1} :
        isWin(results[i - 1]) => results[i].zhuang = results[i - 1].zhuang
BankerInv == BankerNamed /\ TestBanker /\ BankerStays

LEMMA InitBankerInv == ScoreInit => BankerInv
BY DEF ScoreInit, BankerInv, BankerNamed, TestBanker, BankerStays

\* The result of a game names the banker that createZhuangSite chose.
LEMMA HuKeepsBanker ==
    ASSUME ScoreInv, BankerInv, NEW p \in Site, Hu(p)
    PROVE  BankerInv'
<1>1. PICK hz \in BOOLEAN :
         results' = Append(results, [zhuang |-> zhuang, winner |-> p, hongzhuang |-> hz])
  <2>1. PICK t, rule, turns, cur, s, dp : settle(t, rule, p, s, dp, cur, turns)
    BY DEF Hu
  <2> DEFINE hz == parseWinnerType(t, rule, p, cur, turns) = "hongzhuang"
  <2>2. results' = Append(results, [zhuang |-> zhuang, winner |-> p, hongzhuang |-> hz])
    BY <2>1 DEF settle
  <2>3. hz \in BOOLEAN
    OBVIOUS
  <2> HIDE DEF hz
  <2> QED BY <2>2, <2>3
<1>2. phase' # "playing" /\ phase = "playing"
  BY DEF Hu, settle
<1> DEFINE r == [zhuang |-> zhuang, winner |-> p, hongzhuang |-> hz]
           n == Len(results)
<1>3. results \in Seq(Result) /\ r \in Result /\ n \in Nat
  BY DEF ScoreInv, ScoreTypeOK, Result
<1>4. /\ DOMAIN results = 1..n
      /\ DOMAIN results' = 1..(n + 1)
      /\ results'[n + 1] = r
      /\ \A i \in 1..n : results'[i] = results[i]
  BY <1>1, <1>3
<1>5. zhuang = createZhuangSite
  BY <1>2 DEF BankerInv, BankerNamed
<1>6. TestBanker'
  BY <1>4, <1>5 DEF TestBanker, BankerInv, createZhuangSite
<1>7. n > 0 /\ isWin(results[n]) => zhuang = results[n].zhuang
  <2>1. CASE TestZhuang # 0
    BY <2>1, <1>4, <1>5 DEF BankerInv, TestBanker, createZhuangSite
  <2>2. CASE TestZhuang = 0
    <3> SUFFICES ASSUME n > 0, isWin(results[n]) PROVE zhuang = results[n].zhuang
      OBVIOUS
    <3>1. results # <<>>
      BY <1>3
    <3> QED BY <2>2, <3>1, <1>5 DEF isWin, createZhuangSite
  <2> QED BY <2>1, <2>2
<1>8. BankerStays'
  <2> SUFFICES ASSUME NEW i \in 2..(n + 1), isWin(results'[i - 1])
               PROVE  results'[i].zhuang = results'[i - 1].zhuang
    BY <1>4 DEF BankerStays, isWin
  <2>1. CASE i <= n
    <3>1. i \in DOMAIN results \ {1} /\ i \in 1..n /\ i - 1 \in 1..n
      BY <2>1, <1>3, <1>4
    <3>2. results'[i] = results[i] /\ results'[i - 1] = results[i - 1]
      BY <3>1, <1>4
    <3>3. isWin(results[i - 1])
      BY <3>2 DEF isWin
    <3> QED BY <3>1, <3>2, <3>3 DEF BankerInv, BankerStays
  <2>2. CASE i = n + 1
    BY <2>2, <1>3, <1>4, <1>7 DEF isWin
  <2> QED BY <1>3, <2>1, <2>2
<1> QED BY <1>2, <1>6, <1>8 DEF BankerInv, BankerNamed

LEMMA NextBankerInv == ScoreInv /\ BankerInv /\ [ScoreNext]_scoreVars => BankerInv'
<1> SUFFICES ASSUME ScoreInv, BankerInv, [ScoreNext]_scoreVars PROVE BankerInv'
  OBVIOUS
<1>1. CASE newGame
  BY <1>1 DEF newGame, BankerInv, BankerNamed, TestBanker, BankerStays, createZhuangSite
<1>2. CASE \E p \in Site : playerStartGame(p) \/ Meld(p)
  BY <1>2 DEF playerStartGame, Meld, BankerInv, BankerNamed, TestBanker, BankerStays,
              createZhuangSite
<1>3. CASE \E p \in Site : Hu(p)
  BY <1>3, HuKeepsBanker
<1>4. CASE UNCHANGED scoreVars
  BY <1>4 DEF scoreVars, BankerInv, BankerNamed, TestBanker, BankerStays, createZhuangSite
<1> QED BY <1>1, <1>2, <1>3, <1>4 DEF ScoreNext

\* A streak of two is two wins in a row.
LEMMA StreakEndsInWins ==
    ASSUME Facts, NEW rs \in Seq(Result), Streak(rs) > 1
    PROVE  Len(rs) > 1 /\ isWin(rs[Len(rs)]) /\ isWin(rs[Len(rs) - 1])
<1> DEFINE n == Len(rs)
           S == {i \in DOMAIN rs : \A j \in i..n : isWin(rs[j])}
<1>1. n \in Nat /\ DOMAIN rs = 1..n
  OBVIOUS
<1>2. PICK i \in S : i # n
  <2> SUFFICES ASSUME S \subseteq {n} PROVE FALSE
    OBVIOUS
  <2>1. IsFiniteSet({n}) /\ Cardinality({n}) = 1
    BY DEF Facts, FS_One
  <2>2. Cardinality(S) <= 1
    BY <2>1 DEF Facts, FS_Part
  <2>3. Streak(rs) = Cardinality(S)
    BY DEF Streak
  <2> QED BY <2>2, <2>3, StreakType
<1>3. i \in 1..(n - 1) /\ \A j \in i..n : isWin(rs[j])
  BY <1>1, <1>2
<1>4. n \in i..n /\ n - 1 \in i..n /\ n > 1
  BY <1>1, <1>3
<1> QED BY <1>3, <1>4

-----------------------------------------------------------------------------
(* The cards of a player.                                                  *)

\* The groups that are laid without the card on the table
Alone == {"Kan", "Ti_zimo", "None"}

\* The history after a payment
HistPaid(m, rule, cards) ==
    Append(m.hist, [payrule |-> rule, victrule |-> VictRule(rule), cards |-> cards])

\* What payCards does to the cards m of a player, by the kind of group
HandPaid(m, p, rule, cards, other) ==
    /\ p \in CardMgr
    /\ cards \subseteq m.hand
    /\ p.hand = m.hand \ cards
    /\ p.show = [m.show EXCEPT ![rule] = @ \cup {cards \cup {other}}]
    /\ p.ti = m.ti /\ p.kan = m.kan /\ p.single = m.single
    /\ p.hist = HistPaid(m, rule, cards) /\ p.chou = m.chou
    /\ p.wufu = m.wufu /\ p.want = m.want /\ p.pengSingle = m.pengSingle

ShowPaid(m, p, rule, cards, other) ==
    LET v == VictRule(rule)
    IN  /\ p \in CardMgr
        /\ cards \in m.show[v] /\ cards \subseteq Card
        /\ p.show = [m.show EXCEPT ![v] = @ \ {cards},
                                   ![rule] = @ \cup {cards \cup {other}}]
        /\ p.hand = m.hand /\ p.ti = m.ti /\ p.kan = m.kan /\ p.single = m.single
        /\ p.hist = HistPaid(m, rule, cards) /\ p.chou = m.chou
        /\ p.wufu = m.wufu /\ p.want = m.want /\ p.pengSingle = m.pengSingle

KanPaid(m, p, cards) ==
    /\ p \in CardMgr
    /\ cards \in m.kan /\ p.kan = m.kan \ {cards}
    /\ p.show = [m.show EXCEPT !["Kan"] = @ \cup {cards}]
    /\ p.hand = m.hand /\ p.ti = m.ti /\ p.single = m.single
    /\ p.hist = HistPaid(m, "Kan", cards) /\ p.chou = m.chou
    /\ p.wufu = m.wufu /\ p.want = m.want /\ p.pengSingle = m.pengSingle

TiPaid(m, p, cards) ==
    /\ p \in CardMgr
    /\ cards \in m.ti /\ p.ti = m.ti \ {cards}
    /\ p.show = [m.show EXCEPT !["Ti_zimo"] = @ \cup {cards}]
    /\ p.hand = m.hand /\ p.kan = m.kan /\ p.single = m.single
    /\ p.hist = HistPaid(m, "Ti_zimo", cards) /\ p.chou = m.chou
    /\ p.wufu = m.wufu /\ p.want = m.want /\ p.pengSingle = m.pengSingle

SinglePaid(m, p, cards) ==
    /\ p \in CardMgr
    /\ cards \subseteq m.hand /\ Cardinality(cards) = 1
    /\ p.hand = m.hand \ cards /\ p.single = m.single \cup cards
    /\ p.show = m.show /\ p.ti = m.ti /\ p.kan = m.kan
    /\ p.hist = HistPaid(m, "None", cards) /\ p.chou = m.chou
    /\ p.wufu = m.wufu /\ p.want = m.want /\ p.pengSingle = m.pengSingle

LEMMA RuleKinds ==
    /\ FromHand \subseteq Melds /\ FromShow \subseteq Melds
    /\ Rule = FromHand \cup FromShow \cup Alone \cup {"Ti"}
    /\ \A r \in FromHand : r \notin FromShow /\ r \notin Alone /\ VictRule(r) = "None"
    /\ \A r \in FromShow : r \notin Alone /\ VictRule(r) \in {"Kan", "Wei", "Peng"}
BY DEF FromHand, FromShow, Alone, Melds, Rule, VictRule

\* A group from the hand
LEMMA LaidFromHand ==
    ASSUME NEW m \in CardMgr, NEW rule \in FromHand, NEW cards, NEW other \in Card,
           CanPay(m, rule, cards, other)
    PROVE  HandPaid(m, payCards(m, rule, cards, other), rule, cards, other)
<1> DEFINE p == payCards(m, rule, cards, other)
<1>1. cards \subseteq m.hand
  <2>1. CASE rule = "Chi"
    BY <2>1 DEF CanPay, FromShow
  <2>2. CASE rule \in {"Peng", "Wei", "Wei_chou"}
    BY <2>2 DEF CanPay, FromShow
  <2> QED BY <2>1, <2>2 DEF FromHand
<1>2. m.hand \subseteq Card /\ m.show \in [Melds -> SUBSET SUBSET Card] /\ rule \in Melds
  BY RuleKinds DEF CardMgr
<1>3. p = [m EXCEPT !.hist = HistPaid(m, rule, cards), !.hand = @ \ cards,
                    !.show[rule] = @ \cup {cards \cup {other}}]
  <2>1. rule # "Kan" /\ rule # "Ti_zimo" /\ rule \notin FromShow /\ rule # "None"
    BY DEF FromHand, FromShow
  <2>2. p = Laid(m, rule, cards, other)
    BY DEF payCards
  <2> QED BY <2>1, <2>2 DEF Laid, HistPaid
<1>4. HistPaid(m, rule, cards) \in Seq([payrule : Rule, victrule : Rule, cards : SUBSET Card])
  <2>1. rule \in Rule /\ VictRule(rule) \in Rule /\ cards \in SUBSET Card
    BY <1>1, <1>2 DEF VictRule, FromHand, Rule
  <2> QED BY <2>1 DEF HistPaid, CardMgr
<1>5. [m.show EXCEPT ![rule] = @ \cup {cards \cup {other}}] \in [Melds -> SUBSET SUBSET Card]
  BY <1>1, <1>2
<1> HIDE DEF p
<1>6. /\ p.hand = m.hand \ cards
      /\ p.show = [m.show EXCEPT ![rule] = @ \cup {cards \cup {other}}]
      /\ p.ti = m.ti /\ p.kan = m.kan /\ p.single = m.single
      /\ p.hist = HistPaid(m, rule, cards) /\ p.chou = m.chou
      /\ p.wufu = m.wufu /\ p.want = m.want /\ p.pengSingle = m.pengSingle
  BY <1>3 DEF CardMgr
<1>7. p \in CardMgr
  BY <1>1, <1>2, <1>3, <1>4, <1>5 DEF CardMgr
<1> QED BY <1>1, <1>6, <1>7 DEF p, HandPaid

\* A group of four from a group of three
LEMMA LaidFromShow ==
    ASSUME NEW m \in CardMgr, NEW rule \in FromShow, NEW cards, NEW other \in Card,
           CanPay(m, rule, cards, other)
    PROVE  ShowPaid(m, payCards(m, rule, cards, other), rule, cards, other)
<1> DEFINE p == payCards(m, rule, cards, other)
           v == VictRule(rule)
<1>1. cards \in m.show[v]
  BY DEF CanPay, FromShow
<1>2. m.show \in [Melds -> SUBSET SUBSET Card] /\ rule \in Melds /\ v \in Melds \ {rule}
  BY RuleKinds DEF CardMgr, Melds, Rule, FromShow
<1>3. cards \in SUBSET Card
  BY <1>1, <1>2
<1>4. p = [m EXCEPT !.hist = HistPaid(m, rule, cards), !.show[v] = @ \ {cards},
                    !.show[rule] = @ \cup {cards \cup {other}}]
  <2>1. rule # "Kan" /\ rule # "Ti_zimo" /\ rule \notin FromHand /\ rule # "None"
    BY DEF FromHand, FromShow
  <2>2. p = Laid(m, rule, cards, other)
    BY DEF payCards
  <2> QED BY <2>1, <2>2 DEF Laid, HistPaid
<1>5. HistPaid(m, rule, cards) \in Seq([payrule : Rule, victrule : Rule, cards : SUBSET Card])
  <2>1. rule \in Rule /\ v \in Rule
    BY <1>2 DEF Melds
  <2> QED BY <2>1, <1>3 DEF HistPaid, CardMgr
<1> DEFINE sh == [m.show EXCEPT ![v] = @ \ {cards}, ![rule] = @ \cup {cards \cup {other}}]
<1>6. sh \in [Melds -> SUBSET SUBSET Card]
  <2>1. (cards \cup {other}) \in SUBSET Card
    BY <1>3
  <2> QED BY <2>1, <1>2
<1> HIDE DEF p, v
<1>7. /\ p.show = sh
      /\ p.hand = m.hand /\ p.ti = m.ti /\ p.kan = m.kan /\ p.single = m.single
      /\ p.hist = HistPaid(m, rule, cards) /\ p.chou = m.chou
      /\ p.wufu = m.wufu /\ p.want = m.want /\ p.pengSingle = m.pengSingle
  BY <1>2, <1>4 DEF CardMgr
<1> HIDE DEF sh
<1>8. p \in CardMgr
  <2>1. p = [m EXCEPT !.hist = HistPaid(m, rule, cards), !.show = sh]
    BY <1>2, <1>4 DEF CardMgr, sh
  <2> QED BY <2>1, <1>5, <1>6 DEF CardMgr
<1> QED BY <1>1, <1>3, <1>7, <1>8 DEF p, v, sh, ShowPaid

\* A triple that was dealt
LEMMA LaidKan ==
    ASSUME NEW m \in CardMgr, NEW cards, NEW other, CanPay(m, "Kan", cards, other)
    PROVE  KanPaid(m, payCards(m, "Kan", cards, other), cards)
<1> DEFINE p == payCards(m, "Kan", cards, other)
           sh == [m.show EXCEPT !["Kan"] = @ \cup {cards}]
<1>1. cards \in m.kan
  BY DEF CanPay, FromShow
<1>2. /\ m.show \in [Melds -> SUBSET SUBSET Card] /\ "Kan" \in Melds
      /\ m.kan \subseteq SUBSET Card
  BY DEF CardMgr, Melds, Rule
<1>3. cards \in SUBSET Card
  BY <1>1, <1>2
<1>4. p = [m EXCEPT !.hist = HistPaid(m, "Kan", cards), !.kan = @ \ {cards}, !.show = sh]
  BY DEF payCards, Laid, HistPaid, FromHand, FromShow
<1>5. HistPaid(m, "Kan", cards)
        \in Seq([payrule : Rule, victrule : Rule, cards : SUBSET Card])
  <2>1. "Kan" \in Rule /\ VictRule("Kan") \in Rule
    BY DEF Rule, VictRule
  <2> QED BY <2>1, <1>3 DEF HistPaid, CardMgr
<1>6. sh \in [Melds -> SUBSET SUBSET Card]
  BY <1>2, <1>3
<1> HIDE DEF p, sh
<1>7. p \in CardMgr
  BY <1>2, <1>4, <1>5, <1>6 DEF CardMgr
<1>8. /\ p.show = sh /\ p.kan = m.kan \ {cards}
      /\ p.hand = m.hand /\ p.ti = m.ti /\ p.single = m.single
      /\ p.hist = HistPaid(m, "Kan", cards) /\ p.chou = m.chou
      /\ p.wufu = m.wufu /\ p.want = m.want /\ p.pengSingle = m.pengSingle
  BY <1>4 DEF CardMgr
<1> QED BY <1>1, <1>7, <1>8 DEF p, sh, KanPaid

\* A quad that was dealt
LEMMA LaidTi ==
    ASSUME NEW m \in CardMgr, NEW cards, NEW other, CanPay(m, "Ti_zimo", cards, other)
    PROVE  TiPaid(m, payCards(m, "Ti_zimo", cards, other), cards)
<1> DEFINE p == payCards(m, "Ti_zimo", cards, other)
           sh == [m.show EXCEPT !["Ti_zimo"] = @ \cup {cards}]
<1>1. cards \in m.ti
  BY DEF CanPay, FromShow
<1>2. /\ m.show \in [Melds -> SUBSET SUBSET Card] /\ "Ti_zimo" \in Melds
      /\ m.ti \subseteq SUBSET Card
  BY DEF CardMgr, Melds, Rule
<1>3. cards \in SUBSET Card
  BY <1>1, <1>2
<1>4. p = [m EXCEPT !.hist = HistPaid(m, "Ti_zimo", cards), !.ti = @ \ {cards}, !.show = sh]
  BY DEF payCards, Laid, HistPaid, FromHand, FromShow
<1>5. HistPaid(m, "Ti_zimo", cards)
        \in Seq([payrule : Rule, victrule : Rule, cards : SUBSET Card])
  <2>1. "Ti_zimo" \in Rule /\ VictRule("Ti_zimo") \in Rule
    BY DEF Rule, VictRule
  <2> QED BY <2>1, <1>3 DEF HistPaid, CardMgr
<1>6. sh \in [Melds -> SUBSET SUBSET Card]
  BY <1>2, <1>3
<1> HIDE DEF p, sh
<1>7. p \in CardMgr
  BY <1>2, <1>4, <1>5, <1>6 DEF CardMgr
<1>8. /\ p.show = sh /\ p.ti = m.ti \ {cards}
      /\ p.hand = m.hand /\ p.kan = m.kan /\ p.single = m.single
      /\ p.hist = HistPaid(m, "Ti_zimo", cards) /\ p.chou = m.chou
      /\ p.wufu = m.wufu /\ p.want = m.want /\ p.pengSingle = m.pengSingle
  BY <1>4 DEF CardMgr
<1> QED BY <1>1, <1>7, <1>8 DEF p, sh, TiPaid

\* A discarded card
LEMMA LaidSingle ==
    ASSUME NEW m \in CardMgr, NEW cards, NEW other,
           CanPay(m, "None", cards, other)
    PROVE  SinglePaid(m, payCards(m, "None", cards, other), cards)
<1> DEFINE p == payCards(m, "None", cards, other)
<1>1. cards \subseteq m.hand /\ Cardinality(cards) = 1
  BY DEF CanPay, FromShow
<1>2. m.hand \subseteq Card
  BY DEF CardMgr
<1>3. p = [m EXCEPT !.hist = HistPaid(m, "None", cards), !.hand = @ \ cards,
                    !.single = @ \cup cards]
  BY DEF payCards, Laid, HistPaid, FromHand, FromShow
<1>4. HistPaid(m, "None", cards)
        \in Seq([payrule : Rule, victrule : Rule, cards : SUBSET Card])
  <2>1. VictRule("None") \in Rule /\ "None" \in Rule
    BY DEF Rule, VictRule
  <2> QED BY <2>1, <1>1, <1>2 DEF HistPaid, CardMgr
<1> HIDE DEF p
<1>5. p \in CardMgr
  BY <1>1, <1>2, <1>3, <1>4 DEF CardMgr
<1>6. /\ p.hand = m.hand \ cards /\ p.single = m.single \cup cards
      /\ p.show = m.show /\ p.ti = m.ti /\ p.kan = m.kan
      /\ p.hist = HistPaid(m, "None", cards) /\ p.chou = m.chou
      /\ p.wufu = m.wufu /\ p.want = m.want /\ p.pengSingle = m.pengSingle
  BY <1>3 DEF CardMgr
<1> QED BY <1>1, <1>5, <1>6 DEF p, SinglePaid

-----------------------------------------------------------------------------
(* Where the cards are                                                     *)

\* A payment adds the card on the table, and a discard leaves the player
LEMMA OwnedAfterMeld ==
    ASSUME NEW m \in CardMgr, NEW rule \in FromHand \cup FromShow, NEW cards,
           NEW other \in Card, CanPay(m, rule, cards, other)
    PROVE  Owned(payCards(m, rule, cards, other)) = Owned(m) \cup {other}
<1> DEFINE p == payCards(m, rule, cards, other)
<1>1. CASE rule \in FromHand
  <2>1. /\ cards \subseteq m.hand /\ p.hand = m.hand \ cards
        /\ p.show = [m.show EXCEPT ![rule] = @ \cup {cards \cup {other}}]
        /\ p.ti = m.ti /\ p.kan = m.kan
    <3>1. HandPaid(m, p, rule, cards, other)
      BY <1>1, LaidFromHand
    <3> QED BY <3>1 DEF HandPaid
  <2>2. rule \in Melds /\ m.show \in [Melds -> SUBSET SUBSET Card]
    BY <1>1, RuleKinds DEF CardMgr
  <2> HIDE DEF p
  <2>3. Shown(p) = Shown(m) \cup {cards \cup {other}}
    BY <2>1, <2>2 DEF Shown
  <2> QED BY <2>1, <2>3 DEF Owned, p
<1>2. CASE rule \in FromShow
  <2> DEFINE v == VictRule(rule)
  <2>1. /\ p.hand = m.hand /\ p.ti = m.ti /\ p.kan = m.kan /\ cards \in m.show[v]
        /\ p.show = [m.show EXCEPT ![v] = @ \ {cards},
                                   ![rule] = @ \cup {cards \cup {other}}]
    <3>1. ShowPaid(m, p, rule, cards, other)
      BY <1>2, LaidFromShow
    <3> QED BY <3>1 DEF ShowPaid
  <2>2. rule \in Melds /\ v \in Melds \ {rule} /\ m.show \in [Melds -> SUBSET SUBSET Card]
    BY <1>2, RuleKinds DEF CardMgr, Melds, Rule, FromShow
  <2> HIDE DEF p, v
  <2>3. Shown(m) \subseteq Shown(p) \cup {cards}
    BY <2>1, <2>2 DEF Shown
  <2>4. Shown(p) \subseteq Shown(m) \cup {cards \cup {other}} /\ (cards \cup {other}) \in Shown(p)
    BY <2>1, <2>2 DEF Shown
  <2>5. cards \in Shown(m)
    BY <2>1, <2>2 DEF Shown
  <2>6. UNION Shown(p) = (UNION Shown(m)) \cup {other}
    <3>1. ASSUME NEW c \in UNION Shown(p) PROVE c \in (UNION Shown(m)) \cup {other}
      BY <2>4, <2>5
    <3>2. ASSUME NEW c \in (UNION Shown(m)) \cup {other} PROVE c \in UNION Shown(p)
      BY <2>3, <2>4
    <3> QED BY <3>1, <3>2
  <2>7. Owned(p) = Owned(m) \cup {other}
    BY <2>1, <2>6 DEF Owned
  <2> QED BY <2>7 DEF p
<1> QED BY <1>1, <1>2

LEMMA OwnedAfterDealt ==
    ASSUME NEW m \in CardMgr, NEW rule \in {"Kan", "Ti_zimo"}, NEW cards, NEW other,
           CanPay(m, rule, cards, other)
    PROVE  /\ Owned(payCards(m, rule, cards, other)) = Owned(m)
           /\ Shown(payCards(m, rule, cards, other)) = Shown(m)
<1> DEFINE p == payCards(m, rule, cards, other)
<1>1. rule \in Melds /\ m.show \in [Melds -> SUBSET SUBSET Card]
  BY DEF CardMgr, Melds, Rule
<1>2. CASE rule = "Kan"
  <2>0. CanPay(m, "Kan", cards, other) /\ p = payCards(m, "Kan", cards, other)
    BY <1>2
  <2>1. /\ p.hand = m.hand /\ p.ti = m.ti /\ cards \in m.kan /\ p.kan = m.kan \ {cards}
        /\ p.show = [m.show EXCEPT !["Kan"] = @ \cup {cards}]
    <3>1. KanPaid(m, p, cards)
      BY <2>0, LaidKan
    <3> QED BY <3>1 DEF KanPaid
  <2> HIDE DEF p
  <2>2. Shown(p) = Shown(m)
    BY <1>1, <2>1 DEF Melds, Rule, Shown
  <2> QED BY <2>1, <2>2 DEF Owned, p
<1>3. CASE rule = "Ti_zimo"
  <2>0. CanPay(m, "Ti_zimo", cards, other) /\ p = payCards(m, "Ti_zimo", cards, other)
    BY <1>3
  <2>1. /\ p.hand = m.hand /\ p.kan = m.kan /\ cards \in m.ti /\ p.ti = m.ti \ {cards}
        /\ p.show = [m.show EXCEPT !["Ti_zimo"] = @ \cup {cards}]
    <3>1. TiPaid(m, p, cards)
      BY <2>0, LaidTi
    <3> QED BY <3>1 DEF TiPaid
  <2> HIDE DEF p
  <2>2. Shown(p) = Shown(m)
    BY <1>1, <2>1 DEF Melds, Rule, Shown
  <2> QED BY <2>1, <2>2 DEF Owned, p
<1> QED BY <1>2, <1>3

\* No card of the hand is in a group
HandApart(m) == m.hand \cap UNION Shown(m) = {}

LEMMA OwnedAfterDiscard ==
    ASSUME NEW m \in CardMgr, NEW c, NEW other, HandApart(m), CanPay(m, "None", {c}, other)
    PROVE  /\ c \in Owned(m)
           /\ Owned(payCards(m, "None", {c}, other)) = Owned(m) \ {c}
<1> DEFINE p == payCards(m, "None", {c}, other)
<1>1. c \in m.hand /\ p.hand = m.hand \ {c} /\ p.show = m.show /\ p.ti = m.ti /\ p.kan = m.kan
  <2>1. SinglePaid(m, p, {c})
    BY LaidSingle
  <2> QED BY <2>1 DEF SinglePaid
<1> HIDE DEF p
<1>2. Shown(p) = Shown(m)
  BY <1>1 DEF Shown
<1> QED BY <1>1, <1>2 DEF Owned, HandApart, p

\* A hand holds no three cards of a face
PairsOnly(m) ==
    \A a, b, c \in m.hand : Equal(a, b) /\ Equal(b, c) => a = b \/ b = c \/ a = c

\* A triple is in one of the three lists of triples only
ThreesApart(m) ==
    /\ (m.kan \cup m.show["Kan"]) \cap (m.show["Wei"] \cup m.show["Peng"]) = {}
    /\ m.show["Wei"] \cap m.show["Peng"] = {}

Tidy(m) == HandApart(m) /\ PairsOnly(m) /\ ThreesApart(m)

\* Laying a group with a card from outside keeps the cards tidy
LEMMA TidyAfterMeld ==
    ASSUME NEW m \in CardMgr, NEW rule \in FromHand \cup FromShow, NEW cards,
           NEW other \in Card, CanPay(m, rule, cards, other), Tidy(m), other \notin Owned(m)
    PROVE  Tidy(payCards(m, rule, cards, other))
<1> DEFINE p == payCards(m, rule, cards, other)
           g == cards \cup {other}
<1>1. other \notin m.hand /\ g \notin Shown(m)
  BY DEF Owned
<1>2. CASE rule \in FromHand
  <2>1. /\ cards \subseteq m.hand /\ p.hand = m.hand \ cards
        /\ p.show = [m.show EXCEPT ![rule] = @ \cup {g}]
        /\ p.ti = m.ti /\ p.kan = m.kan
    <3>1. HandPaid(m, p, rule, cards, other)
      BY <1>2, LaidFromHand
    <3> QED BY <3>1 DEF HandPaid
  <2>2. rule \in Melds /\ m.show \in [Melds -> SUBSET SUBSET Card]
    BY <1>2, RuleKinds DEF CardMgr
  <2> HIDE DEF p, g
  <2>3. Shown(p) = Shown(m) \cup {g}
    BY <2>1, <2>2 DEF Shown
  <2>4. HandApart(p)
    BY <2>1, <2>3, <1>1 DEF HandApart, Tidy, g
  <2>5. PairsOnly(p)
    BY <2>1 DEF PairsOnly, Tidy
  <2>6. ThreesApart(p)
    BY <2>1, <2>2, <1>1 DEF ThreesApart, Tidy, Shown, Melds, Rule
  <2> QED BY <2>4, <2>5, <2>6 DEF Tidy, p
<1>3. CASE rule \in FromShow
  <2> DEFINE v == VictRule(rule)
  <2>1. /\ p.hand = m.hand /\ p.ti = m.ti /\ p.kan = m.kan /\ cards \in m.show[v]
        /\ p.show = [m.show EXCEPT ![v] = @ \ {cards}, ![rule] = @ \cup {g}]
    <3>1. ShowPaid(m, p, rule, cards, other)
      BY <1>3, LaidFromShow
    <3> QED BY <3>1 DEF ShowPaid
  <2>2. /\ rule \in Melds /\ v \in Melds \ {rule} /\ m.show \in [Melds -> SUBSET SUBSET Card]
        /\ rule \notin {"Kan", "Wei", "Peng"}
    BY <1>3, RuleKinds DEF CardMgr, Melds, Rule, FromShow
  <2> HIDE DEF p, g, v
  <2>3. Shown(p) \subseteq Shown(m) \cup {g} /\ cards \in Shown(m)
    BY <2>1, <2>2 DEF Shown
  <2>4. HandApart(p)
    BY <2>1, <2>3, <1>1 DEF HandApart, Tidy, g
  <2>5. PairsOnly(p)
    BY <2>1 DEF PairsOnly, Tidy
  <2>6. \A r \in {"Kan", "Wei", "Peng"} : p.show[r] \subseteq m.show[r]
    BY <2>1, <2>2 DEF Melds, Rule
  <2>7. ThreesApart(p)
    BY <2>1, <2>6 DEF ThreesApart, Tidy
  <2> QED BY <2>4, <2>5, <2>7 DEF Tidy, p
<1> QED BY <1>2, <1>3

\* Laying a group that was dealt, and a discard, keep the cards tidy
LEMMA TidyAfterAlone ==
    ASSUME NEW m \in CardMgr, NEW rule \in Alone, NEW cards, NEW other,
           CanPay(m, rule, cards, other), Tidy(m)
    PROVE  Tidy(payCards(m, rule, cards, other))
<1> DEFINE p == payCards(m, rule, cards, other)
<1>1. m.show \in [Melds -> SUBSET SUBSET Card] /\ "Kan" \in Melds /\ "Ti_zimo" \in Melds
  BY DEF CardMgr, Melds, Rule
<1>2. CASE rule \in {"Kan", "Ti_zimo"}
  <2>1. Shown(p) = Shown(m)
    BY <1>2, OwnedAfterDealt
  <2>2. CASE rule = "Kan"
    <3>0. CanPay(m, "Kan", cards, other) /\ p = payCards(m, "Kan", cards, other)
      BY <2>2
    <3>1. /\ p.hand = m.hand /\ p.show = [m.show EXCEPT !["Kan"] = @ \cup {cards}]
          /\ cards \in m.kan /\ p.kan = m.kan \ {cards}
      <4>1. KanPaid(m, p, cards)
        BY <3>0, LaidKan
      <4> QED BY <4>1 DEF KanPaid
    <3> HIDE DEF p
    <3>2. ThreesApart(p)
      BY <1>1, <3>1 DEF ThreesApart, Tidy, Melds, Rule
    <3> QED BY <2>1, <3>1, <3>2 DEF Tidy, HandApart, PairsOnly, p
  <2>3. CASE rule = "Ti_zimo"
    <3>0. CanPay(m, "Ti_zimo", cards, other) /\ p = payCards(m, "Ti_zimo", cards, other)
      BY <2>3
    <3>1. /\ p.hand = m.hand /\ p.show = [m.show EXCEPT !["Ti_zimo"] = @ \cup {cards}]
          /\ p.kan = m.kan
      <4>1. TiPaid(m, p, cards)
        BY <3>0, LaidTi
      <4> QED BY <4>1 DEF TiPaid
    <3> HIDE DEF p
    <3>2. ThreesApart(p)
      BY <1>1, <3>1 DEF ThreesApart, Tidy, Melds, Rule
    <3> QED BY <2>1, <3>1, <3>2 DEF Tidy, HandApart, PairsOnly, p
  <2> QED BY <1>2, <2>2, <2>3
<1>3. CASE rule = "None"
  <2>1. p.hand = m.hand \ cards /\ p.show = m.show /\ p.ti = m.ti /\ p.kan = m.kan
    <3>1. SinglePaid(m, p, cards)
      BY <1>3, LaidSingle
    <3> QED BY <3>1 DEF SinglePaid
  <2> HIDE DEF p
  <2>2. Shown(p) = Shown(m)
    BY <2>1 DEF Shown
  <2> QED BY <2>1, <2>2 DEF Tidy, HandApart, PairsOnly, ThreesApart, p
<1> QED BY <1>2, <1>3 DEF Alone

-----------------------------------------------------------------------------
(* The cards as dealt                                                      *)

LEMMA Interval ==
    ASSUME Facts, NEW n \in Nat
    PROVE  IsFiniteSet(1..n) /\ Cardinality(1..n) = n
BY DEF Facts, FS_Range

LEMMA TwoCards ==
    ASSUME Facts, NEW a, NEW b, a # b
    PROVE  IsFiniteSet({a, b}) /\ Cardinality({a, b}) = 2
<1>1. IsFiniteSet({a}) /\ Cardinality({a}) = 1 /\ b \notin {a}
  BY DEF Facts, FS_One
<1>2. IsFiniteSet({a} \cup {b}) /\ Cardinality({a} \cup {b}) = 2
  BY <1>1 DEF Facts, FS_Add
<1>3. {a, b} = {a} \cup {b}
  OBVIOUS
<1> QED BY <1>2, <1>3

LEMMA ThreeCards ==
    ASSUME Facts, NEW a, NEW b, NEW c, a # b, b # c, a # c
    PROVE  IsFiniteSet({a, b, c}) /\ Cardinality({a, b, c}) = 3
<1> DEFINE S == {a, b}
<1>1. IsFiniteSet(S) /\ Cardinality(S) = 2 /\ c \notin S /\ {a, b, c} = S \cup {c}
  BY TwoCards
<1> HIDE DEF S
<1>2. IsFiniteSet(S \cup {c}) /\ Cardinality(S \cup {c}) = 3
  BY <1>1 DEF Facts, FS_Add
<1> QED BY <1>1, <1>2

LEMMA CardFinite ==
    ASSUME Facts
    PROVE  IsFiniteSet(Card)
<1> DEFINE Pairs == Values \X {0, 1}
           From == Pairs \X (1..4)
           f == [q \in From |-> <<q[1][1], q[1][2], q[2]>>]
<1>1. IsFiniteSet(Values)
  <2>1. IsFiniteSet(1..10)
    <3>1. 10 \in Nat
      OBVIOUS
    <3> QED BY <3>1, Interval
  <2> QED BY <2>1, ValuesAssumption DEF Facts, FS_Part
<1>2. IsFiniteSet({0, 1}) /\ IsFiniteSet(1..4)
  <2>1. IsFiniteSet({0} \cup {1})
    BY DEF Facts, FS_One, FS_Add
  <2>2. {0, 1} = {0} \cup {1} /\ 4 \in Nat
    OBVIOUS
  <2> QED BY <2>1, <2>2, Interval
<1>3. IsFiniteSet(Pairs)
  BY <1>1, <1>2 DEF Facts, FS_Pairs
<1>4. IsFiniteSet(From)
  BY <1>2, <1>3 DEF Facts, FS_Pairs
<1>5. f \in [From -> Card] /\ \A c \in Card : \E q \in From : f[q] = c
  <2>1. f \in [From -> Card]
    BY DEF Card
  <2>2. ASSUME NEW c \in Card PROVE \E q \in From : f[q] = c
    <3>1. c[1] \in Values /\ c[2] \in {0, 1} /\ c[3] \in 1..4 /\ c = <<c[1], c[2], c[3]>>
      BY DEF Card
    <3>2. << <<c[1], c[2]>>, c[3]>> \in From
      BY <3>1
    <3>3. f[<< <<c[1], c[2]>>, c[3]>>] = c
      BY <3>1, <3>2
    <3> QED BY <3>2, <3>3
  <2> QED BY <2>1, <2>2
<1> HIDE DEF From, f
<1> QED BY <1>4, <1>5 DEF Facts, FS_Onto

LEMMA CardsFinite ==
    ASSUME Facts, NEW S \in SUBSET Card
    PROVE  IsFiniteSet(S) /\ Cardinality(S) \in Nat
BY CardFinite DEF Facts, FS_Part, FS_Nat

\* startPlay makes four cards of every face
LEMMA FourCopies ==
    ASSUME Facts, NEW c \in Card
    PROVE  Cardinality(SameFace(Card, c)) = 4
<1> DEFINE S == SameFace(Card, c)
           f == [k \in 1..4 |-> <<c[1], c[2], k>>]
<1>1. c[1] \in Values /\ c[2] \in {0, 1}
  BY DEF Card
<1>2. f \in [1..4 -> S]
  BY <1>1 DEF Card, SameFace, Equal, Value, Capital
<1>3. \A d \in S : \E k \in 1..4 : f[k] = d
  <2>1. ASSUME NEW d \in S PROVE \E k \in 1..4 : f[k] = d
    <3>1. d \in Card /\ d[1] = c[1] /\ d[2] = c[2]
      BY DEF SameFace, Equal, Value, Capital
    <3>2. d[3] \in 1..4 /\ d = <<d[1], d[2], d[3]>>
      BY <3>1 DEF Card
    <3>3. f[d[3]] = d
      BY <3>1, <3>2
    <3> QED BY <3>2, <3>3
  <2> QED BY <2>1
<1>4. \A j, k \in 1..4 : f[j] = f[k] => j = k
  OBVIOUS
<1>5. IsFiniteSet(1..4) /\ Cardinality(1..4) = 4
  <2>1. 4 \in Nat
    OBVIOUS
  <2> QED BY <2>1, Interval
<1> HIDE DEF f, S
<1>6. Cardinality(S) = Cardinality(1..4)
  BY <1>2, <1>3, <1>4, <1>5 DEF Facts, FS_Onto
<1> QED BY <1>5, <1>6 DEF S

\* tidyHandCards splits a hand: the last three of a quad are cards of the hand
LEMMA TidyKanWithin ==
    ASSUME Facts, NEW C \in SUBSET Card
    PROVE  TidyKan(C) \subseteq SUBSET C /\ TidyTi(C) \subseteq SUBSET C
<1> DEFINE T == TopFace(C)
           t == CHOOSE u \in SUBSET T : Cardinality(u) = 3
<1>1. FaceGroups(C, 3) \subseteq SUBSET C /\ FaceGroups(C, 4) \subseteq SUBSET C
  BY DEF FaceGroups, SameFace
<1>2. T \subseteq C
  BY DEF TopFace
<1>3. Cardinality(T) = 4 => t \in SUBSET T
  <2> SUFFICES ASSUME Cardinality(T) = 4 PROVE t \in SUBSET T
    OBVIOUS
  <2>1. IsFiniteSet(T)
    BY <1>2, CardsFinite
  <2>2. T # {}
    BY <2>1 DEF Facts, FS_Empty
  <2>3. PICK x : x \in T
    BY <2>2
  <2>4. Cardinality(T \ {x}) = 3
    BY <2>1, <2>3 DEF Facts, FS_Remove
  <2> HIDE DEF T
  <2> QED BY <2>4
<1> QED BY <1>1, <1>2, <1>3 DEF TidyKan, TidyTi

LEMMA DealtCards ==
    ASSUME Facts, NEW C \in SUBSET Card
    PROVE  /\ initCards(C) \in CardMgr
           /\ Owned(initCards(C)) = C
           /\ Tidy(initCards(C))
<1> DEFINE m == initCards(C)
           G == TidyTi(C) \cup TidyKan(C)
<1>1. G \subseteq SUBSET C /\ TidyNone(C) = C \ UNION G
  BY TidyKanWithin DEF TidyNone
<1>2. /\ m.hand = C \ UNION G /\ m.ti = TidyTi(C) /\ m.kan = TidyKan(C)
      /\ m.show = [r \in Melds |-> {}]
  BY <1>1 DEF initCards
<1>3. m \in CardMgr
  <2>1. TidyNone(C) \in SUBSET Card /\ TidyTi(C) \in SUBSET SUBSET Card
        /\ TidyKan(C) \in SUBSET SUBSET Card
    BY <1>1
  <2>2. [r \in Melds |-> {}] \in [Melds -> SUBSET SUBSET Card]
        /\ [r \in {"Chi", "Peng"} |-> {}] \in [{"Chi", "Peng"} -> SUBSET Face]
        /\ <<>> \in Seq([payrule : Rule, victrule : Rule, cards : SUBSET Card])
    OBVIOUS
  <2> QED BY <2>1, <2>2 DEF initCards, CardMgr
<1> HIDE DEF m
<1>4. Shown(m) = G
  BY <1>2 DEF Shown
<1>5. Owned(m) = C /\ HandApart(m)
  BY <1>1, <1>2, <1>4 DEF Owned, HandApart
<1>6. PairsOnly(m)
  <2> SUFFICES ASSUME NEW a \in m.hand, NEW b \in m.hand, NEW c \in m.hand,
                      Equal(a, b), Equal(b, c), a # b, b # c, a # c
               PROVE  FALSE
    BY DEF PairsOnly
  <2> DEFINE S == SameFace(C, a)
  <2>1. a \in C /\ b \in C /\ c \in C
    BY <1>2
  <2>2. {a, b, c} \subseteq S
    BY <2>1 DEF SameFace, Equal
  <2>3. Cardinality({a, b, c}) = 3
    BY ThreeCards
  <2>4. IsFiniteSet(S) /\ Cardinality(S) \in Nat
    BY CardsFinite DEF SameFace
  <2>5. Cardinality(S) >= 3
    <3>1. Cardinality({a, b, c}) <= Cardinality(S)
      BY <2>2, <2>4 DEF Facts, FS_Part
    <3> QED BY <3>1, <2>3, <2>4
  <2>6. Cardinality(S) <= 4
    <3>1. S \in SUBSET SameFace(Card, a) /\ IsFiniteSet(SameFace(Card, a))
      BY CardsFinite DEF SameFace
    <3> QED BY <2>1, <3>1, FourCopies DEF Facts, FS_Part
  <2>7. S \in FaceGroups(C, 3) \cup FaceGroups(C, 4)
    BY <2>1, <2>4, <2>5, <2>6 DEF FaceGroups
  <2>8. S \in G
    BY <2>7 DEF TidyTi, TidyKan
  <2> QED BY <1>2, <2>2, <2>8
<1>7. ThreesApart(m)
  BY <1>2 DEF ThreesApart, Melds, Rule
<1> QED BY <1>3, <1>5, <1>6, <1>7 DEF Tidy, m

-----------------------------------------------------------------------------
(* The groups that a card makes                                            *)

\* Groups of cards of the game with the card on the table
GroupsWith(card) == {g \in SUBSET Card : card \in g}

LEMMA PengGroups ==
    ASSUME NEW hand \in SUBSET Card, NEW card \in Card
    PROVE  Peng(hand, card) \subseteq GroupsWith(card)
BY DEF Peng, GroupsWith, SameFace

LEMMA TiPaoGroups ==
    ASSUME NEW groups \in SUBSET SUBSET Card, NEW card \in Card
    PROVE  TiPao(groups, card) \subseteq GroupsWith(card)
BY DEF TiPao, GroupsWith

\* The test for duplicates keeps some of the groups
LEMMA OnePerSumKeeps ==
    ASSUME NEW groups
    PROVE  OnePerSum(groups) \subseteq groups
<1> SUFFICES ASSUME NEW h \in groups
             PROVE  (CHOOSE g \in groups : FaceSum(g) = FaceSum(h)) \in groups
  BY DEF OnePerSum
<1> QED OBVIOUS

LEMMA findChiWithin ==
    ASSUME NEW S \in SUBSET Card
    PROVE  findChi(S) \subseteq SUBSET S
<1> DEFINE G == {{t[1], t[2], t[3]} : t \in {u \in S \X S \X S :
                  \/ Mixed(u[1], u[2], u[3])
                  \/ Run(u[1], u[2], u[3])
                  \/ TwoSevenTen(u[1], u[2], u[3])}}
<1>1. G \subseteq SUBSET S
  OBVIOUS
<1>2. findChi(S) = OnePerSum(G)
  BY DEF findChi
<1> QED BY <1>1, <1>2, OnePerSumKeeps

LEMMA ChiWithGroups ==
    ASSUME NEW S \in SUBSET Card, NEW card \in Card
    PROVE  /\ ChiWith(S, card) \subseteq GroupsWith(card)
           /\ \A g \in ChiWith(S, card) : \E a, b \in Card : g = {card, a, b}
BY DEF ChiWith, GroupsWith

\* A set of numbers that is not empty has a least one
LEMMA LeastNat ==
    ASSUME Facts, NEW T \in SUBSET Nat, T # {}
    PROVE  \E n \in T : \A k \in T : n <= k
BY DEF Facts, Nat_Least

\* findChi finds a first group when it finds any
LEMMA FirstChiFound ==
    ASSUME Facts, NEW S \in SUBSET Card, NEW card \in Card, ChiWith(S, card) # {}
    PROVE  FirstChi(S, card) \in ChiWith(S, card)
<1> DEFINE low(g) == Min({Value(c) : c \in g})
           G == ChiWith(S, card)
<1>1. ASSUME NEW g \in G PROVE low(g) \in 1..10
  <2>1. PICK a \in Card, b \in Card : g = {card, a, b}
    BY ChiWithGroups
  <2>2. Value(card) \in 1..10 /\ Value(a) \in 1..10 /\ Value(b) \in 1..10
    BY ValuesAssumption DEF Card, Value
  <2> DEFINE V == {Value(c) : c \in g}
  <2>3. V = {Value(card), Value(a), Value(b)}
    BY <2>1
  <2>4. V \in SUBSET Nat /\ V # {}
    BY <2>2, <2>3
  <2> HIDE DEF V
  <2>5. Min(V) \in V
    BY <2>4, LeastNat DEF Min
  <2> QED BY <2>2, <2>3, <2>5 DEF V
<1> HIDE DEF low, G
<1>2. \E g \in G : \A h \in G : low(g) <= low(h)
  <2> DEFINE N == {low(g) : g \in G}
  <2>1. N \in SUBSET Nat /\ N # {}
    BY <1>1 DEF G
  <2>2. \E n \in N : \A k \in N : n <= k
    BY <2>1, LeastNat
  <2> QED BY <2>2
<1>3. FirstChi(S, card) = CHOOSE g \in G : \A h \in G : low(g) <= low(h)
  BY DEF FirstChi, G, low
<1> QED BY <1>2, <1>3 DEF G

LEMMA DoubleChiGroups ==
    ASSUME Facts, NEW hand \in SUBSET Card, NEW card \in Card
    PROVE  DoubleChi(hand, card) \subseteq GroupsWith(card)
<1> SUFFICES ASSUME NEW v \in findChi(hand), ChiWith(hand \ v, card) # {}
             PROVE  v \cup FirstChi(hand \ v, card) \in GroupsWith(card)
  BY DEF DoubleChi
<1>1. v \in SUBSET Card
  BY findChiWithin
<1>2. hand \ v \in SUBSET Card
  OBVIOUS
<1>3. FirstChi(hand \ v, card) \in GroupsWith(card)
  BY <1>2, FirstChiFound, ChiWithGroups
<1> QED BY <1>1, <1>3 DEF GroupsWith

LEMMA ChiGroups ==
    ASSUME Facts, NEW hand \in SUBSET Card, NEW card \in Card
    PROVE  Chi(hand, card) \subseteq GroupsWith(card)
<1>1. CASE Cardinality(SameFace(hand, card)) = 2
  <2> DEFINE e == CHOOSE d \in SameFace(hand, card) : TRUE
  <2>1. SameFace(hand, card) # {}
    BY <1>1 DEF Facts, FS_Empty
  <2>2. e \in Card
    BY <2>1 DEF SameFace
  <2> HIDE DEF e
  <2>3. TripleChi(hand, card) =
          UNION {{v \cup w : w \in DoubleChi(hand \ (v \cup {e}), e)} :
                   v \in {u \in ChiWith(hand, card) : SameFace(hand, card) \cap u = {}}}
    BY DEF TripleChi, e
  <2>4. ASSUME NEW v \in ChiWith(hand, card), NEW w \in DoubleChi(hand \ (v \cup {e}), e)
        PROVE  v \cup w \in GroupsWith(card)
    <3>1. hand \ (v \cup {e}) \in SUBSET Card
      OBVIOUS
    <3>2. w \in GroupsWith(e)
      BY <2>2, <3>1, DoubleChiGroups
    <3> QED BY <3>2, ChiWithGroups DEF GroupsWith
  <2>5. ASSUME NEW x \in TripleChi(hand, card) PROVE x \in GroupsWith(card)
    <3>1. PICK v \in ChiWith(hand, card) : x \in {v \cup w : w \in DoubleChi(hand \ (v \cup {e}), e)}
      BY <2>3
    <3> QED BY <2>4, <3>1
  <2> QED BY <1>1, <2>5 DEF Chi
<1>2. CASE Cardinality(SameFace(hand, card)) # 2
  <2> DEFINE G == {g \in ChiWith(hand, card) : SameFace(hand, card) \subseteq g}
                    \cup DoubleChi(hand, card)
  <2>1. G \subseteq GroupsWith(card)
    BY ChiWithGroups, DoubleChiGroups
  <2>2. Chi(hand, card) = OnePerSum(G)
    BY <1>2 DEF Chi
  <2> QED BY <2>1, <2>2, OnePerSumKeeps
<1> QED BY <1>1, <1>2

\* The rules of the groups that a player is offered or made to lay
MyRules == {"Ti_kan", "Ti_wei", "Pao_peng", "Chi", "Wei", "Wei_chou"}
OtherRules == {"Peng", "Pao_kan", "Pao_wei", "Pao_peng", "Chi"}

LEMMA MyCardGroups ==
    ASSUME Facts, NEW m \in CardMgr, NEW card \in Card, NEW r \in Melds
    PROVE  /\ dispatchMyCard(m, card)[r] \subseteq GroupsWith(card)
           /\ dispatchMyCard(m, card)[r] # {} => r \in MyRules
<1>1. m.hand \in SUBSET Card /\ \A q \in Melds : m.show[q] \in SUBSET SUBSET Card
  BY DEF CardMgr
<1>2. Peng(m.hand, card) \subseteq GroupsWith(card) /\ Chi(m.hand, card) \subseteq GroupsWith(card)
  BY <1>1, PengGroups, ChiGroups
<1>3. \A q \in {"Kan", "Wei", "Peng"} : TiPao(m.show[q], card) \subseteq GroupsWith(card)
  BY <1>1, TiPaoGroups DEF Melds, Rule
<1> QED BY <1>2, <1>3 DEF dispatchMyCard, MyRules

LEMMA OtherCardGroups ==
    ASSUME Facts, NEW m \in CardMgr, NEW card \in Card, NEW sys, NEW r \in Melds
    PROVE  /\ dispatchOtherCard(m, card, sys)[r] \subseteq GroupsWith(card)
           /\ dispatchOtherCard(m, card, sys)[r] # {} => r \in OtherRules
<1>1. m.hand \in SUBSET Card /\ \A q \in Melds : m.show[q] \in SUBSET SUBSET Card
  BY DEF CardMgr
<1>2. Peng(m.hand, card) \subseteq GroupsWith(card) /\ Chi(m.hand, card) \subseteq GroupsWith(card)
  BY <1>1, PengGroups, ChiGroups
<1>3. \A q \in {"Kan", "Wei", "Peng"} : TiPao(m.show[q], card) \subseteq GroupsWith(card)
  BY <1>1, TiPaoGroups DEF Melds, Rule
<1> QED BY <1>2, <1>3 DEF dispatchOtherCard, OtherRules

-----------------------------------------------------------------------------
(* Taking a group back                                                     *)

LEMMA SameCards ==
    ASSUME NEW p \in CardMgr, NEW q \in CardMgr,
           p.hand = q.hand, p.ti = q.ti, p.kan = q.kan, p.show = q.show,
           p.single = q.single, p.hist = q.hist, p.chou = q.chou, p.wufu = q.wufu,
           p.want = q.want, p.pengSingle = q.pengSingle
    PROVE  p = q
BY DEF CardMgr

\* Appending and then dropping the last entry
LEMMA AppendUndone ==
    ASSUME Facts, NEW S, NEW s \in Seq(S), NEW e \in S
    PROVE  LET t == Append(s, e)
           IN  /\ t \in Seq(S) /\ Len(t) = Len(s) + 1 /\ t[Len(t)] = e
               /\ SubSeq(t, 1, Len(t) - 1) = s
<1> DEFINE t == Append(s, e)
           u == SubSeq(t, 1, Len(s))
<1>1. /\ t \in Seq(S) /\ Len(t) = Len(s) + 1 /\ t[Len(s) + 1] = e /\ Len(s) \in Nat
      /\ \A i \in 1..Len(s) : t[i] = s[i]
  BY DEF Facts, Seq_Append, Seq_Len
<1> HIDE DEF t
<1>2. \A i \in 1..Len(s) : t[i] \in S
  BY <1>1
<1>3. /\ u \in Seq(S) /\ Len(u) = Len(s)
      /\ \A i \in 1..Len(s) : u[i] = t[i]
  BY <1>1, <1>2 DEF Facts, Seq_Sub
<1>4. u = s
  BY <1>1, <1>3 DEF Facts, Seq_Equal
<1>5. Len(t) - 1 = Len(s)
  BY <1>1
<1> QED BY <1>1, <1>4, <1>5 DEF t

\* The entry of the history is the group that was laid
Entered(m, h, rule, cards) ==
    /\ Len(h) = Len(m.hist) + 1
    /\ \A i \in DOMAIN m.hist : h[i] = m.hist[i]
    /\ DOMAIN h = DOMAIN m.hist \cup {Len(h)}
    /\ h[Len(h)].payrule = rule /\ h[Len(h)].victrule = VictRule(rule)
    /\ h[Len(h)].cards = cards
    /\ SubSeq(h, 1, Len(h) - 1) = m.hist

LEMMA LastEntry ==
    ASSUME Facts, NEW m \in CardMgr, NEW rule \in Rule, NEW cards \in SUBSET Card
    PROVE  Entered(m, HistPaid(m, rule, cards), rule, cards)
<1> DEFINE E == [payrule : Rule, victrule : Rule, cards : SUBSET Card]
           e == [payrule |-> rule, victrule |-> VictRule(rule), cards |-> cards]
           h == Append(m.hist, e)
<1>1. m.hist \in Seq(E)
  BY DEF CardMgr
<1>2. e \in E
  BY DEF VictRule, Rule
<1>3. e.payrule = rule /\ e.victrule = VictRule(rule) /\ e.cards = cards
  OBVIOUS
<1> HIDE DEF E, e
<1>4. /\ h \in Seq(E) /\ Len(h) = Len(m.hist) + 1 /\ h[Len(h)] = e
      /\ SubSeq(h, 1, Len(h) - 1) = m.hist
  BY <1>1, <1>2, AppendUndone
<1>5. \A i \in 1..Len(m.hist) : h[i] = m.hist[i]
  BY <1>1, <1>2 DEF Facts, Seq_Append
<1>6. /\ Len(m.hist) \in Nat /\ DOMAIN m.hist = 1..Len(m.hist) /\ DOMAIN h = 1..Len(h)
  BY <1>1, <1>4 DEF Facts, Seq_Len
<1>7. DOMAIN h = DOMAIN m.hist \cup {Len(h)}
  BY <1>4, <1>6
<1>8. HistPaid(m, rule, cards) = h
  BY DEF HistPaid, e
<1> HIDE DEF h
<1> QED BY <1>3, <1>4, <1>5, <1>6, <1>7, <1>8 DEF Entered

\* popHistory undoes payCards, when the card on the table is nobody's yet
LEMMA PopUndoes ==
    ASSUME Facts, NEW m \in CardMgr, NEW rule \in FromHand \cup FromShow, NEW cards,
           NEW other \in Card, CanPay(m, rule, cards, other), other \notin Owned(m)
    PROVE  popHistory(payCards(m, rule, cards, other), other) = m
<1> DEFINE p == payCards(m, rule, cards, other)
           g == cards \cup {other}
           h == p.hist[Len(p.hist)]
           q == popHistory(p, other)
<1>1. m.show \in [Melds -> SUBSET SUBSET Card] /\ rule \in Melds /\ rule \in Rule
  BY RuleKinds DEF CardMgr, Melds
<1>2. g \notin m.show[rule]
  BY <1>1 DEF Owned, Shown
<1>3. p.hist = HistPaid(m, rule, cards) /\ p \in CardMgr /\ cards \in SUBSET Card
  <2>1. CASE rule \in FromHand
    <3>1. p.hist = HistPaid(m, rule, cards) /\ p \in CardMgr /\ cards \subseteq m.hand
      <4>1. HandPaid(m, p, rule, cards, other)
        BY <2>1, LaidFromHand
      <4> QED BY <4>1 DEF HandPaid
    <3> QED BY <3>1 DEF CardMgr
  <2>2. CASE rule \in FromShow
    <3>1. p.hist = HistPaid(m, rule, cards) /\ p \in CardMgr /\ cards \subseteq Card
      <4>1. ShowPaid(m, p, rule, cards, other)
        BY <2>2, LaidFromShow
      <4> QED BY <4>1 DEF ShowPaid
    <3> QED BY <3>1
  <2> QED BY <2>1, <2>2
<1>4. /\ h.payrule = rule /\ h.victrule = VictRule(rule) /\ h.cards = cards
      /\ SubSeq(p.hist, 1, Len(p.hist) - 1) = m.hist
  <2> HIDE DEF p
  <2>1. Entered(m, p.hist, rule, cards)
    BY <1>1, <1>3, LastEntry
  <2> QED BY <2>1 DEF Entered
<1>5. CASE rule \in FromHand
  <2>1. /\ cards \subseteq m.hand /\ p.hand = m.hand \ cards
        /\ p.show = [m.show EXCEPT ![rule] = @ \cup {g}]
        /\ p.ti = m.ti /\ p.kan = m.kan /\ p.single = m.single /\ p.chou = m.chou
        /\ p.wufu = m.wufu /\ p.want = m.want /\ p.pengSingle = m.pengSingle
    <3>1. HandPaid(m, p, rule, cards, other)
      BY <1>5, LaidFromHand
    <3> QED BY <3>1 DEF HandPaid
  <2>2. rule \notin FromShow /\ rule # "Kan" /\ rule # "Ti_zimo"
    BY <1>5, RuleKinds DEF Alone
  <2> HIDE DEF p, g, h
  <2>3. q = [p EXCEPT !.hist = m.hist, !.hand = p.hand \cup cards,
                      !.show = [p.show EXCEPT ![rule] = @ \ {g}]]
    BY <1>4, <1>5, <2>2 DEF popHistory, g, h
  <2>4. [p.show EXCEPT ![rule] = @ \ {g}] = m.show
    BY <1>1, <1>2, <2>1
  <2>5. p.hand \cup cards = m.hand
    BY <2>1
  <2>6. q = [p EXCEPT !.hist = m.hist, !.hand = m.hand, !.show = m.show]
    BY <2>3, <2>4, <2>5
  <2> HIDE DEF q
  <2>7. q \in CardMgr
    BY <1>3, <2>6 DEF CardMgr
  <2>8. /\ q.hist = m.hist /\ q.hand = m.hand /\ q.show = m.show
        /\ q.ti = m.ti /\ q.kan = m.kan /\ q.single = m.single /\ q.chou = m.chou
        /\ q.wufu = m.wufu /\ q.want = m.want /\ q.pengSingle = m.pengSingle
    BY <1>3, <2>1, <2>6 DEF CardMgr
  <2> QED BY <2>7, <2>8, SameCards DEF p, q
<1>6. CASE rule \in FromShow
  <2> DEFINE v == VictRule(rule)
  <2>1. /\ cards \in m.show[v] /\ p.hand = m.hand
        /\ p.show = [m.show EXCEPT ![v] = @ \ {cards}, ![rule] = @ \cup {g}]
        /\ p.ti = m.ti /\ p.kan = m.kan /\ p.single = m.single /\ p.chou = m.chou
        /\ p.wufu = m.wufu /\ p.want = m.want /\ p.pengSingle = m.pengSingle
    <3>1. ShowPaid(m, p, rule, cards, other)
      BY <1>6, LaidFromShow
    <3> QED BY <3>1 DEF ShowPaid
  <2>2. v \in Melds \ {rule} /\ rule \notin FromHand /\ rule # "Kan" /\ rule # "Ti_zimo"
    BY <1>6, RuleKinds DEF Melds, Rule, FromShow
  <2> HIDE DEF p, g, v, h
  <2>3. q = [p EXCEPT !.hist = m.hist, !.show = [p.show EXCEPT ![v] = @ \cup {cards},
                                                               ![rule] = @ \ {g}]]
    BY <1>4, <1>6, <2>2 DEF popHistory, g, v, h
  <2>4. [p.show EXCEPT ![v] = @ \cup {cards}, ![rule] = @ \ {g}] = m.show
    BY <1>1, <1>2, <2>1, <2>2, SMTT(20)
  <2>5. q = [p EXCEPT !.hist = m.hist, !.show = m.show]
    BY <2>3, <2>4
  <2> HIDE DEF q
  <2>6. q \in CardMgr
    BY <1>3, <2>5 DEF CardMgr
  <2>7. /\ q.hist = m.hist /\ q.hand = m.hand /\ q.show = m.show
        /\ q.ti = m.ti /\ q.kan = m.kan /\ q.single = m.single /\ q.chou = m.chou
        /\ q.wufu = m.wufu /\ q.want = m.want /\ q.pengSingle = m.pengSingle
    BY <1>3, <2>1, <2>5 DEF CardMgr
  <2> QED BY <2>6, <2>7, SameCards DEF p, q
<1> QED BY <1>5, <1>6

-----------------------------------------------------------------------------
(* What every payment leaves alone                                         *)

PaidKeeps(m, p, rule, cards) ==
    /\ p \in CardMgr /\ cards \in SUBSET Card
    /\ p.chou = m.chou /\ p.wufu = m.wufu /\ p.want = m.want
    /\ p.hist = HistPaid(m, rule, cards)
    /\ \A r \in {"Chi", "Ti_zimo"} : rule # r => p.show[r] = m.show[r]

LEMMA PayKeeps ==
    ASSUME NEW m \in CardMgr, NEW rule \in Rule, NEW cards, NEW other,
           CanPay(m, rule, cards, other), rule \in Alone \/ other \in Card
    PROVE  PaidKeeps(m, payCards(m, rule, cards, other), rule, cards)
<1> DEFINE p == payCards(m, rule, cards, other)
<1>1. /\ m.show \in [Melds -> SUBSET SUBSET Card] /\ m.hand \in SUBSET Card
      /\ m.kan \in SUBSET SUBSET Card /\ m.ti \in SUBSET SUBSET Card
      /\ "Chi" \in Melds /\ "Ti_zimo" \in Melds
  BY DEF CardMgr, Melds, Rule
<1>2. CASE rule \in FromHand
  <2>1. HandPaid(m, p, rule, cards, other)
    BY <1>2, RuleKinds, LaidFromHand
  <2> HIDE DEF p
  <2>2. \A r \in {"Chi", "Ti_zimo"} : rule # r => p.show[r] = m.show[r]
    BY <1>1, <2>1 DEF HandPaid
  <2>3. PaidKeeps(m, p, rule, cards)
    BY <1>1, <2>1, <2>2 DEF HandPaid, PaidKeeps
  <2> QED BY <2>3 DEF p
<1>3. CASE rule \in FromShow
  <2>1. ShowPaid(m, p, rule, cards, other)
    BY <1>3, RuleKinds, LaidFromShow
  <2>2. VictRule(rule) \in {"Kan", "Wei", "Peng"}
    BY <1>3, RuleKinds
  <2> HIDE DEF p
  <2>3. \A r \in {"Chi", "Ti_zimo"} : rule # r => p.show[r] = m.show[r]
    BY <1>1, <2>1, <2>2 DEF ShowPaid
  <2>4. PaidKeeps(m, p, rule, cards)
    BY <1>1, <2>1, <2>3 DEF ShowPaid, PaidKeeps
  <2> QED BY <2>4 DEF p
<1>4. CASE rule = "Kan"
  <2>1. KanPaid(m, p, cards)
    BY <1>4, LaidKan
  <2> HIDE DEF p
  <2>2. PaidKeeps(m, p, rule, cards)
    BY <1>1, <1>4, <2>1 DEF KanPaid, PaidKeeps
  <2> QED BY <2>2 DEF p
<1>5. CASE rule = "Ti_zimo"
  <2>1. TiPaid(m, p, cards)
    BY <1>5, LaidTi
  <2> HIDE DEF p
  <2>2. PaidKeeps(m, p, rule, cards)
    BY <1>1, <1>5, <2>1 DEF TiPaid, PaidKeeps
  <2> QED BY <2>2 DEF p
<1>6. CASE rule = "None"
  <2>1. SinglePaid(m, p, cards)
    BY <1>6, LaidSingle
  <2> HIDE DEF p
  <2>2. PaidKeeps(m, p, rule, cards)
    BY <1>1, <1>6, <2>1 DEF SinglePaid, PaidKeeps
  <2> QED BY <2>2 DEF p
<1>7. rule # "Ti"
  BY DEF CanPay, FromShow
<1> QED BY <1>2, <1>3, <1>4, <1>5, <1>6, <1>7, RuleKinds DEF Alone

-----------------------------------------------------------------------------
(* Groups of four                                                          *)

FourShown(m) == UNION {m.show[r] : r \in FourRules}

LEMMA FourFinite ==
    ASSUME Facts, NEW m \in CardMgr
    PROVE  /\ IsFiniteSet(FourShown(m)) /\ Quads(m) \in Nat
           /\ IsFiniteSet(m.show["Ti_zimo"]) /\ Cardinality(m.show["Ti_zimo"]) \in Nat
<1>1. FourShown(m) \in SUBSET SUBSET Card /\ m.show["Ti_zimo"] \in SUBSET SUBSET Card
  BY DEF FourShown, FourRules, CardMgr, Melds, Rule
<1>2. IsFiniteSet(SUBSET Card)
  BY CardFinite DEF Facts, FS_Parts
<1> QED BY <1>1, <1>2 DEF Facts, FS_Part, FS_Nat, Quads, FourShown

\* Completing a triple adds a group of four, any other group does not
LEMMA QuadsAfterMeld ==
    ASSUME Facts, NEW m \in CardMgr, NEW rule \in FromHand \cup FromShow, NEW cards,
           NEW other \in Card, CanPay(m, rule, cards, other), other \notin Owned(m)
    PROVE  Quads(payCards(m, rule, cards, other)) =
              IF rule \in FourRules THEN Quads(m) + 1 ELSE Quads(m)
<1> DEFINE p == payCards(m, rule, cards, other)
           g == cards \cup {other}
<1>1. m.show \in [Melds -> SUBSET SUBSET Card] /\ FourRules \subseteq Melds
  BY DEF CardMgr, FourRules, Melds, Rule
<1>2. g \notin FourShown(m)
  BY <1>1 DEF FourShown, Owned, Shown
<1>3. CASE rule \in FromHand
  <2>1. HandPaid(m, p, rule, cards, other)
    BY <1>3, LaidFromHand
  <2>2. rule \notin FourRules
    BY <1>3 DEF FromHand, FourRules
  <2> HIDE DEF p
  <2>3. \A r \in FourRules : p.show[r] = m.show[r]
    BY <1>1, <2>1, <2>2 DEF HandPaid
  <2>4. Quads(p) = Quads(m)
    BY <2>3 DEF Quads
  <2> QED BY <2>2, <2>4 DEF p
<1>4. CASE rule \in FromShow
  <2>1. ShowPaid(m, p, rule, cards, other)
    BY <1>4, LaidFromShow
  <2>2. rule \in FourRules /\ VictRule(rule) \notin FourRules
    BY <1>4, RuleKinds DEF FromShow, FourRules
  <2> HIDE DEF p, g
  <2>3. \A r \in FourRules : p.show[r] = IF r = rule THEN m.show[r] \cup {g} ELSE m.show[r]
    BY <1>1, <2>1, <2>2 DEF ShowPaid, g
  <2>4. FourShown(p) = FourShown(m) \cup {g}
    BY <2>2, <2>3 DEF FourShown
  <2>5. Cardinality(FourShown(m) \cup {g}) = Cardinality(FourShown(m)) + 1
    BY <1>2, FourFinite DEF Facts, FS_Add
  <2>6. Quads(p) = Quads(m) + 1
    BY <2>4, <2>5 DEF Quads, FourShown
  <2> QED BY <2>2, <2>6 DEF p
<1> QED BY <1>3, <1>4

-----------------------------------------------------------------------------
(* What is offered can be laid                                             *)

\* The two cards of a Peng are in the hand
LEMMA PengPayable ==
    ASSUME Facts, NEW hand \in SUBSET Card, NEW card \in Card, card \notin hand,
           NEW g \in Peng(hand, card)
    PROVE  /\ g \ {card} \subseteq SameFace(hand, card)
           /\ Cardinality(g \ {card}) = 2
           /\ OneFace((g \ {card}) \cup {card})
<1>1. PICK p \in {q \in SameFace(hand, card) \X SameFace(hand, card) : q[1] # q[2]} :
         g = {p[1], p[2], card}
  BY DEF Peng
<1>2. PICK a \in SameFace(hand, card), b \in SameFace(hand, card) :
         a # b /\ g = {a, b, card}
  BY <1>1
<1>3. /\ a \in hand /\ b \in hand /\ a # card /\ b # card
      /\ Equal(a, card) /\ Equal(b, card)
  BY <1>2 DEF SameFace
<1>4. g \ {card} = {a, b}
  BY <1>2, <1>3
<1>5. Cardinality({a, b}) = 2
  BY <1>2, TwoCards
<1>6. OneFace({a, b} \cup {card})
  BY <1>3 DEF OneFace, Equal
<1> QED BY <1>2, <1>4, <1>5, <1>6

\* The cards a group that may be eaten takes from the hand, at least two
EatPayable(hand, card, g) ==
    g \ {card} \subseteq hand /\ \E a, b \in g \ {card} : a # b

LEMMA ChiWithPayable ==
    ASSUME NEW S \in SUBSET Card, NEW card \in Card, card \notin S,
           NEW g \in ChiWith(S, card)
    PROVE  EatPayable(S, card, g)
<1>1. PICK p \in S \X S : /\ g = {card, p[1], p[2]}
                          /\ \/ Mixed(card, p[1], p[2])
                             \/ Run(card, p[1], p[2]) \/ Run(p[1], card, p[2])
                             \/ Run(p[1], p[2], card)
                             \/ TwoSevenTen(card, p[1], p[2])
                             \/ TwoSevenTen(p[1], card, p[2])
                             \/ TwoSevenTen(p[1], p[2], card)
  BY DEF ChiWith
<1>2. PICK a \in S, b \in S : /\ g = {card, a, b}
                              /\ \/ Mixed(card, a, b)
                                 \/ Run(card, a, b) \/ Run(a, card, b) \/ Run(a, b, card)
                                 \/ TwoSevenTen(card, a, b) \/ TwoSevenTen(a, card, b)
                                 \/ TwoSevenTen(a, b, card)
  BY <1>1
<1>3. Value(a) \in 1..10 /\ Value(b) \in 1..10 /\ Value(card) \in 1..10
  BY <1>2, ValuesAssumption DEF Value, Card
<1>4. a # b
  BY <1>2, <1>3 DEF Mixed, Run, TwoSevenTen
<1>5. a # card /\ b # card
  OBVIOUS
<1> QED BY <1>2, <1>4, <1>5 DEF EatPayable

LEMMA DoubleChiPayable ==
    ASSUME Facts, NEW hand \in SUBSET Card, NEW card \in Card, card \notin hand,
           NEW g \in DoubleChi(hand, card)
    PROVE  EatPayable(hand, card, g)
<1>1. PICK v \in findChi(hand) : /\ g = v \cup FirstChi(hand \ v, card)
                                 /\ ChiWith(hand \ v, card) # {}
  BY DEF DoubleChi
<1>2. v \subseteq hand
  BY <1>1, findChiWithin
<1>3. FirstChi(hand \ v, card) \in ChiWith(hand \ v, card)
  BY <1>1, FirstChiFound
<1>4. EatPayable(hand \ v, card, FirstChi(hand \ v, card))
  BY <1>3, ChiWithPayable
<1> QED BY <1>1, <1>2, <1>4 DEF EatPayable

LEMMA ChiPayable ==
    ASSUME Facts, NEW hand \in SUBSET Card, NEW card \in Card, card \notin hand,
           NEW g \in Chi(hand, card)
    PROVE  g \ {card} \subseteq hand /\ Cardinality(g \ {card}) >= 2
<1>1. EatPayable(hand, card, g)
  <2>1. CASE Cardinality(SameFace(hand, card)) = 2
    <3> DEFINE e == CHOOSE d \in SameFace(hand, card) : TRUE
    <3>1. g \in TripleChi(hand, card)
      BY <2>1 DEF Chi
    <3>a. g \in UNION {{v \cup w : w \in DoubleChi(hand \ (v \cup {e}), e)} :
                    v \in {u \in ChiWith(hand, card) : SameFace(hand, card) \cap u = {}}}
      BY <3>1 DEF TripleChi
    <3>b. PICK v \in {u \in ChiWith(hand, card) : SameFace(hand, card) \cap u = {}} :
             g \in {v \cup w : w \in DoubleChi(hand \ (v \cup {e}), e)}
      BY <3>a
    <3>2. PICK w \in DoubleChi(hand \ (v \cup {e}), e) :
             v \in ChiWith(hand, card) /\ SameFace(hand, card) \cap v = {} /\ g = v \cup w
      BY <3>b
    <3>3. SameFace(hand, card) # {}
      BY <2>1 DEF Facts, FS_Empty
    <3>4. e \in hand
      BY <3>3 DEF SameFace
    <3> HIDE DEF e
    <3>5. EatPayable(hand, card, v)
      BY <3>2, ChiWithPayable
    <3>6. EatPayable(hand \ (v \cup {e}), e, w)
      <4>1. hand \ (v \cup {e}) \in SUBSET Card /\ e \in Card /\ e \notin hand \ (v \cup {e})
        BY <3>4
      <4> QED BY <3>2, <4>1, DoubleChiPayable
    <3> QED BY <3>2, <3>4, <3>5, <3>6 DEF EatPayable
  <2>2. CASE Cardinality(SameFace(hand, card)) # 2
    <3>1. g \in ChiWith(hand, card) \cup DoubleChi(hand, card)
      <4>1. g \in OnePerSum({h \in ChiWith(hand, card) : SameFace(hand, card) \subseteq h}
                              \cup DoubleChi(hand, card))
        BY <2>2 DEF Chi
      <4> QED BY <4>1, OnePerSumKeeps
    <3> QED BY <3>1, ChiWithPayable, DoubleChiPayable
  <2> QED BY <2>1, <2>2
<1>2. PICK a \in g \ {card}, b \in g \ {card} : a # b
  BY <1>1 DEF EatPayable
<1>3. g \ {card} \in SUBSET Card
  BY <1>1 DEF EatPayable
<1>4. Cardinality({a, b}) = 2 /\ IsFiniteSet({a, b})
  BY <1>2, TwoCards
<1>5. Cardinality({a, b}) <= Cardinality(g \ {card})
  BY <1>2, <1>3, CardsFinite DEF Facts, FS_Part
<1>6. Cardinality(g \ {card}) \in Nat
  BY <1>3, CardsFinite
<1> QED BY <1>1, <1>4, <1>5, <1>6 DEF EatPayable

-----------------------------------------------------------------------------
(* The groups that are laid by force                                       *)

Forced == FromShow \cup {"Wei", "Wei_chou"}

LEMMA TwoIn ==
    ASSUME Facts, NEW S, Cardinality(S) = 2
    PROVE  \E a, b \in S : a # b
<1>1. S # {}
  BY DEF Facts, FS_Empty
<1>2. PICK a \in S : TRUE
  BY <1>1
<1>3. S # {a}
  BY DEF Facts, FS_One
<1> QED BY <1>2, <1>3

\* The other three cards of a face
Others(card) == SameFace(Card, card) \ {card}

LEMMA ThreeOthers ==
    ASSUME Facts, NEW card \in Card
    PROVE  IsFiniteSet(Others(card)) /\ Cardinality(Others(card)) = 3
<1> DEFINE F == SameFace(Card, card)
<1>1. F \in SUBSET Card /\ card \in F
  BY DEF SameFace, Equal
<1>2. Cardinality(F) = 4
  BY FourCopies
<1>3. IsFiniteSet(F)
  BY <1>1, CardsFinite
<1> HIDE DEF F
<1>4. IsFiniteSet(F \ {card}) /\ Cardinality(F \ {card}) = Cardinality(F) - 1
  BY <1>1, <1>3 DEF Facts, FS_Remove
<1> QED BY <1>2, <1>4 DEF Others, F

\* The cards that a forced group takes are of the face of the card on the
\* table: two of the hand, or all three of the others, in a triple
ForcedFrom(m, rule, cards, card) ==
    /\ cards # {}
    /\ rule \in FromShow => cards = Others(card) /\ cards \in m.show[VictRule(rule)]
                            /\ cards \subseteq UNION Shown(m)
    /\ rule \notin FromShow => cards = SameFace(m.hand, card) /\ cards \subseteq Others(card)

LEMMA ForcedGroups ==
    ASSUME Facts, NEW m \in CardMgr, NEW rule \in Forced, NEW cards, NEW card \in Card,
           CanPay(m, rule, cards, card), Tidy(m), card \notin Owned(m)
    PROVE  ForcedFrom(m, rule, cards, card)
<1>0. m.hand \in SUBSET Card /\ m.show \in [Melds -> SUBSET SUBSET Card]
  BY DEF CardMgr
<1>1. CASE rule \in FromShow
  <2>1. /\ Cardinality(cards) = 3 /\ cards \in m.show[VictRule(rule)]
        /\ OneFace(cards \cup {card})
    BY <1>1 DEF CanPay, FromShow
  <2>2. VictRule(rule) \in Melds
    BY <1>1, RuleKinds DEF Melds, Rule
  <2>3. cards \in SUBSET Card /\ cards \in Shown(m)
    BY <1>0, <2>1, <2>2 DEF Shown
  <2>4. card \notin cards
    BY <2>3 DEF Owned
  <2>5. cards \subseteq Others(card)
    BY <2>1, <2>3, <2>4 DEF Others, SameFace, OneFace
  <2>6. cards = Others(card)
    BY <2>1, <2>5, ThreeOthers DEF Facts, FS_Part
  <2>7. cards # {}
    BY <2>1 DEF Facts, FS_Empty
  <2> QED BY <1>1, <2>1, <2>3, <2>6, <2>7 DEF ForcedFrom
<1>2. CASE rule \notin FromShow
  <2>1. rule \in {"Wei", "Wei_chou"}
    BY <1>2 DEF Forced
  <2>2. Cardinality(cards) = 2 /\ cards \subseteq m.hand /\ OneFace(cards \cup {card})
    BY <2>1 DEF CanPay, FromShow
  <2>3. cards \subseteq SameFace(m.hand, card)
    BY <2>2 DEF SameFace, OneFace
  <2>4. PICK a \in cards, b \in cards : a # b
    BY <2>2, TwoIn
  <2>5. ASSUME NEW z \in SameFace(m.hand, card), z \notin cards
        PROVE  FALSE
    <3>1. Equal(a, b) /\ Equal(b, z) /\ z \in m.hand /\ a \in m.hand /\ b \in m.hand
      BY <2>3, <2>4, <2>5 DEF SameFace, Equal
    <3> QED BY <2>4, <2>5, <3>1 DEF Tidy, PairsOnly
  <2>6. cards = SameFace(m.hand, card)
    BY <2>3, <2>5
  <2>7. card \notin m.hand
    BY DEF Owned
  <2>8. cards \subseteq Others(card)
    BY <1>0, <2>3, <2>7 DEF Others, SameFace
  <2> QED BY <1>2, <2>4, <2>6, <2>8 DEF ForcedFrom
<1> QED BY <1>1, <1>2

\* Two forced groups of one player take the same cards, from one list
LEMMA ForcedOnce ==
    ASSUME Facts, NEW m \in CardMgr, NEW r \in Forced, NEW c, NEW q \in Forced, NEW d,
           NEW card \in Card, CanPay(m, r, c, card), CanPay(m, q, d, card),
           Tidy(m), card \notin Owned(m)
    PROVE  /\ c = d
           /\ r \in FromShow <=> q \in FromShow
           /\ r \in FromShow => VictRule(r) = VictRule(q)
<1>1. ForcedFrom(m, r, c, card) /\ ForcedFrom(m, q, d, card)
  BY ForcedGroups
<1>2. /\ m.hand \cap UNION Shown(m) = {}
      /\ m.show["Kan"] \cap m.show["Wei"] = {} /\ m.show["Kan"] \cap m.show["Peng"] = {}
      /\ m.show["Wei"] \cap m.show["Peng"] = {}
  BY DEF Tidy, HandApart, ThreesApart
<1>3. CASE r \in FromShow /\ q \in FromShow
  <2>1. VictRule(r) \in {"Kan", "Wei", "Peng"} /\ VictRule(q) \in {"Kan", "Wei", "Peng"}
    BY <1>3, RuleKinds
  <2> QED BY <1>1, <1>2, <1>3, <2>1 DEF ForcedFrom
<1>4. CASE r \in FromShow /\ q \notin FromShow
  BY <1>1, <1>2, <1>4 DEF ForcedFrom, SameFace
<1>5. CASE r \notin FromShow /\ q \in FromShow
  BY <1>1, <1>2, <1>5 DEF ForcedFrom, SameFace
<1>6. CASE r \notin FromShow /\ q \notin FromShow
  BY <1>1, <1>6 DEF ForcedFrom
<1> QED BY <1>3, <1>4, <1>5, <1>6

\* Two players do not both have a forced group, unless both had a Wei
LEMMA ForcedApart ==
    ASSUME Facts, NEW m \in CardMgr, NEW n \in CardMgr, NEW r \in Forced, NEW c,
           NEW q \in Forced, NEW d, NEW card \in Card,
           CanPay(m, r, c, card), CanPay(n, q, d, card),
           Tidy(m), Tidy(n), card \notin Owned(m), card \notin Owned(n),
           Owned(m) \cap Owned(n) = {}
    PROVE  r \notin FromShow /\ q \notin FromShow
<1>1. ForcedFrom(m, r, c, card) /\ ForcedFrom(n, q, d, card)
  BY ForcedGroups
<1>2. c \subseteq Owned(m) /\ d \subseteq Owned(n) /\ c # {} /\ d # {}
  BY <1>1 DEF ForcedFrom, Owned, SameFace
<1>3. c \subseteq Others(card) /\ d \subseteq Others(card)
  BY <1>1 DEF ForcedFrom
<1> QED BY <1>1, <1>2, <1>3 DEF ForcedFrom

-----------------------------------------------------------------------------
(* What the steps of a table do to the cards of a player                   *)

\* The groups that a player may not eat: a face that they discarded is in
\* choupaid, and no group eaten after a discard has its face
DiscardsKept(m) ==
    \A i \in DOMAIN m.hist : m.hist[i].payrule = "None" =>
        \A c \in m.hist[i].cards : FaceOf(c) \in m.chou["Chi"]
NeverAte(m) ==
    \A i, j \in DOMAIN m.hist :
        i < j /\ m.hist[i].payrule = "None" /\ m.hist[j].payrule = "Chi" =>
            \A c \in m.hist[i].cards, f \in m.hist[j].cards : ~ Equal(c, f)

\* A group with the card on the table
Melded(m, p, rule, cards, card) ==
    /\ p \in CardMgr /\ cards \in SUBSET Card
    /\ Owned(p) = Owned(m) \cup {card} /\ Tidy(p)
    /\ m.chou["Chi"] \subseteq p.chou["Chi"] /\ p.wufu = m.wufu
    /\ Entered(m, p.hist, rule, cards)
    /\ rule # "Chi" => p.show["Chi"] = m.show["Chi"]
    /\ p.show["Ti_zimo"] = m.show["Ti_zimo"]
    /\ Quads(p) = IF rule \in FourRules THEN Quads(m) + 1 ELSE Quads(m)

LEMMA MeldEffect ==
    ASSUME Facts, NEW m \in CardMgr, NEW rule \in FromHand \cup FromShow, NEW cards,
           NEW card \in Card, CanPay(m, rule, cards, card), Tidy(m), card \notin Owned(m)
    PROVE  Melded(m, payCards(m, rule, cards, card), rule, cards, card)
<1> DEFINE p == payCards(m, rule, cards, card)
<1>0. rule \in Rule /\ rule # "Ti_zimo"
  BY RuleKinds DEF Alone
<1>1. PaidKeeps(m, p, rule, cards)
  BY <1>0, PayKeeps
<1>2. Owned(p) = Owned(m) \cup {card}
  BY OwnedAfterMeld
<1>3. Tidy(p)
  BY TidyAfterMeld
<1>4. Quads(p) = IF rule \in FourRules THEN Quads(m) + 1 ELSE Quads(m)
  BY QuadsAfterMeld
<1> HIDE DEF p
<1>5. cards \in SUBSET Card /\ p.hist = HistPaid(m, rule, cards)
  BY <1>1 DEF PaidKeeps
<1>6. Entered(m, p.hist, rule, cards)
  BY <1>0, <1>5, LastEntry
<1>7. Melded(m, p, rule, cards, card)
  BY <1>0, <1>1, <1>2, <1>3, <1>4, <1>5, <1>6 DEF Melded, PaidKeeps
<1> QED BY <1>7 DEF p

\* A group that was dealt
DealtLaid(m, p, rule, cards) ==
    /\ p \in CardMgr /\ cards \in SUBSET Card /\ cards # {}
    /\ Owned(p) = Owned(m) /\ Tidy(p)
    /\ m.chou["Chi"] \subseteq p.chou["Chi"] /\ p.wufu = m.wufu
    /\ Entered(m, p.hist, rule, cards)
    /\ \A r \in Melds \ {"Ti_zimo", "Kan"} : p.show[r] = m.show[r]
    /\ m.show["Ti_zimo"] \subseteq p.show["Ti_zimo"]

LEMMA DealtEffect ==
    ASSUME Facts, NEW m \in CardMgr, NEW rule \in {"Kan", "Ti_zimo"}, NEW cards, NEW other,
           CanPay(m, rule, cards, other), Tidy(m)
    PROVE  DealtLaid(m, payCards(m, rule, cards, other), rule, cards)
<1> DEFINE p == payCards(m, rule, cards, other)
<1>0. rule \in Rule /\ rule \in Alone
  BY DEF Rule, Alone
<1>1. PaidKeeps(m, p, rule, cards)
  BY <1>0, PayKeeps
<1>2. Owned(p) = Owned(m)
  BY OwnedAfterDealt
<1>3. Tidy(p)
  BY <1>0, TidyAfterAlone
<1>4. /\ \A r \in Melds \ {"Ti_zimo", "Kan"} : p.show[r] = m.show[r]
      /\ m.show["Ti_zimo"] \subseteq p.show["Ti_zimo"]
  <2>0. m.show \in [Melds -> SUBSET SUBSET Card] /\ "Ti_zimo" \in Melds /\ "Kan" \in Melds
    BY DEF CardMgr, Melds, Rule
  <2>1. CASE rule = "Kan"
    <3>1. KanPaid(m, p, cards)
      BY <2>1, LaidKan
    <3> HIDE DEF p
    <3> QED BY <2>0, <3>1 DEF KanPaid
  <2>2. CASE rule = "Ti_zimo"
    <3>1. TiPaid(m, p, cards)
      BY <2>2, LaidTi
    <3> HIDE DEF p
    <3> QED BY <2>0, <3>1 DEF TiPaid
  <2> QED BY <2>1, <2>2
<1>5. cards # {}
  <2>1. Cardinality(cards) # 0
    <3>1. CASE rule = "Kan"
      <4>1. CanPay(m, "Kan", cards, other)
        BY <3>1
      <4> QED BY <4>1 DEF CanPay, FromShow
    <3>2. CASE rule = "Ti_zimo"
      <4>1. CanPay(m, "Ti_zimo", cards, other)
        BY <3>2
      <4> QED BY <4>1 DEF CanPay, FromShow
    <3> QED BY <3>1, <3>2
  <2> QED BY <2>1 DEF Facts, FS_Empty
<1> HIDE DEF p
<1>6. cards \in SUBSET Card /\ p.hist = HistPaid(m, rule, cards)
  BY <1>1 DEF PaidKeeps
<1>7. Entered(m, p.hist, rule, cards)
  BY <1>0, <1>6, LastEntry
<1>8. DealtLaid(m, p, rule, cards)
  BY <1>1, <1>2, <1>3, <1>4, <1>5, <1>6, <1>7 DEF DealtLaid, PaidKeeps
<1> QED BY <1>8 DEF p

\* A discard, with its face put into choupaid
Discarded(m, p, c) ==
    /\ p \in CardMgr /\ c \in Card /\ c \in Owned(m)
    /\ Owned(p) = Owned(m) \ {c} /\ Tidy(p)
    /\ p.chou["Chi"] = m.chou["Chi"] \cup {FaceOf(c)} /\ p.wufu = m.wufu
    /\ Entered(m, p.hist, "None", {c}) /\ p.show = m.show

LEMMA DiscardEffect ==
    ASSUME Facts, NEW m \in CardMgr, NEW c, NEW other, CanPay(m, "None", {c}, other), Tidy(m)
    PROVE  Discarded(m, choupai(payCards(m, "None", {c}, other), "Chi", c), c)
<1> DEFINE q == payCards(m, "None", {c}, other)
           p == choupai(q, "Chi", c)
<1>1. SinglePaid(m, q, {c})
  BY LaidSingle
<1>2. c \in Owned(m) /\ Owned(q) = Owned(m) \ {c}
  BY OwnedAfterDiscard DEF Tidy
<1>3. Tidy(q)
  BY TidyAfterAlone DEF Alone
<1> HIDE DEF q
<1>4. q \in CardMgr /\ q.hist = HistPaid(m, "None", {c}) /\ {c} \subseteq m.hand
  BY <1>1 DEF SinglePaid
<1>5. c \in Card
  BY <1>4 DEF CardMgr
<1>6. q.chou \in [{"Chi", "Peng"} -> SUBSET Face] /\ FaceOf(c) \in Face
  BY <1>4, <1>5 DEF CardMgr, FaceOf, Face, Card
<1>7. p = [q EXCEPT !.chou = [q.chou EXCEPT !["Chi"] = @ \cup {FaceOf(c)}]]
  BY <1>4 DEF choupai, CardMgr
<1>8. [q.chou EXCEPT !["Chi"] = @ \cup {FaceOf(c)}] \in [{"Chi", "Peng"} -> SUBSET Face]
  BY <1>6
<1>9. p \in CardMgr
  BY <1>4, <1>7, <1>8 DEF CardMgr
<1>10. /\ p.hand = q.hand /\ p.ti = q.ti /\ p.kan = q.kan /\ p.show = q.show
       /\ p.hist = q.hist /\ p.wufu = q.wufu
       /\ p.chou = [q.chou EXCEPT !["Chi"] = @ \cup {FaceOf(c)}]
  BY <1>4, <1>7 DEF CardMgr
<1> HIDE DEF p
<1>11. Owned(p) = Owned(q) /\ Tidy(p)
  BY <1>3, <1>10, SMTT(20) DEF Owned, Shown, Tidy, HandApart, PairsOnly, ThreesApart
<1>12. Entered(m, HistPaid(m, "None", {c}), "None", {c})
  <2>1. "None" \in Rule /\ {c} \in SUBSET Card
    BY <1>5 DEF Rule
  <2> QED BY <2>1, LastEntry
<1>13. p.chou["Chi"] = m.chou["Chi"] \cup {FaceOf(c)}
  BY <1>1, <1>6, <1>10 DEF SinglePaid
<1>14. Discarded(m, p, c)
  BY <1>1, <1>2, <1>4, <1>5, <1>9, <1>10, <1>11, <1>12, <1>13 DEF Discarded, SinglePaid
<1> QED BY <1>14 DEF p, q

\* The cards stay where they are, and no face leaves choupaid
SameHand(m, p) ==
    /\ p \in CardMgr
    /\ p.hand = m.hand /\ p.ti = m.ti /\ p.kan = m.kan /\ p.show = m.show
    /\ p.hist = m.hist /\ m.chou["Chi"] \subseteq p.chou["Chi"]

LEMMA SameHandKeeps ==
    ASSUME NEW m \in CardMgr, NEW p, SameHand(m, p)
    PROVE  /\ Owned(p) = Owned(m) /\ Quads(p) = Quads(m)
           /\ Tidy(m) => Tidy(p)
           /\ DiscardsKept(m) => DiscardsKept(p)
           /\ NeverAte(m) => NeverAte(p)
           /\ \A rule, cards, card : CanPay(p, rule, cards, card) = CanPay(m, rule, cards, card)
<1>1. Owned(p) = Owned(m) /\ Quads(p) = Quads(m)
  BY DEF SameHand, Owned, Shown, Quads
<1>2. Tidy(m) => Tidy(p)
  BY DEF SameHand, Tidy, HandApart, PairsOnly, ThreesApart, Shown
<1>3. DiscardsKept(m) => DiscardsKept(p)
  BY DEF SameHand, DiscardsKept
<1>4. NeverAte(m) => NeverAte(p)
  BY DEF SameHand, NeverAte
<1>5. \A rule, cards, card : CanPay(p, rule, cards, card) = CanPay(m, rule, cards, card)
  BY DEF SameHand, CanPay
<1> QED BY <1>1, <1>2, <1>3, <1>4, <1>5

LEMMA WufuEffect ==
    ASSUME NEW m \in CardMgr, NEW b \in BOOLEAN
    PROVE  SameHand(m, neverWufuBaojing(m, b))
BY DEF SameHand, neverWufuBaojing, CardMgr

\* A group that is not eaten, or is eaten without a face given up
LEMMA HistoryAfter ==
    ASSUME NEW m \in CardMgr, NEW p, NEW rule, NEW cards,
           m.chou["Chi"] \subseteq p.chou["Chi"], Entered(m, p.hist, rule, cards),
           rule # "None", DiscardsKept(m), NeverAte(m),
           rule = "Chi" => \A c \in cards : FaceOf(c) \notin m.chou["Chi"]
    PROVE  DiscardsKept(p) /\ NeverAte(p)
<1> DEFINE n == Len(m.hist) + 1
           h == p.hist
<1>0. m.hist \in Seq([payrule : Rule, victrule : Rule, cards : SUBSET Card])
  BY DEF CardMgr
<1>1. DOMAIN m.hist = 1..Len(m.hist) /\ Len(m.hist) \in Nat
  BY <1>0, SMTT(20)
<1>2. /\ DOMAIN h = DOMAIN m.hist \cup {n}
      /\ \A i \in DOMAIN m.hist : h[i] = m.hist[i]
      /\ h[n].payrule = rule /\ h[n].cards = cards
  BY DEF Entered
<1>3. DiscardsKept(p)
  BY <1>2 DEF DiscardsKept
<1>4. NeverAte(p)
  <2> SUFFICES ASSUME NEW i \in DOMAIN h, NEW j \in DOMAIN h, i < j,
                      h[i].payrule = "None", h[j].payrule = "Chi",
                      NEW c \in h[i].cards, NEW f \in h[j].cards, Equal(c, f)
               PROVE  FALSE
    BY DEF NeverAte
  <2>1. i \in DOMAIN m.hist
    BY <1>1, <1>2
  <2>2. CASE j \in DOMAIN m.hist
    BY <1>2, <2>1, <2>2 DEF NeverAte
  <2>3. CASE j = n
    <3>1. FaceOf(c) \in m.chou["Chi"]
      BY <1>2, <2>1 DEF DiscardsKept
    <3>2. FaceOf(f) = FaceOf(c)
      BY DEF FaceOf, Equal, Value, Capital
    <3> QED BY <1>2, <2>3, <3>1, <3>2
  <2> QED BY <1>2, <2>2, <2>3
<1> QED BY <1>3, <1>4

LEMMA HistoryAfterDiscard ==
    ASSUME NEW m \in CardMgr, NEW p, NEW c, Discarded(m, p, c), DiscardsKept(m), NeverAte(m)
    PROVE  DiscardsKept(p) /\ NeverAte(p)
<1> DEFINE n == Len(m.hist) + 1
           h == p.hist
<1>0. m.hist \in Seq([payrule : Rule, victrule : Rule, cards : SUBSET Card])
  BY DEF CardMgr
<1>1. DOMAIN m.hist = 1..Len(m.hist) /\ Len(m.hist) \in Nat
  BY <1>0, SMTT(20)
<1>2. /\ DOMAIN h = DOMAIN m.hist \cup {n}
      /\ \A i \in DOMAIN m.hist : h[i] = m.hist[i]
      /\ h[n].payrule = "None" /\ h[n].cards = {c}
  BY DEF Entered, Discarded
<1>3. p.chou["Chi"] = m.chou["Chi"] \cup {FaceOf(c)}
  BY DEF Discarded
<1>4. DiscardsKept(p)
  BY <1>2, <1>3 DEF DiscardsKept
<1>5. NeverAte(p)
  BY <1>1, <1>2 DEF NeverAte
<1> QED BY <1>4, <1>5

\* A group that is laid after faces were passed on
LEMMA MeldedThrough ==
    ASSUME NEW m \in CardMgr, NEW q, NEW p, NEW rule, NEW cards, NEW card,
           SameHand(m, q), q.wufu = m.wufu, Melded(q, p, rule, cards, card)
    PROVE  Melded(m, p, rule, cards, card)
<1>1. Owned(q) = Owned(m) /\ Quads(q) = Quads(m)
  BY SameHandKeeps
<1>2. q.hist = m.hist /\ q.show = m.show /\ m.chou["Chi"] \subseteq q.chou["Chi"]
  BY DEF SameHand
<1>3. Entered(m, p.hist, rule, cards)
  BY <1>2 DEF Entered, Melded
<1> QED BY <1>1, <1>2, <1>3 DEF Melded
=============================================================================
