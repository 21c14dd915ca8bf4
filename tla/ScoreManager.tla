---------------------------- MODULE ScoreManager ----------------------------
(***************************************************************************)
(* logic/gameScoreManager.lua, logic/gameResultManager.lua and the scores  *)
(* of logic/player.lua: who pays what when a group is laid and when a game *)
(* ends, and who is banker (zhuang) next.                                  *)
(*                                                                         *)
(* The state machine lets any sequence of groups be laid by any players,   *)
(* which is all that the scores depend on; GameRun is shown to be such a   *)
(* sequence.                                                               *)
(***************************************************************************)
EXTENDS Cards, Sequences, FiniteSetsExt

CONSTANTS GameTimes,  \* gameConfig's gameTimes; reset leaves it 0
          Lianzhong,  \* gameConfig's lianzhong: a banker's streak adds to the stake
          TestZhuang  \* testPlayerCard[6]: the banker of every game, or 0 for none

ASSUME ScoreAssumption ==
    GameTimes \in Nat /\ Lianzhong \in BOOLEAN /\ TestZhuang \in Site \cup {0}

VARIABLES score,      \* player.score: the game being played
          totalScore, \* player.totalScore
          rec,        \* gameScoreMgr's history, see Records
          results,    \* gameResultMgr's history
          zhuang,     \* zhuang.site
          started,    \* the players whose waitStartGame is 1
          phase       \* gameState: waiting (or gameover), playing, finish

scoreVars == <<score, totalScore, rec, results, zhuang, started, phase>>

NoFace == <<0, 0>>  \* a win is scored without cards
NoSite == 0

\* What the scores depend on of the groups recorded for a player: how many
\* are triples, how many are quads of each kind, and who paid for each Peng
Records == [threes : Nat, quads : [{"Ti", "Ti_zimo"} -> Nat],
            peng : SUBSET ((Face \cup {NoFace}) \X (Site \cup {NoSite}))]
NoRecord == [threes |-> 0, quads |-> [r \in {"Ti", "Ti_zimo"} |-> 0], peng |-> {}]

\* gameResult:set
Result == [zhuang : Site, winner : Site, hongzhuang : BOOLEAN]
isWin(r) == r.winner = r.zhuang /\ ~ r.hongzhuang

-----------------------------------------------------------------------------
\* payRulecard first records the group
Recorded(h, rule, face, cardSite) ==
    [threes |-> IF rule \in ThreeRules THEN h.threes + 1 ELSE h.threes,
     quads  |-> IF rule \in {"Ti", "Ti_zimo"}
                THEN [h.quads EXCEPT ![rule] = @ + 1] ELSE h.quads,
     peng   |-> IF rule = "Peng" THEN h.peng \cup {<<face, cardSite>>} ELSE h.peng]

\* What payRulecard returns: site pays amount, or everyone does when site is
\* NoSite; "ok" is false where the Lua function falls off its end
Bill == [ok : BOOLEAN, site : Site \cup {NoSite}, amount : Nat]
NoBill == [ok |-> FALSE, site |-> NoSite, amount |-> 0]
Everyone(n) == [ok |-> TRUE, site |-> NoSite, amount |-> n]
FromOne(s, n) == [ok |-> TRUE, site |-> s, amount |-> n]
FromPayer(s, one, every) == IF s # NoSite THEN FromOne(s, one) ELSE Everyone(every)

PengBill(n, s) == CASE n < 3 -> FromPayer(s, 3, 1)
                    [] n \in {3, 4} -> FromPayer(s, 15, 5)
                    [] n = 5 -> FromPayer(s, 120, 40)
                    [] OTHER -> NoBill

WeiBill(n) == CASE n < 3 -> Everyone(2)
                [] n \in {3, 4} -> Everyone(6)
                [] n = 5 -> Everyone(40)
                [] OTHER -> NoBill

\* A Pao on a Peng is paid by the player who paid for the Peng; the win that
\* is scored without cards does not look them up
PaoBill(h, rule, face, s) ==
    CASE rule \in {"Pao_wei", "Pao_kan"} -> FromPayer(s, 12, 4)
      [] rule = "Pao_peng" /\ h.peng # {} /\ face = NoFace -> Everyone(4)
      [] rule = "Pao_peng" /\ \E p \in h.peng : p[1] = face ->
            FromPayer((CHOOSE p \in h.peng : p[1] = face)[2], 12, 4)
      [] OTHER -> NoBill

TiBill(h, rule) ==
    CASE rule \in {"Ti", "Ti_zimo"} -> Everyone(IF h.quads[rule] = 2 THEN 30 ELSE 10)
      [] OTHER -> Everyone(8)

\* payRulecard, on the player's records with the new group
payRulecard(h, rule, face, cardSite) ==
    CASE rule = "Peng" -> PengBill(h.threes, cardSite)
      [] rule \in {"Wei", "Kan", "Wei_chou"} -> WeiBill(h.threes)
      [] rule \in ForceRule2 -> PaoBill(h, rule, face, cardSite)
      [] rule \in {"Ti", "Ti_zimo", "Ti_kan", "Ti_wei"} -> TiBill(h, rule)
      [] rule \in {"Chi", "None"} -> Everyone(0)

\* Mutant of PaidByOne: only the credit is booked
CreditedByOne(s, yieldSite, paySite, amount) == [s EXCEPT ![yieldSite] = @ + amount]

\* payScoreWithOne.  A player who paid themselves would only gain.
PaidByOne(s, yieldSite, paySite, amount) ==
    [i \in Site |-> CASE i = yieldSite -> s[i] + amount
                      [] i = paySite /\ i # yieldSite -> s[i] - amount
                      [] OTHER -> s[i]]

\* payScoreWithEvery
PaidByEvery(s, yieldSite, amount) ==
    [i \in Site |-> IF i = yieldSite THEN s[i] + (MAX_PLAYER_COUNT - 1) * amount
                    ELSE s[i] - amount]

Paid(s, yieldSite, b) ==
    CASE ~ b.ok -> s
      [] b.ok /\ b.site # NoSite -> PaidByOne(s, yieldSite, b.site, b.amount)
      [] OTHER -> PaidByEvery(s, yieldSite, b.amount)

\* payscore: record the group and have it paid
payscore(yieldSite, rule, face, cardSite) ==
    LET h == Recorded(rec[yieldSite], rule, face, cardSite)
        b == payRulecard(h, rule, face, cardSite)
    IN  /\ rec' = [rec EXCEPT ![yieldSite] = h]
        /\ score' = Paid(score, yieldSite, b)
        /\ totalScore' = Paid(totalScore, yieldSite, b)

-----------------------------------------------------------------------------
\* parseWinnerType: the name of a win, from how it was made and how soon
Paos == {"Pao_kan", "Pao_wei", "Pao_peng"}
parseWinnerType(t, rule, winSite, paySite, turns) ==
    LET eaten == IF winSite = paySite THEN "zimo" ELSE "pinghu"
    IN  CASE t = "pinghu" ->
              (CASE rule = "Peng" -> "penghu"
                 [] rule # "Peng" /\ turns = 0 -> "tianhu"
                 [] rule # "Peng" /\ turns = 1 -> "dihu"
                 [] OTHER -> (CASE rule \in Paos -> "paohu"
                                [] rule \in {"Ti", "Ti_kan", "Ti_wei"} -> "tihu"
                                [] rule \in {"Wei", "Wei_chou"} -> "zimo"
                                [] rule = "Chi" -> eaten
                                [] OTHER -> t))
          [] t \in {"sandalianhu", "siqinglianhu"} ->
              (CASE rule \in Paos -> "paohu"
                 [] rule \in {"Wei", "Wei_chou"} ->
                      IF t = "sandalianhu" THEN "saosandalianhu" ELSE "saosiqinglianhu"
                 [] rule = "Chi" -> eaten
                 [] OTHER -> t)
          [] OTHER -> t

\* getLianzhuangCount: how many games the banker has won in a row
Streak(rs) == Cardinality({i \in DOMAIN rs : \A j \in i..Len(rs) : isWin(rs[j])})

\* What each loser owes: unit each, or all of it from one of them
Owed(winSite, one, total, unit) ==
    [i \in Site |-> CASE i = winSite -> 0
                      [] i # winSite /\ one = NoSite -> unit
                      [] OTHER -> IF i = one THEN total ELSE 0]

\* payscoreHupai, without its payments: what the losers owe for a win of type
\* t, when b is the bill of the winning group
HupaiOwed(t, b, winSite, dpSite, rs) ==
    LET zhuangWin == isWin(rs[Len(rs)])
        twice == IF Streak(rs) > 1 THEN 2 ELSE 1
        extra == IF Lianzhong /\ Streak(rs) > 2 THEN 4 * (Streak(rs) - 2) ELSE 0
        big == IF zhuangWin THEN 80 ELSE 40
        each(base) == Owed(winSite, dpSite, 3 * (base * twice + extra), base * twice + extra)
        base == IF t = "dihu" THEN 8 ELSE 4
        one == IF b.site = NoSite THEN dpSite ELSE b.site
        amount == IF b.site = NoSite THEN 3 * b.amount ELSE b.amount
    IN  CASE t = "qidui" -> Owed(winSite, NoSite, 0, big)
          [] t = "shuanglong" -> Owed(winSite, NoSite, 0, big * twice + extra)
          [] t = "pinghu" -> each(4)
          [] t = "tianhu" -> each(8)
          [] t = "wufu" -> Owed(winSite, dpSite, 120, 40)
          [] OTHER -> IF ~ b.ok THEN Owed(winSite, NoSite, 0, 0)
                      ELSE Owed(winSite, one, (amount + 3 * base) * twice + 3 * extra,
                                (b.amount + base) * twice + extra)

\* The wins that are scored by their winning group, which payRulecard records
ScoredByRule(t) == t \notin {"qidui", "shuanglong", "pinghu", "tianhu", "wufu"}

\* The payments of the losers to the winner
Collected(s, winSite, owed) ==
    [i \in Site |->
        IF i = winSite
        THEN s[i] + owed[turnSite(i, 1)] + owed[turnSite(i, 2)] + owed[turnSite(i, 3)]
        ELSE s[i] - owed[i]]

\* The end of the coroutine that startPlay forks: name the win, record the
\* result, have it paid and close the game
settle(winType, rule, winSite, paySite, dpSite, curPaysite, turns) ==
    LET t == parseWinnerType(winType, rule, winSite, curPaysite, turns)
        rs == Append(results, [zhuang |-> zhuang, winner |-> winSite,
                               hongzhuang |-> t = "hongzhuang"])
        h == Recorded(rec[winSite], rule, NoFace, paySite)
        b == payRulecard(h, rule, NoFace, paySite)
        owed == HupaiOwed(t, b, winSite, dpSite, rs)
    IN  /\ results' = rs
        /\ rec' = IF ScoredByRule(t) THEN [rec EXCEPT ![winSite] = h] ELSE rec
        /\ score' = Collected(score, winSite, owed)
        /\ totalScore' = Collected(totalScore, winSite, owed)
        /\ started' = {}
        /\ phase' = IF Len(rs) + 1 >= GameTimes THEN "finish" ELSE "gameover"
        /\ UNCHANGED zhuang

-----------------------------------------------------------------------------
createZhuangNext ==
    IF results = <<>> THEN 1 ELSE turnNextSite(results[Len(results)].zhuang)

\* createZhuangSite; the room's master, who sits first, is the first banker
createZhuangSite ==
    LET last == results[Len(results)]
    IN  CASE TestZhuang # 0 -> TestZhuang
          [] TestZhuang = 0 /\ results = <<>> -> 1
          [] OTHER -> IF last.hongzhuang THEN turnNextSite(last.zhuang) ELSE last.winner

\* What startPlay does to the scores
newGame ==
    /\ phase \in {"waiting", "gameover"}
    /\ phase' = "playing"
    /\ zhuang' = createZhuangSite
    /\ rec' = [i \in Site |-> NoRecord]
    /\ UNCHANGED <<score, totalScore, results, started>>

\* CMD.playerStartGame: the cards have arrived at a client
playerStartGame(p) ==
    /\ phase = "playing" /\ p \notin started
    /\ started' = started \cup {p}
    /\ score' = [score EXCEPT ![p] = 0]
    /\ UNCHANGED <<totalScore, rec, results, zhuang, phase>>

\* Any group that a player lays, on a card of another player or of the deck
Meld(p) ==
    /\ phase = "playing" /\ started = Site
    /\ \E rule \in Rule \ {"None", "Ti"}, face \in Face, s \in (Site \ {p}) \cup {NoSite} :
         payscore(p, rule, face, s)
    /\ UNCHANGED <<results, zhuang, started, phase>>

\* Any end of the game: the card that wins is the deck's or another player's.
\* A win before the first card, with the rule Ti that startPlay leaves, counts
\* as made on the banker's turn, even for the banker.
Hu(p) ==
    /\ phase = "playing" /\ started = Site
    /\ \E t \in WinType \ {"none"}, rule \in Rule, turns \in 0..2, cur \in Site :
         \E s \in {NoSite, cur} : \E dp \in {NoSite, s} :
            /\ s = p => rule = "Ti"
            /\ dp # p
            /\ settle(t, rule, p, s, dp, cur, turns)

ScoreInit ==
    /\ score = [i \in Site |-> 0]
    /\ totalScore = [i \in Site |-> 0]
    /\ rec = [i \in Site |-> NoRecord]
    /\ results = <<>>
    /\ zhuang = 1
    /\ started = {}
    /\ phase = "waiting"

ScoreNext ==
    \/ newGame
    \/ \E p \in Site : playerStartGame(p) \/ Meld(p) \/ Hu(p)

ScoreSpec == ScoreInit /\ [][ScoreNext]_scoreVars

-----------------------------------------------------------------------------
ScoreTypeOK ==
    /\ score \in [Site -> Int] /\ totalScore \in [Site -> Int]
    /\ rec \in [Site -> Records]
    /\ results \in Seq(Result)
    /\ zhuang \in Site
    /\ started \in SUBSET Site
    /\ phase \in {"waiting", "playing", "gameover", "finish"}

Sum(s) == s[1] + s[2] + s[3] + s[4]

\* What players win is what players lose: the payments of payScoreWithOne,
\* payScoreWithEvery and payscoreHupai leave the totals of the room, and the
\* scores of a game once all its players have started it, at zero.
ZeroSum == Sum(totalScore) = 0 /\ (started = Site => Sum(score) = 0)

\* A banker's streak is one player's: the stake is doubled (getWinBuff) only
\* when the same player was banker of, and won, the last two games.
StreakIsOnePlayers ==
    Streak(results) > 1 =>
        LET n == Len(results)
        IN  /\ results[n].winner = results[n - 1].winner
            /\ results[n].zhuang = results[n - 1].zhuang
=============================================================================
