CONSTANTS
    Values = {1, 2, 3, 4}
    GameTimes = 0
    Lianzhong = TRUE
    TestZhuang = 1
    PlayerCardCnt = 5
    Decks <- MCDecks
    Foreign = {}
    NoneSingle <- noneSingle
SPECIFICATION FairSpec
INVARIANTS
    CardsKept
    ProbesUndone
    NeverEatDiscarded
    ScoredRuleWon
PROPERTIES
    PengBeforeChi
    Finishes
    ScoreSpec
