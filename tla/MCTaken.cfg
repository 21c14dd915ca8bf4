CONSTANTS
    Values = {1, 2, 3, 4, 5, 6, 7, 8}
    GameTimes = 0
    Lianzhong = TRUE
    TestZhuang = 1
    PlayerCardCnt = 14
    Decks <- WufuDecks
    Foreign = {}
    NoneSingle <- noneSingle
SPECIFICATION Spec
INVARIANT
    TakenIsGone
