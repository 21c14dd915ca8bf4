CONSTANTS
    Values = {1, 2, 3, 4}
    GameTimes = 0
    Lianzhong = TRUE
    TestZhuang = 1
    PlayerCardCnt = 5
    Decks <- TopQuadDecks
    Foreign = {}
    NoneSingle <- noneSingle
SPECIFICATION Spec
INVARIANT
    FourOfAFace
