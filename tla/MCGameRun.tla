----------------------------- MODULE MCGameRun -----------------------------
(***************************************************************************)
(* GameRun for TLC: hands of five cards of four values.  StrideDeck takes  *)
(* every k-th card, which mixes the faces; the decks were picked because   *)
(* between them every way to take a card and to win comes up.  WufuDecks   *)
(* have hands of fourteen cards, as in the code.                           *)
(***************************************************************************)
EXTENDS GameRun, NoneSingle

\* The n-th card by face and copy, from 0, and the deck that takes every k-th
Numbered(n) == <<(n \div 8) + 1, (n \div 4) % 2, (n % 4) + 1>>
StrideDeck(k, o) ==
    LET n == Cardinality(Card)
    IN  [i \in 1..n |-> Numbered((i * k + o) % n)]

\* Copies a to b of a small or a big card
S(v, a, b) == [i \in 1..(b - a + 1) |-> <<v, 0, a + i - 1>>]
B(v, a, b) == [i \in 1..(b - a + 1) |-> <<v, 1, a + i - 1>>]

\* The banker is dealt a quad, which is laid before the first card, and a
\* pair, which then wins; the other players are dealt nothing
QuadDeck ==
    S(1, 1, 4) \o B(3, 1, 1)
      \o B(1, 1, 2) \o S(2, 1, 1) \o S(3, 1, 1) \o B(4, 1, 1)
      \o B(2, 1, 2) \o S(3, 2, 2) \o S(4, 1, 1) \o B(4, 2, 2)
      \o B(1, 3, 3) \o S(2, 2, 2) \o B(3, 3, 3) \o S(4, 2, 2) \o B(4, 3, 3)
      \o B(3, 2, 2)
      \o B(1, 4, 4) \o S(2, 3, 4) \o B(2, 3, 4) \o S(3, 3, 4) \o B(3, 4, 4) \o S(4, 3, 4)
      \o B(4, 4, 4)

\* The second player is dealt a quad of the face that sorts last
TopQuadDeck ==
    S(1, 1, 2) \o B(3, 1, 1) \o S(2, 1, 1) \o S(4, 4, 4)
      \o B(4, 1, 4) \o S(3, 1, 1)
      \o B(2, 1, 2) \o S(3, 2, 2) \o S(4, 1, 1) \o S(1, 3, 3)
      \o B(1, 3, 3) \o S(2, 2, 2) \o B(3, 3, 3) \o S(4, 2, 2) \o B(1, 1, 1)
      \o B(3, 2, 2)
      \o B(1, 4, 4) \o B(2, 3, 4) \o B(3, 4, 4)

MCDecks == {StrideDeck(3, 0), StrideDeck(5, 5), StrideDeck(1, 0), QuadDeck}
ScoreDecks == {StrideDeck(3, 0), StrideDeck(1, 0), QuadDeck}
TopQuadDecks == {TopQuadDeck}

-----------------------------------------------------------------------------
\* A deck deals the banker four triples, a pair and a single card, which is
\* asked about a wufu alarm at once; the second player three triples and two
\* pairs, which may be asked later; and the third player a quad.  In PaoDeck
\* most cards complete a triple that is shown; in ChiDeck the fourth player
\* draws a card that goes with the banker's pair.
Hand1 == S(1, 1, 3) \o S(3, 1, 3) \o S(5, 1, 3) \o S(7, 1, 3) \o B(2, 1, 2)
Hand2 == B(1, 1, 3) \o B(4, 1, 3) \o B(7, 1, 3) \o S(2, 1, 2) \o S(8, 1, 2) \o B(5, 1, 1)
Hand3 == S(4, 1, 4) \o S(6, 1, 3) \o B(3, 1, 3) \o B(8, 1, 3) \o S(1, 4, 4)
Hand4(six) == B(5, 2, 4) \o six \o S(7, 4, 4) \o S(8, 3, 4) \o B(2, 3, 3) \o B(3, 4, 4)
                \o B(4, 4, 4) \o B(7, 4, 4) \o B(8, 4, 4)
PaoDeck == Hand1 \o Hand2 \o Hand3 \o Hand4(B(6, 2, 4))
             \o B(6, 1, 1) \o S(6, 4, 4) \o S(2, 3, 3) \o B(2, 4, 4) \o B(1, 4, 4)
ChiDeck == Hand1 \o Hand2 \o Hand3 \o Hand4(B(6, 3, 4) \o S(5, 4, 4))
             \o B(6, 1, 1) \o S(6, 4, 4) \o S(2, 3, 3)

WufuDecks == {PaoDeck, ChiDeck}

\* The small two that no deck has: it goes with the second player's pair
ForeignTwo == {<<2, 0, 4>>}
=============================================================================
