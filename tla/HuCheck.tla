------------------------------ MODULE HuCheck ------------------------------
(***************************************************************************)
(* ruleHelp:noneSingle against what it is for, over every hand of at most  *)
(* MaxHand cards: a hand wins when it splits into threes and at most one   *)
(* pair.                                                                   *)
(***************************************************************************)
EXTENDS NoneSingle

CONSTANT MaxHand
ASSUME MaxHandAssumption == MaxHand \in Nat

VARIABLE hand

Init == hand = {}

\* A hand grows card by card; the copies of a face are taken in order
Draw(f) ==
    LET n == Cardinality({c \in hand : FaceOf(c) = f})
    IN  /\ Cardinality(hand) < MaxHand /\ n < 4
        /\ hand' = hand \cup {<<f[1], f[2], n + 1>>}

\* The hand is put away
Clear == Cardinality(hand) = MaxHand /\ hand' = {}

Next == Clear \/ \E f \in Face : Draw(f)
Spec == Init /\ [][Next]_hand

-----------------------------------------------------------------------------
\* The reference: a hand splits into runs, 2-7-10s, threes of a value and at
\* most one pair
Three(g) ==
    \/ \E v \in Values : {Value(c) : c \in g} = {v}
    \/ /\ \E k \in {0, 1} : \A c \in g : Capital(c) = k
       /\ \/ \E v \in Values : {Value(c) : c \in g} = {v, v + 1, v + 2}
          \/ {Value(c) : c \in g} = {2, 7, 10}

RECURSIVE Splits(_, _)
Splits(cards, pairs) ==
    \/ cards = {}
    \/ LET first == CHOOSE c \in cards : \A d \in cards : Value(c) <= Value(d)
           rest == cards \ {first}
       IN  \/ \E c, d \in rest : /\ c # d /\ Three({first, c, d})
                                 /\ Splits(rest \ {c, d}, pairs)
           \/ \E c \in rest : /\ pairs > 0 /\ Equal(first, c)
                              /\ Splits(rest \ {c}, pairs - 1)

\* A hand that noneSingle lets win does split, although the cards that the
\* search keeps of a value (cards[k], not vlist[k]) are not the ones it
\* counted, and although the search reorders the rest as it goes.
WinsOnlySplit == noneSingle(hand) => Splits(hand, 1)

\* "Threes of big and small cards: the members of the combination are not
\* fixed" (ruleHelp.lua:508): a hand that splits into threes is found by
\* noneSingle, whichever of its cards of a value make the three.
SplitsAlwaysWin == Splits(hand, 0) => noneSingle(hand)
=============================================================================
