------------------------------ MODULE RuleHelp ------------------------------
(***************************************************************************)
(* logic/ruleHelp.lua without the win test noneSingle (module NoneSingle): *)
(* how a dealt hand is sorted into groups, and which groups a card makes   *)
(* with the cards a player has.                                            *)
(*                                                                         *)
(* Lists of ids are sets of cards.  Where the code keeps one of several    *)
(* groups and its unstable sort leaves open which, the model keeps the one *)
(* that CHOOSE picks; cards of one face are interchangeable.               *)
(***************************************************************************)
EXTENDS Cards, FiniteSetsExt

\* The groups of n equal cards in a hand: all copies of a face held n times
FaceGroups(hand, n) ==
    {g \in {SameFace(hand, c) : c \in hand} : Cardinality(g) = n}

\* The cards that sort last
TopFace(hand) ==
    {c \in hand : \A d \in hand : FaceValue(d) <= FaceValue(c)}

\* tidyHandCards.  The loop takes the quads, and the triples that do not end
\* the sorted hand; the test after it takes a triple from the last three
\* cards, without asking whether they are the end of a quad already taken.
TidyTi(hand) == FaceGroups(hand, 4)
TidyKan(hand) ==
    FaceGroups(hand, 3)
      \cup IF Cardinality(TopFace(hand)) = 4
           THEN {CHOOSE t \in SUBSET TopFace(hand) : Cardinality(t) = 3}
           ELSE {}
TidyNone(hand) == hand \ UNION (TidyTi(hand) \cup TidyKan(hand))

-----------------------------------------------------------------------------
\* ruleMake:Peng, also used for Wei: card and two of its face in the hand
Peng(hand, card) ==
    {{p[1], p[2], card} :
        p \in {q \in SameFace(hand, card) \X SameFace(hand, card) : q[1] # q[2]}}

\* ruleMake:TiPao: the laid triples that card completes
TiPao(groups, card) ==
    {g \cup {card} : g \in {h \in groups : \A d \in h : Equal(d, card)}}

-----------------------------------------------------------------------------
\* A group that may be eaten: three of a value in both sizes, a run in one
\* size, or 2-7-10 in one size
Mixed(a, b, c) ==
    /\ Value(a) = Value(b) /\ Value(b) = Value(c)
    /\ a # b /\ b # c /\ a # c
    /\ ~ OneFace({a, b, c})
Run(a, b, c) ==
    /\ Capital(a) = Capital(b) /\ Capital(b) = Capital(c)
    /\ Value(b) = Value(a) + 1 /\ Value(c) = Value(a) + 2
TwoSevenTen(a, b, c) ==
    /\ Capital(a) = Capital(b) /\ Capital(b) = Capital(c)
    /\ Value(a) = 2 /\ Value(b) = 7 /\ Value(c) = 10

\* The sum of card:values() over a group, the code's test for duplicates.
\* Among groups of three it tells groups with different faces apart.
FaceSum(g) == MapThenSumSet(FaceValue, g)

\* One of the groups of each sum
OnePerSum(groups) ==
    {CHOOSE g \in groups : FaceSum(g) = s : s \in {FaceSum(g) : g \in groups}}

\* findChi without a key card
findChi(S) ==
    OnePerSum({{t[1], t[2], t[3]} : t \in {u \in S \X S \X S :
        \/ Mixed(u[1], u[2], u[3])
        \/ Run(u[1], u[2], u[3])
        \/ TwoSevenTen(u[1], u[2], u[3])}})

\* findChi with a key card, which must be in the group.  The search for
\* 2-7-10 takes the first 7 and the first 10 of its list, and the key comes
\* last: a key 7 or 10 is found only when the hand has no equal card.
ChiWith(S, card) ==
    {{card, p[1], p[2]} : p \in {q \in S \X S :
        \/ Mixed(card, q[1], q[2])
        \/ Run(card, q[1], q[2]) \/ Run(q[1], card, q[2]) \/ Run(q[1], q[2], card)
        \/ TwoSevenTen(card, q[1], q[2])
        \/ /\ SameFace(S, card) = {}
           /\ \/ TwoSevenTen(q[1], card, q[2])
              \/ TwoSevenTen(q[1], q[2], card)}}

\* The first group that findChi returns: one with the lowest first value
FirstChi(S, card) ==
    LET low(g) == Min({Value(c) : c \in g})
    IN  CHOOSE g \in ChiWith(S, card) : \A h \in ChiWith(S, card) : low(g) <= low(h)

\* A player who holds a card equal to the key must lay it too, in a group
\* without the key: a second group next to the key's
DoubleChi(hand, card) ==
    {v \cup FirstChi(hand \ v, card) :
        v \in {u \in findChi(hand) : SameFace(u, card) # {}
                                     /\ ChiWith(hand \ u, card) # {}}}

\* A player who holds two equal cards must lay three groups; e is the first
\* of the two equal cards
TripleChi(hand, card) ==
    LET e == CHOOSE d \in SameFace(hand, card) : TRUE
    IN  UNION {{v \cup w : w \in DoubleChi(hand \ (v \cup {e}), e)} :
                  v \in {u \in ChiWith(hand, card) : SameFace(hand, card) \cap u = {}}}

\* ruleMake:Chi.  The loop over the groups of a player with two equal cards
\* returns at the first that can be completed.
Chi(hand, card) ==
    IF Cardinality(SameFace(hand, card)) = 2
    THEN IF TripleChi(hand, card) = {} THEN {}
         ELSE {CHOOSE g \in TripleChi(hand, card) : TRUE}
    ELSE OnePerSum({g \in ChiWith(hand, card) : SameFace(hand, card) \subseteq g}
                     \cup DoubleChi(hand, card))

-----------------------------------------------------------------------------
\* checkWufuBaojing: four triples laid and a pair in the hand
FourAndPair(threes, hand) ==
    threes = 4 /\ \E c, d \in hand : c # d /\ Equal(c, d)

\* getBestHupaiType, on the cards as dealt, whether noneSingle splits them, and
\* the number of quads among them
BestHupai(own, split, quads) ==
    LET pairs == {SameFace(own, c) : c \in own}
    IN  CASE Cardinality(own) >= 14
               /\ Cardinality({p \in pairs : Cardinality(p) >= 2}) >= 7 -> "qidui"
          [] OTHER -> IF split THEN "tianhu"
                      ELSE IF quads = 2 THEN "shuanglong" ELSE "none"

\* getHupaiType, on the number of triples laid and whether noneSingle splits the
\* cards left
Hupai(wufu, threes, split) ==
    IF wufu THEN IF threes = 5 THEN "wufu" ELSE "none"
    ELSE IF ~ split THEN "none"
    ELSE CASE threes = 4 -> "siqinglianhu"
           [] threes = 3 -> "sandalianhu"
           [] OTHER -> "pinghu"
=============================================================================
