---------------------------- MODULE PlayerCards ----------------------------
(***************************************************************************)
(* logic/playerCardManager.lua: the cards of one player, as a record, and  *)
(* the operations on them.  GameRun keeps one record per seat.             *)
(*                                                                         *)
(* handed and showed are lists of ids, or of lists of ids, that the code   *)
(* only searches, extends and shortens; they are sets here.  Undoing takes *)
(* the last group off its list, which is the one the undone call appended. *)
(***************************************************************************)
EXTENDS RuleHelp, Sequences

Melds == Rule \ {"None"}

\* cardMgr.  chou is choupaid, the faces a player may no longer eat or has
\* passed on; want is wantWufuBaojingIndex
CardMgr ==
    [hand : SUBSET Card,               \* handed[None]
     ti : SUBSET SUBSET Card,          \* handed[Ti_zimo]
     kan : SUBSET SUBSET Card,         \* handed[Kan]
     show : [Melds -> SUBSET SUBSET Card],
     single : SUBSET Card,             \* showed[None]
     hist : Seq([payrule : Rule, victrule : Rule, cards : SUBSET Card]),
     chou : [{"Chi", "Peng"} -> SUBSET Face],
     wufu : BOOLEAN, want : {-1, 0, 1},
     pengSingle : SUBSET Card]         \* PengRuleSingleCard

\* cardMgr:init, with reset
initCards(cards) ==
    [hand |-> TidyNone(cards), ti |-> TidyTi(cards), kan |-> TidyKan(cards),
     show |-> [r \in Melds |-> {}], single |-> {}, hist |-> <<>>,
     chou |-> [r \in {"Chi", "Peng"} |-> {}],
     wufu |-> FALSE, want |-> 0, pengSingle |-> {}]

\* The groups of a player, dealt and laid, and every card they still have: in
\* the hand or in a group
Shown(m) == m.ti \cup m.kan \cup UNION {m.show[r] : r \in Melds}
Owned(m) == m.hand \cup UNION Shown(m)

-----------------------------------------------------------------------------
FromHand == {"Chi", "Peng", "Wei", "Wei_chou"}
FromShow == {"Pao_kan", "Pao_wei", "Pao_peng", "Ti_kan", "Ti_wei"}

\* Where the cards of a group come from; showmap for the groups of four
VictRule(rule) ==
    CASE rule \in {"Pao_kan", "Ti_kan", "Kan"} -> "Kan"
      [] rule \in {"Pao_wei", "Ti_wei"} -> "Wei"
      [] rule = "Pao_peng" -> "Peng"
      [] rule = "Ti_zimo" -> "Ti_zimo"
      [] OTHER -> "None"

\* When payCard accepts cards of the player, with the card other on the table
CanPay(m, rule, cards, other) ==
    CASE rule = "Chi" -> Cardinality(cards) >= 2 /\ cards \subseteq m.hand
      [] rule \in {"Peng", "Wei", "Wei_chou"} ->
            Cardinality(cards) = 2 /\ cards \subseteq m.hand /\ OneFace(cards \cup {other})
      [] rule = "Kan" -> Cardinality(cards) = 3 /\ cards \in m.kan /\ OneFace(cards)
      [] rule = "Ti_zimo" -> Cardinality(cards) = 4 /\ cards \in m.ti /\ OneFace(cards)
      [] rule \in FromShow ->
            /\ Cardinality(cards) = 3 /\ cards \in m.show[VictRule(rule)]
            /\ OneFace(cards \cup {other})
      [] rule = "None" -> Cardinality(cards) = 1 /\ cards \subseteq m.hand
      [] OTHER -> FALSE

\* The group moves to the table and into the history
Laid(m, rule, cards, other) ==
    LET h == Append(m.hist, [payrule |-> rule, victrule |-> VictRule(rule), cards |-> cards])
        v == VictRule(rule)
    IN  CASE rule \in FromHand ->
               [m EXCEPT !.hist = h, !.hand = @ \ cards,
                         !.show[rule] = @ \cup {cards \cup {other}}]
          [] rule = "Kan" ->
               [m EXCEPT !.hist = h, !.kan = @ \ {cards}, !.show[rule] = @ \cup {cards}]
          [] rule = "Ti_zimo" ->
               [m EXCEPT !.hist = h, !.ti = @ \ {cards}, !.show[rule] = @ \cup {cards}]
          [] rule \in FromShow ->
               [m EXCEPT !.hist = h, !.show[v] = @ \ {cards},
                         !.show[rule] = @ \cup {cards \cup {other}}]
          [] rule = "None" ->
               [m EXCEPT !.hist = h, !.hand = @ \ cards, !.single = @ \cup cards]
          [] OTHER -> m

payCards(m, rule, cards, other) ==
    IF CanPay(m, rule, cards, other) THEN Laid(m, rule, cards, other) ELSE m

\* Mutant of popHistory: every group goes back to the hand
popToHand(m, other) ==
    LET h == m.hist[Len(m.hist)]
    IN  [m EXCEPT !.hist = SubSeq(m.hist, 1, Len(m.hist) - 1), !.hand = @ \cup h.cards,
                  !.show[h.payrule] = @ \ {h.cards \cup {other}}]

\* popHistory, which undoes the last payCards; other is the card on the table
popHistory(m, other) ==
    LET h == m.hist[Len(m.hist)]
        r == h.payrule
        rest == SubSeq(m.hist, 1, Len(m.hist) - 1)
    IN  CASE r \in FromHand ->
               [m EXCEPT !.hist = rest, !.hand = @ \cup h.cards,
                         !.show[r] = @ \ {h.cards \cup {other}}]
          [] r = "Kan" ->
               [m EXCEPT !.hist = rest, !.kan = @ \cup {h.cards}, !.show[r] = @ \ {h.cards}]
          [] r = "Ti_zimo" ->
               [m EXCEPT !.hist = rest, !.ti = @ \cup {h.cards}, !.show[r] = @ \ {h.cards}]
          [] r \in FromShow ->
               [m EXCEPT !.hist = rest, !.show[h.victrule] = @ \cup {h.cards},
                         !.show[r] = @ \ {h.cards \cup {other}}]
          [] OTHER ->
               [m EXCEPT !.hist = rest, !.hand = @ \cup h.cards, !.single = @ \ h.cards]

-----------------------------------------------------------------------------

\* dispatchMyCard, for the card that the deck gives a player on their turn:
\* the groups it makes, by rule
dispatchMyCard(m, card) ==
    [rule \in Melds |->
        CASE rule = "Ti_kan" -> TiPao(m.show["Kan"], card)
          [] rule = "Ti_wei" -> TiPao(m.show["Wei"], card)
          [] rule = "Pao_peng" -> TiPao(m.show["Peng"], card)
          [] rule = "Chi" -> IF m.wufu THEN {} ELSE Chi(m.hand, card)
          [] rule = "Wei_chou" ->
                IF FaceOf(card) \in m.chou["Peng"] THEN Peng(m.hand, card) ELSE {}
          [] rule = "Wei" ->
                IF FaceOf(card) \in m.chou["Peng"] THEN {} ELSE Peng(m.hand, card)
          [] OTHER -> {}]

\* Mutant of dispatchOtherCard: a player may eat after a wufu alarm
dispatchOtherCardAlways(m, card, isSystemCard) ==
    [rule \in Melds |->
        CASE rule = "Peng" -> Peng(m.hand, card)
          [] rule = "Chi" -> Chi(m.hand, card)
          [] OTHER -> {}]

\* dispatchOtherCard, for a card that another player discards or draws
dispatchOtherCard(m, card, isSystemCard) ==
    [rule \in Melds |->
        CASE rule = "Peng" -> Peng(m.hand, card)
          [] rule = "Pao_kan" -> TiPao(m.show["Kan"], card)
          [] rule = "Pao_wei" -> TiPao(m.show["Wei"], card)
          [] rule = "Pao_peng" -> IF isSystemCard THEN TiPao(m.show["Peng"], card) ELSE {}
          [] rule = "Chi" -> IF m.wufu THEN {} ELSE Chi(m.hand, card)
          [] OTHER -> {}]

\* The triples in the history, as getHupaiType and checkWufuBaojing count them
Threes(m) == Cardinality({i \in DOMAIN m.hist : m.hist[i].payrule \in ThreeRules})

checkWufuBaojing(m) == m.want = 0 /\ FourAndPair(Threes(m), m.hand)

neverWufuBaojing(m, baojing) ==
    [m EXCEPT !.want = IF baojing THEN 1 ELSE -1, !.wufu = baojing]

\* The groups of four that are laid
Quads(m) == Cardinality(UNION {m.show[r] : r \in FourRules})

\* Mutant of canPayCardAfterRule: the group just laid is not counted
canPayCardAfterFirst(m, rule) == rule \in FourRules => Quads(m) = 0

\* A player with two groups of four does not discard after laying the second
canPayCardAfterRule(m, rule) == rule \in FourRules => Quads(m) <= 1

choupai(m, rule, card) == [m EXCEPT !.chou[rule] = @ \cup {FaceOf(card)}]

\* Mutant of canChiWithPay: the faces discarded are not looked at
canChiWithSeat(m, groups, site, curPaysite) ==
    site \in {curPaysite, turnNextSite(curPaysite)}

\* canChiWithPay: the player whose turn it is and the next one may eat, but no
\* group with a face they discarded or passed on
canChiWithPay(m, groups, site, curPaysite) ==
    /\ site \in {curPaysite, turnNextSite(curPaysite)}
    /\ \A c \in UNION groups : FaceOf(c) \notin m.chou["Chi"]

removeSingleShowCard(m, cards) == [m EXCEPT !.single = @ \ cards]
=============================================================================
