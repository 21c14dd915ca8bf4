------------------------------- MODULE Cards -------------------------------
(***************************************************************************)
(* The constants every part of the game shares (logic/R.lua), the          *)
(* arithmetic on seats that gameCenter.lua and gameScoreManager.lua both   *)
(* define, and the deck of the paohuzi table: logic/card.lua and the loop  *)
(* of startPlay that makes four copies of every face.                      *)
(*                                                                         *)
(* A card is <<value, capital, copy>>.  The code numbers the cards 1..80   *)
(* in the order in which pairs(R.value) visits the values, which Lua       *)
(* leaves open; only the identity of a card and its face are used, so the  *)
(* number is replaced by the triple.                                       *)
(***************************************************************************)
EXTENDS Integers, FiniteSets

MAX_PLAYER_COUNT == 4
Site == 1..MAX_PLAYER_COUNT

\* The seat n places after s, for n in 0..3
turnSite(s, n) ==
    LET z == (s + n) % MAX_PLAYER_COUNT
    IN  IF z = 0 THEN MAX_PLAYER_COUNT ELSE z
turnNextSite(s) == turnSite(s, 1)

\* How many seats after s the seat t is
SeatsAfter(s, t) == (t - s) % MAX_PLAYER_COUNT

-----------------------------------------------------------------------------
\* R.rule.  Pao is never laid and Hupai and Chiyibisan are never made; Ti is
\* only the value of lastPayCardRule and curPayCardRule when a round starts.
Rule == {"None", "Ti", "Ti_zimo", "Ti_kan", "Ti_wei", "Wei", "Wei_chou",
         "Kan", "Pao_kan", "Pao_wei", "Pao_peng", "Chi", "Peng"}

\* isForceRule1 and isForceRule2: laid without asking the player
ForceRule1 == {"Ti", "Ti_zimo", "Ti_kan", "Ti_wei", "Kan", "Wei", "Wei_chou"}
ForceRule2 == {"Pao_kan", "Pao_wei", "Pao_peng"}

\* The groups that count as a triple, for the win test and for the scores
ThreeRules == {"Kan", "Wei", "Wei_chou", "Peng", "Ti", "Ti_zimo"}

\* The groups of four cards
FourRules == {"Ti", "Ti_zimo", "Ti_kan", "Ti_wei", "Pao_kan", "Pao_wei",
              "Pao_peng"}

\* R.wintype, without paoshuang, which no code returns
WinType == {"none", "hongzhuang", "wufu", "qidui", "shuanglong", "pinghu",
            "zimo", "penghu", "paohu", "tihu", "tianhu", "dihu",
            "sandalianhu", "saosandalianhu", "siqinglianhu",
            "saosiqinglianhu"}

-----------------------------------------------------------------------------
CONSTANT Values  \* R.value: the values in play, 1..10 in the code

ASSUME ValuesAssumption == Values \subseteq 1..10

\* "four of each kind" in both sizes; capital is 1 for true
Card == Values \X {0, 1} \X (1..4)

Value(c) == c[1]
Capital(c) == c[2]

Face == Values \X {0, 1}
FaceOf(c) == <<c[1], c[2]>>

\* card:values(), the sort key and hash key of a face
FaceValue(c) == 10 * Value(c) + Capital(c)

\* card:equal
Equal(c, d) == Value(c) = Value(d) /\ Capital(c) = Capital(d)

\* The cards of S that have the face of c
SameFace(S, c) == {d \in S : Equal(d, c)}

\* Peng_test and TiPao_test: all the cards have one face
OneFace(S) == \A c, d \in S : Equal(c, d)
=============================================================================
