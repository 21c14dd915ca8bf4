----------------------------- MODULE NoneSingle -----------------------------
(***************************************************************************)
(* ruleHelp:noneSingle, the test that no card of a hand is left single: the *)
(* hand splits into runs, 2-7-10s, threes of a value and at most one pair. *)
(*                                                                         *)
(* noneSingle sorts the hand by value at every level of its recursion.     *)
(* Which alternatives the search sees depends on the order in which        *)
(* table.sort, which is not stable, leaves the cards of a value: so the    *)
(* sort is the one of the Lua library.  Cards are represented by their     *)
(* faces, as nothing depends on the copy.                                  *)
(***************************************************************************)
EXTENDS Cards, Sequences, FiniteSetsExt
LOCAL INSTANCE SequencesExt

-----------------------------------------------------------------------------
\* table.sort, of a sequence of faces, by value

Swap(s, i, j) == [s EXCEPT ![i] = s[j], ![j] = s[i]]
Less(s, i, j) == s[i][1] < s[j][1]

\* The pivot is at up - 1: from i up and from j down to the next two faces
\* that are on the wrong side of it, until they cross
RECURSIVE partition(_, _, _, _)
partition(s, up, i, j) ==
    LET a == CHOOSE k \in (i + 1)..(up - 1) :
                ~ Less(s, k, up - 1) /\ \A l \in (i + 1)..(k - 1) : Less(s, l, up - 1)
        b == CHOOSE k \in 1..(j - 1) :
                ~ Less(s, up - 1, k) /\ \A l \in (k + 1)..(j - 1) : Less(s, up - 1, l)
    IN  IF b < a THEN [seq |-> Swap(s, up - 1, a), at |-> a]
        ELSE partition(Swap(s, a, b), up, a, b)

\* Sort the first, the middle and the last, then the two parts
RECURSIVE auxsort(_, _, _)
auxsort(s, lo, up) ==
    LET p == (lo + up) \div 2
        ends == IF Less(s, up, lo) THEN Swap(s, lo, up) ELSE s
        mid == IF Less(ends, p, lo) THEN Swap(ends, p, lo)
               ELSE IF Less(ends, up, p) THEN Swap(ends, p, up) ELSE ends
        cut == partition(Swap(mid, p, up - 1), up, lo, up - 1)
    IN  CASE lo >= up -> s
          [] up - lo = 1 -> ends
          [] up - lo = 2 -> mid
          [] OTHER -> auxsort(auxsort(cut.seq, lo, cut.at - 1), cut.at + 1, up)

sort(s) == auxsort(s, 1, Len(s))

-----------------------------------------------------------------------------
\* The search, on the sorted hand o

\* The first place of a value with the capital of the first card, or 0
At(o, v) ==
    LET at == {i \in 2..Len(o) : o[i] = <<v, o[1][2]>>} IN IF at = {} THEN 0 ELSE Min(at)

\* What remains without the first card and the ones of two values; the run
\* and the 2-7-10 that start with the first card
Without(o, v, w) ==
    LET b == At(o, v) c == At(o, w)
    IN  IF b = 0 \/ c = 0 THEN {} ELSE {Tail(RemoveAt(RemoveAt(o, c), b))}
RunRemains(o) == Without(o, o[1][1] + 1, o[1][1] + 2)
TwoSevenTenRemains(o) == IF o[1][1] = 2 THEN Without(o, 7, 10) ELSE {}

\* Mutant of PairRemains: any number of pairs
AnyPairRemains(o, haveYidui) == IF o[1] = o[2] THEN {SubSeq(o, 3, Len(o))} ELSE {}

\* The pair of the first two cards, if no pair has been used
PairRemains(o, haveYidui) ==
    IF ~ haveYidui /\ o[1] = o[2] THEN {SubSeq(o, 3, Len(o))} ELSE {}

\* Three of a value.  The cards after the first, of its value, are numbered
\* from 1 in vlist; each pair i, j of them is tried, and what is kept is
\* looked up in cards by its number in vlist: low is cards without the last
\* of the value.  The search sorts remains, so the tail stays as it was
\* sorted for the pair before.
RECURSIVE Find(_, _), FindThree(_, _, _, _, _)
FindThree(low, tail, i, j, haveYidui) ==
    LET kept == RemoveAt(RemoveAt(low, j), i)
        notLow(f) == f[1] # low[1][1]
    IN  CASE i >= Len(low) -> FALSE
          [] i < Len(low) /\ j > Len(low) -> FindThree(low, tail, i + 1, i + 2, haveYidui)
          [] OTHER -> \/ Find(tail \o kept, haveYidui)
                      \/ FindThree(low, SelectSeq(sort(tail \o kept), notLow), i, j + 1,
                                   haveYidui)

Find(cards, haveYidui) ==
    LET o == sort(cards)
        m == Max({i \in DOMAIN o : o[i][1] = o[1][1]})
    IN  \/ Len(o) = 0
        \/ /\ Len(o) > 1
           /\ \/ \E r \in RunRemains(o) \cup TwoSevenTenRemains(o) : Find(r, haveYidui)
              \/ FindThree(SubSeq(o, 1, m - 1), SubSeq(o, m + 1, Len(o)), 1, 2, haveYidui)
              \/ \E r \in PairRemains(o, haveYidui) : Find(r, TRUE)

\* A hand as its callers pass it, sorted by face
RECURSIVE ByFace(_, _)
ByFace(F, count) ==
    IF F = {} THEN <<>>
    ELSE LET f == CHOOSE g \in F : \A h \in F : g[1] * 10 + g[2] <= h[1] * 10 + h[2]
         IN  [i \in 1..count[f] |-> f] \o ByFace(F \ {f}, count)

noneSingle(cards) ==
    LET F == {FaceOf(c) : c \in cards}
    IN  Find(ByFace(F, [f \in F |-> Cardinality({c \in cards : FaceOf(c) = f})]), FALSE)
=============================================================================
