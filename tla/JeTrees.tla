------------------------------ MODULE JeTrees ------------------------------
(***************************************************************************)
(* The containers inside jemalloc, of which arenas, extents and profiles   *)
(* are made: the left-leaning red-black tree (rb.h), the pairing heap with *)
(* its lazily merged list (ph.h), the bitmap of the regions of a run       *)
(* (bitmap.h), the cuckoo hash table (ckh.c) and the radix tree that       *)
(* several threads fill without a lock (rtree.h).  A node is a number, and *)
(* the address NULL is 0.                                                  *)
(***************************************************************************)
EXTENDS Naturals, Integers, Sequences, FiniteSets, SequencesExt, FiniteSetsExt

CONSTANTS
    TreeNode,      \* 1..n, compared as numbers: a_cmp of the tree
    HeapNode,      \* 1..n: nodes of the heap
    PhKey,         \* what a_cmp of the heap compares, a function of HeapNode
    NBits,         \* bits of the bitmap
    GroupBits,     \* bits of a group of it
    CkhKey, CkhHash, CkhCells, CkhMinLg, CkhMaxLg,
    RtThread,      \* threads, as numbers: also the values they store
    RtKey,         \* keys of RtWidth bits, of which the RtUsed highest are used
    RtWidth, RtUsed, RTREE_BITS_PER_LEVEL

VARIABLES tree, inTree, pheap, inHeap, bmap, bitsSet, ckh, ckhHeld, ckhLost, radix, rthread, stored

treeVars == <<tree, inTree>>
heapVars == <<pheap, inHeap>>
bitVars == <<bmap, bitsSet>>
ckhVars == <<ckh, ckhHeld, ckhLost>>
radixVars == <<radix, rthread, stored>>

NULL == 0

-----------------------------------------------------------------------------
\* rb.h

rb_new == [root |-> NULL, l |-> [n \in TreeNode |-> NULL], r |-> [n \in TreeNode |-> NULL],
           red |-> [n \in TreeNode |-> FALSE]]

IsRed(t, n) == n # NULL /\ t.red[n]
SetLeft(t, n, c) == [t EXCEPT !.l[n] = c]
SetRight(t, n, c) == [t EXCEPT !.r[n] = c]
Paint(t, n, red) == [t EXCEPT !.red[n] = red]

RECURSIVE rbtn_first(_, _)
rbtn_first(t, n) == IF n = NULL \/ t.l[n] = NULL THEN n ELSE rbtn_first(t, t.l[n])
RECURSIVE rbtn_last(_, _)
rbtn_last(t, n) == IF n = NULL \/ t.r[n] = NULL THEN n ELSE rbtn_last(t, t.r[n])

\* Both rotations: the tree after it; the node that comes up is the child
\* that was there before
rbtn_rotate_left(t, n) == [t EXCEPT !.r[n] = t.l[t.r[n]], !.l[t.r[n]] = n]
rbtn_rotate_right(t, n) == [t EXCEPT !.l[n] = t.r[t.l[n]], !.r[t.l[n]] = n]

\* The nodes from the root to where node hangs, with the side taken there
RECURSIVE Wind(_, _, _)
Wind(t, n, at) ==
    IF at = NULL \/ at = n THEN <<>>
    ELSE IF n < at THEN <<<<at, -1>>>> \o Wind(t, n, t.l[at])
    ELSE <<<<at, 1>>>> \o Wind(t, n, t.r[at])

\* What hangs below the last step of the path, or at the root
Hang(t, path, n) ==
    IF path = <<>> THEN [t EXCEPT !.root = n]
    ELSE IF Last(path)[2] < 0 THEN SetLeft(t, Last(path)[1], n)
    ELSE SetRight(t, Last(path)[1], n)

RECURSIVE Unwind(_, _, _)
\* One level of the unwinding of insert: child c hangs on the side taken
UnwindLeft(t, rest, n, c) ==
    IF ~IsRed(t, c) THEN t
    ELSE IF IsRed(t, t.l[c])
    THEN Unwind(rbtn_rotate_right(Paint(t, t.l[c], FALSE), n), rest, c)
    ELSE Unwind(t, rest, n)
UnwindRight(t, rest, n, c) ==
    IF ~IsRed(t, c) THEN t
    ELSE IF IsRed(t, t.l[n])
    THEN Unwind([t EXCEPT !.red[t.l[n]] = FALSE, !.red[c] = FALSE, !.red[n] = TRUE], rest, n)
    ELSE Unwind([rbtn_rotate_left(t, n) EXCEPT !.red[c] = t.red[n], !.red[n] = TRUE], rest, c)
Unwind(t, path, c) ==
    IF path = <<>> THEN [t EXCEPT !.root = c, !.red[c] = FALSE]
    ELSE IF Last(path)[2] < 0
    THEN UnwindLeft(SetLeft(t, Last(path)[1], c), Front(path), Last(path)[1], c)
    ELSE UnwindRight(SetRight(t, Last(path)[1], c), Front(path), Last(path)[1], c)

rb_insert(t, n) ==
    Unwind([t EXCEPT !.l[n] = NULL, !.r[n] = NULL, !.red[n] = TRUE], Wind(t, n, t.root), n)

-----------------------------------------------------------------------------
\* The unwinding of remove, a black node having gone from the side taken

RECURSIVE Rebalance(_, _, _)
\* It went from the left of n
FixLeft(t, rest, n) ==
    LET right == t.r[n] rl == t.l[right] IN
    IF IsRed(t, rl)
    THEN Hang(rbtn_rotate_left(SetRight(rbtn_rotate_right(
                  Paint(t, IF t.red[n] THEN n ELSE rl, FALSE), right), n, rl), n), rest, rl)
    ELSE IF t.red[n] THEN Hang(rbtn_rotate_left(t, n), rest, right)
    ELSE Rebalance(rbtn_rotate_left(Paint(t, n, TRUE), n), rest, right)

\* It went from the right of n, whose left child is red
FixRedLeft(t, rest, n, left) ==
    LET lr == t.r[left] lrl == t.l[lr] IN
    IF IsRed(t, lrl)
    THEN Hang(rbtn_rotate_left(SetRight(rbtn_rotate_right(rbtn_rotate_right(
                  Paint(t, lrl, FALSE), n), n), left, lr), left), rest, lr)
    ELSE Hang(Paint(rbtn_rotate_right(Paint(t, lr, TRUE), n), left, FALSE), rest, left)

FixRight(t, rest, n) ==
    LET left == t.l[n] ll == t.l[left] IN
    IF IsRed(t, left) THEN FixRedLeft(t, rest, n, left)
    ELSE IF IsRed(t, ll)
    THEN Hang(rbtn_rotate_right(IF t.red[n]
                  THEN [t EXCEPT !.red[n] = FALSE, !.red[left] = TRUE, !.red[ll] = FALSE]
                  ELSE Paint(t, ll, FALSE), n), rest, left)
    ELSE IF t.red[n] THEN Paint(Paint(t, left, TRUE), n, FALSE)
    ELSE Rebalance(Paint(t, left, TRUE), rest, n)

Rebalance(t, path, c) ==
    IF path = <<>> THEN [t EXCEPT !.root = c]
    ELSE IF Last(path)[2] < 0 THEN FixLeft(SetLeft(t, Last(path)[1], c), Front(path), Last(path)[1])
    ELSE FixRight(SetRight(t, Last(path)[1], c), Front(path), Last(path)[1])

\* Prunes the leaf at the end of the path
Prune(t, path, red) ==
    IF red THEN SetLeft(t, Last(path)[1], NULL) ELSE Rebalance(t, path, NULL)

RECURSIVE LeftSpine(_, _)
LeftSpine(t, n) == IF n = NULL THEN <<>> ELSE <<<<n, -1>>>> \o LeftSpine(t, t.l[n])

\* succ takes the place, the colour and the children of n
rb_swap(t, up, n, succ) ==
    Hang([t EXCEPT !.red[succ] = t.red[n], !.l[succ] = t.l[n], !.r[succ] = t.r[n]], up, succ)

TakeOut(t, up, n, spine) ==
    IF spine # <<>>
    THEN Prune(rb_swap(t, up, n, Last(spine)[1]),
               up \o <<<<Last(spine)[1], 1>>>> \o Front(spine), t.red[Last(spine)[1]])
    ELSE IF t.l[n] # NULL THEN Hang(Paint(t, t.l[n], FALSE), up, t.l[n])
    ELSE IF up = <<>> THEN [t EXCEPT !.root = NULL]
    ELSE Prune(t, up, t.red[n])

\* The links of a node that left the tree are never read again
Forget(t, n) == [t EXCEPT !.l[n] = NULL, !.r[n] = NULL, !.red[n] = FALSE]
rb_remove(t, n) == Forget(TakeOut(t, Wind(t, n, t.root), n, LeftSpine(t, t.r[n])), n)

-----------------------------------------------------------------------------
\* What the readers of the tree return; a step of a walk goes left below, and
\* keeps the last node that could be the answer

RECURSIVE Descend(_, _, _, _, _)
\* lo and hi: whether a node above, or below, the key is kept
Descend(t, k, at, lo, best) ==
    IF at = NULL THEN best
    ELSE IF k = at THEN at
    ELSE IF k < at THEN Descend(t, k, t.l[at], lo, IF lo THEN best ELSE at)
    ELSE Descend(t, k, t.r[at], lo, IF lo THEN at ELSE best)

RECURSIVE rb_search(_, _, _)
rb_search(t, k, at) ==
    IF at = NULL \/ k = at THEN at ELSE rb_search(t, k, IF k < at THEN t.l[at] ELSE t.r[at])
rb_nsearch(t, k) == Descend(t, k, t.root, FALSE, NULL)
rb_psearch(t, k) == Descend(t, k, t.root, TRUE, NULL)

RECURSIVE Above(_, _, _, _)
Above(t, n, at, best) ==
    IF n = at THEN best
    ELSE IF n < at THEN Above(t, n, t.l[at], at) ELSE Above(t, n, t.r[at], best)
rb_next(t, n) == IF t.r[n] # NULL THEN rbtn_first(t, t.r[n]) ELSE Above(t, n, t.root, NULL)
RECURSIVE Below(_, _, _, _)
Below(t, n, at, best) ==
    IF n = at THEN best
    ELSE IF n < at THEN Below(t, n, t.l[at], best) ELSE Below(t, n, t.r[at], at)
rb_prev(t, n) == IF t.l[n] # NULL THEN rbtn_last(t, t.l[n]) ELSE Below(t, n, t.root, NULL)

\* The nodes that the callback of an iteration sees, in order
RECURSIVE iter_recurse(_, _)
iter_recurse(t, n) ==
    IF n = NULL THEN <<>> ELSE iter_recurse(t, t.l[n]) \o <<n>> \o iter_recurse(t, t.r[n])
RECURSIVE iter_start(_, _, _)
iter_start(t, s, n) ==
    IF s < n THEN iter_start(t, s, t.l[n]) \o <<n>> \o iter_recurse(t, t.r[n])
    ELSE IF s > n THEN iter_start(t, s, t.r[n])
    ELSE <<n>> \o iter_recurse(t, t.r[n])
RECURSIVE reverse_iter_recurse(_, _)
reverse_iter_recurse(t, n) ==
    IF n = NULL THEN <<>>
    ELSE reverse_iter_recurse(t, t.r[n]) \o <<n>> \o reverse_iter_recurse(t, t.l[n])
RECURSIVE reverse_iter_start(_, _, _)
reverse_iter_start(t, s, n) ==
    IF s > n THEN reverse_iter_start(t, s, t.r[n]) \o <<n>> \o reverse_iter_recurse(t, t.l[n])
    ELSE IF s < n THEN reverse_iter_start(t, s, t.l[n])
    ELSE <<n>> \o reverse_iter_recurse(t, t.l[n])
\* The order in which destroy gives the nodes back
RECURSIVE destroy_recurse(_, _)
destroy_recurse(t, n) ==
    IF n = NULL THEN <<>> ELSE destroy_recurse(t, t.l[n]) \o destroy_recurse(t, t.r[n]) \o <<n>>

TreeInit == tree = rb_new /\ inTree = {}
TreeInsert(n) == n \notin inTree /\ tree' = rb_insert(tree, n) /\ inTree' = inTree \union {n}
TreeRemove(n) == n \in inTree /\ tree' = rb_remove(tree, n) /\ inTree' = inTree \ {n}
TreeDestroy == inTree # {} /\ tree' = rb_new /\ inTree' = {}
TreeNext == (\E n \in TreeNode : TreeInsert(n) \/ TreeRemove(n)) \/ TreeDestroy

Sorted(S) == SelectSeq([i \in 1..Max(TreeNode) |-> i], LAMBDA i : i \in S)
Least(S) == IF S = {} THEN NULL ELSE Min(S)
Greatest(S) == IF S = {} THEN NULL ELSE Max(S)

RECURSIVE BlackHeight(_, _)
\* The black nodes above every leaf below n, or -1 if they differ or a red
\* node stands on the right or under a red one
BlackHeight(t, n) ==
    IF n = NULL THEN 0
    ELSE LET h == BlackHeight(t, t.l[n])
         IN IF h < 0 \/ h # BlackHeight(t, t.r[n]) \/ IsRed(t, t.r[n])
               \/ (t.red[n] /\ IsRed(t, t.l[n]))
            THEN -1 ELSE IF t.red[n] THEN h ELSE h + 1

\* Every sequence of insertions and removals leaves a left-leaning red-black
\* tree of exactly the nodes put in: equal black heights, no red node on the
\* right or below a red one, a black root (which are the asserts of rb.h);
\* and all its readers find what the sorted set of the nodes says.
TreeSorted ==
    /\ iter_recurse(tree, tree.root) = Sorted(inTree)
    /\ BlackHeight(tree, tree.root) >= 0 /\ ~IsRed(tree, tree.root)
    /\ reverse_iter_recurse(tree, tree.root) = Reverse(Sorted(inTree))
    /\ ToSet(destroy_recurse(tree, tree.root)) = inTree
    /\ rbtn_first(tree, tree.root) = Least(inTree) /\ rbtn_last(tree, tree.root) = Greatest(inTree)
    /\ \A k \in TreeNode :
          LET after == {n \in inTree : n > k} before == {n \in inTree : n < k}
              here == inTree \intersect {k}
          IN /\ rb_search(tree, k, tree.root) = Least(here)
             /\ rb_nsearch(tree, k) = Least(here \union after)
             /\ rb_psearch(tree, k) = Greatest(here \union before)
             /\ here # {} => /\ rb_next(tree, k) = Least(after)
                             /\ rb_prev(tree, k) = Greatest(before)
                             /\ iter_start(tree, k, tree.root) = Sorted(here \union after)
                             /\ reverse_iter_start(tree, k, tree.root)
                                   = Reverse(Sorted(here \union before))

-----------------------------------------------------------------------------
\* ph.h: a root, whose next starts the list of nodes not merged yet

ph_new == [root |-> NULL, prev |-> [n \in HeapNode |-> NULL], next |-> [n \in HeapNode |-> NULL],
           lchild |-> [n \in HeapNode |-> NULL]]

SetPrev(h, n, p) == IF n = NULL THEN h ELSE [h EXCEPT !.prev[n] = p]
SetNext(h, n, x) == [h EXCEPT !.next[n] = x]
Unlink(h, n) == [h EXCEPT !.prev[n] = NULL, !.next[n] = NULL]

phn_merge_ordered(h, a, b) ==
    [SetPrev(h, h.lchild[a], b) EXCEPT !.prev[b] = a, !.next[b] = h.lchild[a], !.lchild[a] = b]
\* The heap and the node that is now on top of both
phn_merge(h, a, b) ==
    IF PhKey[a] < PhKey[b] THEN <<phn_merge_ordered(h, a, b), a>>
    ELSE <<phn_merge_ordered(h, b, a), b>>

Append1(h, tail, n) == IF tail = NULL THEN h ELSE SetNext(h, tail, n)

RECURSIVE PairPass(_, _, _, _)
\* First pass over the siblings from n: pairs are merged and queued in a FIFO
\* linked by next
PairStep(hm, rest, head, tail) ==
    PairPass(Append1(hm[1], tail, hm[2]), rest, IF head = NULL THEN hm[2] ELSE head, hm[2])
PairPass(h, n, head, tail) ==
    IF n = NULL THEN <<h, head, tail>>
    ELSE IF h.next[n] = NULL THEN <<SetNext(h, tail, n), head, n>>
    ELSE PairStep(phn_merge(Unlink(Unlink(SetPrev(h, h.next[h.next[n]], NULL), h.next[n]), n),
                            n, h.next[n]), h.next[h.next[n]], head, tail)

RECURSIVE FifoPass(_, _, _)
\* Merges the first two of the FIFO and queues the result until one is left
FifoStep(hm, head, tail) ==
    IF head = NULL THEN hm ELSE FifoPass(SetNext(hm[1], tail, hm[2]), head, hm[2])
FifoPass(h, n, tail) ==
    IF h.next[n] = NULL THEN <<h, n>>
    ELSE FifoStep(phn_merge(SetNext(SetNext(h, h.next[n], NULL), n, NULL), n, h.next[n]),
                  h.next[h.next[n]], tail)

FifoOf(p) == FifoPass(p[1], p[2], p[3])
ph_merge_siblings(h, n) ==
    IF h.next[n] = NULL THEN <<h, n>> ELSE FifoOf(PairPass(h, n, NULL, NULL))

SetRoot(hn) == [hn[1] EXCEPT !.root = hn[2]]
MergeRoot(hn, root) == SetRoot(phn_merge(hn[1], root, hn[2]))
ph_merge_aux(h) ==
    IF h.next[h.root] = NULL THEN h
    ELSE MergeRoot(ph_merge_siblings(SetPrev(Unlink(h, h.root), h.next[h.root], NULL),
                                     h.next[h.root]), h.root)
ph_merge_children(h, n) ==
    IF h.lchild[n] = NULL THEN <<h, NULL>> ELSE ph_merge_siblings(h, h.lchild[n])

ph_insert(h, n) ==
    IF h.root = NULL THEN [h EXCEPT !.root = n]
    ELSE [SetPrev(h, h.next[h.root], n)
            EXCEPT !.next[n] = h.next[h.root], !.prev[n] = h.root, !.next[h.root] = n]

\* Takes n, with its children merged under rep, out of the list it is in
PutInPlace(h, n, rep, parent) ==
    SetPrev([IF parent # NULL THEN [h EXCEPT !.prev[rep] = parent, !.lchild[parent] = rep]
             ELSE [h EXCEPT !.prev[rep] = h.prev[n], !.next[h.prev[n]] = rep]
               EXCEPT !.next[rep] = h.next[n]], h.next[n], rep)
CloseGap(h, n, parent) ==
    SetPrev(IF parent # NULL THEN [h EXCEPT !.lchild[parent] = h.next[n]]
            ELSE SetNext(h, h.prev[n], h.next[n]), h.next[n], h.prev[n])
Replace(hr, n, parent) ==
    IF hr[2] # NULL THEN PutInPlace(hr[1], n, hr[2], parent) ELSE CloseGap(hr[1], n, parent)
RemoveInner(h, n) ==
    Replace(ph_merge_children(h, n), n,
            IF h.prev[n] # NULL /\ h.lchild[h.prev[n]] = n THEN h.prev[n] ELSE NULL)
RemoveMerged(h, n) ==
    IF h.root = n THEN SetRoot(ph_merge_children(h, n)) ELSE RemoveInner(h, n)
ph_remove(h, n) == IF h.root = n THEN RemoveMerged(ph_merge_aux(h), n) ELSE RemoveInner(h, n)

\* The fields of a node that left are overwritten when it comes back
PhForget(h, n) == [h EXCEPT !.prev[n] = NULL, !.next[n] = NULL, !.lchild[n] = NULL]

HeapInit == pheap = ph_new /\ inHeap = {}
HeapInsert(n) == n \notin inHeap /\ pheap' = ph_insert(pheap, n) /\ inHeap' = inHeap \union {n}
HeapFirst == inHeap # {} /\ pheap' = ph_merge_aux(pheap) /\ UNCHANGED inHeap
HeapRemoveFirst ==
    /\ inHeap # {}
    /\ \E h \in {ph_merge_aux(pheap)} :
          /\ pheap' = PhForget(SetRoot(ph_merge_children(h, h.root)), h.root)
          /\ inHeap' = inHeap \ {h.root}
HeapRemove(n) == /\ n \in inHeap /\ pheap' = PhForget(ph_remove(pheap, n), n)
                 /\ inHeap' = inHeap \ {n}
HeapNext == (\E n \in HeapNode : HeapInsert(n) \/ HeapRemove(n)) \/ HeapFirst \/ HeapRemoveFirst

RECURSIVE Siblings(_, _)
Siblings(h, n) == IF n = NULL THEN <<>> ELSE <<n>> \o Siblings(h, h.next[n])
RECURSIVE Under(_, _)
\* The nodes below and beside n, each as often as it is linked
Under(h, n) == IF n = NULL THEN <<>> ELSE <<n>> \o Under(h, h.lchild[n]) \o Under(h, h.next[n])

\* Whatever order nodes come and go in, the heap links exactly the nodes put
\* in, each once; no child has a smaller key than its parent, the links back
\* name the neighbour or the parent, and first (which merges the list of new
\* nodes) returns a node of the least key.
HeapOrdered ==
    /\ IsInjective(Under(pheap, pheap.root)) /\ ToSet(Under(pheap, pheap.root)) = inHeap
    /\ \A n \in inHeap :
          /\ \A c \in ToSet(Siblings(pheap, pheap.lchild[n])) : PhKey[n] <= PhKey[c]
          /\ pheap.lchild[n] # NULL => pheap.prev[pheap.lchild[n]] = n
          /\ pheap.next[n] # NULL => pheap.prev[pheap.next[n]] = n
    /\ inHeap # {} => \E h \in {ph_merge_aux(pheap)} :
          h.next[h.root] = NULL /\ \A n \in inHeap : PhKey[h.root] <= PhKey[n]

-----------------------------------------------------------------------------
\* bitmap.h: a sequence of levels, a level a sequence of groups, a group the
\* set of its 1 bits.  Bits are inverted: 1 is a region that is not taken, and
\* above the bottom a group below that has one.

Groups(nbits) == (nbits + GroupBits - 1) \div GroupBits
RECURSIVE InitLevels(_)
\* bitmap_info_init and bitmap_init: levels up to the one of a single group,
\* without the trailing bits of each
InitLevels(nbits) ==
    << [g \in 1..Groups(nbits) |-> {b \in 0..GroupBits - 1 : (g - 1) * GroupBits + b < nbits}] >>
    \o (IF Groups(nbits) = 1 THEN <<>> ELSE InitLevels(Groups(nbits)))
bitmap_init == InitLevels(NBits)

\* Flips bit of a level
Flip(g, b) == IF b \in g THEN g \ {b} ELSE g \union {b}
FlipAt(m, lv, bit) == [m EXCEPT ![lv][bit \div GroupBits + 1] = Flip(@, bit % GroupBits)]
RECURSIVE SetFrom(_, _, _)
SetFrom(m, lv, bit) ==
    IF m[lv][bit \div GroupBits + 1] = {} /\ lv < Len(m)
    THEN SetFrom(FlipAt(m, lv + 1, bit \div GroupBits), lv + 1, bit \div GroupBits)
    ELSE m
bitmap_set(m, bit) == SetFrom(FlipAt(m, 1, bit), 1, bit)
RECURSIVE UnsetFrom(_, _, _)
UnsetFrom(m, lv, bit) ==
    IF m[lv][bit \div GroupBits + 1] = {} /\ lv < Len(m)
    THEN UnsetFrom(FlipAt(m, lv, bit), lv + 1, bit \div GroupBits)
    ELSE FlipAt(m, lv, bit)
bitmap_unset(m, bit) == UnsetFrom(m, 1, bit)
bitmap_full(m) == m[Len(m)][1] = {}
bitmap_get(m, bit) == bit % GroupBits \notin m[1][bit \div GroupBits + 1]
RECURSIVE FirstUnset(_, _, _)
FirstUnset(m, lv, group) ==
    IF lv = 1 THEN group * GroupBits + Min(m[1][group + 1])
    ELSE FirstUnset(m, lv - 1, group * GroupBits + Min(m[lv][group + 1]))
\* Without the levels above (no USE_TREE): the first group that has a bit
FirstUnsetFlat(m) == LET i == Min({g \in DOMAIN m[1] : m[1][g] # {}})
                     IN (i - 1) * GroupBits + Min(m[1][i])

BitInit == bmap = bitmap_init /\ bitsSet = {}
BitSet(b) == b \notin bitsSet /\ bmap' = bitmap_set(bmap, b) /\ bitsSet' = bitsSet \union {b}
BitUnset(b) == b \in bitsSet /\ bmap' = bitmap_unset(bmap, b) /\ bitsSet' = bitsSet \ {b}
BitSfu == /\ ~bitmap_full(bmap)
          /\ \E b \in {FirstUnset(bmap, Len(bmap), 0)} :
                bmap' = bitmap_set(bmap, b) /\ bitsSet' = bitsSet \union {b}
BitNext == (\E b \in 0..NBits - 1 : BitSet(b) \/ BitUnset(b)) \/ BitSfu

\* The levels of a bitmap never disagree: it is full when every bit is set and
\* not before, and the descent from the top finds the first bit that is not.
BitmapAgrees ==
    /\ \A b \in 0..NBits - 1 : bitmap_get(bmap, b) = (b \in bitsSet)
    /\ bitmap_full(bmap) = (bitsSet = 0..NBits - 1)
    /\ ~bitmap_full(bmap) => /\ FirstUnset(bmap, Len(bmap), 0) = Min(0..NBits - 1 \ bitsSet)
                             /\ FirstUnsetFlat(bmap) = FirstUnset(bmap, Len(bmap), 0)

-----------------------------------------------------------------------------
\* ckh.c: tab holds a key (and with it the data) or NULL in each cell.  op is
\* the insertion going on: the key in hand, the bucket it is evicting from,
\* and, while a table is rebuilt, the table it is rebuilt from.  The
\* generator of pseudo-random numbers may answer anything.  ckhHeld is what the
\* callers of ckh_insert and ckh_remove know to be in the table.

EmptyTab(lg) == [c \in 0..2^lg * CkhCells - 1 |-> NULL]
NoOp == [pc |-> "idle", why |-> "insert", key |-> NULL, bucket |-> 0, argbucket |-> 0,
         old |-> <<>>, oldlg |-> 0, i |-> 0, total |-> 0, pend |-> NULL, arg |-> NULL]

CellsOf(b) == b * CkhCells..(b + 1) * CkhCells - 1
BucketOf(lg, k, h) == CkhHash[k][h] % 2^lg
Free(tab, b) == {c \in CellsOf(b) : tab[c] = NULL}
ckh_isearch(t, k) ==
    {c \in CellsOf(BucketOf(t.lg, k, 1)) \union CellsOf(BucketOf(t.lg, k, 2)) : t.tab[c] = k}
\* The cells that ckh_iter visits, in order
ckh_iter(t) == {t.tab[c] : c \in {c \in DOMAIN t.tab : t.tab[c] # NULL}}

\* Rebuilding for the reason why into a fresh table, from the next item at i
\* of the old one; at the end the insertion tries again, and a shrink is over
NextItem(tab, i) == Min({c \in DOMAIN tab : c >= i /\ tab[c] # NULL})
Go(t, o, i) ==
    IF t.count < o.total
    THEN [t EXCEPT !.op = [o EXCEPT !.pc = "try", !.key = o.old[NextItem(o.old, i)],
                                    !.i = NextItem(o.old, i) + 1]]
    ELSE [t EXCEPT !.op = IF o.why = "shrink" THEN NoOp
                          ELSE [NoOp EXCEPT !.pc = "try", !.key = o.pend, !.arg = o.arg]]
ckh_rebuild(t, why, lg, pend) ==
    Go([t EXCEPT !.tab = EmptyTab(lg), !.lg = lg, !.count = 0],
       [NoOp EXCEPT !.why = why, !.old = t.tab, !.oldlg = t.lg, !.total = t.count,
                    !.pend = pend, !.arg = ckh.op.arg], 0)
\* Mutant of BackOut: the count of the new table stays
BackOutCount(t) == [t EXCEPT !.tab = t.op.old, !.lg = t.op.oldlg, !.op = NoOp]

\* The old table comes back
BackOut(t) == [t EXCEPT !.tab = t.op.old, !.lg = t.op.oldlg, !.count = t.op.total, !.op = NoOp]

\* ckh_grow allocates a table of 2^lg buckets, or finds no memory: then
\* ckh_insert fails, and the key in hand, the caller's or not, is in no table
GrowTo(t, lg, k) ==
    \/ lg <= CkhMaxLg /\ ckh' = ckh_rebuild(t, "grow", lg, k) /\ UNCHANGED <<ckhHeld, ckhLost>>
    \/ /\ ckh' = [t EXCEPT !.op = NoOp]
       /\ ckhHeld' = ckhHeld \ {ckh.op.arg} /\ ckhLost' = (k # ckh.op.arg)

Placed(t, c, k) ==
    LET u == [t EXCEPT !.tab[c] = k, !.count = @ + 1]
    IN IF t.op.why = "insert" THEN [u EXCEPT !.op = NoOp] ELSE Go(u, t.op, t.op.i)
ckh_try_bucket_insert(t, b, k) ==
    /\ \E c \in Free(t.tab, b) : ckh' = Placed(t, c, k)
    /\ UNCHANGED <<ckhHeld, ckhLost>>

CkhInit == ckh = [tab |-> EmptyTab(CkhMinLg), lg |-> CkhMinLg, count |-> 0, op |-> NoOp]
           /\ ckhHeld = {} /\ ckhLost = FALSE
CkhInsert(k) == /\ ckh.op.pc = "idle" /\ k \notin ckhHeld
                /\ ckh' = [ckh EXCEPT !.op = [NoOp EXCEPT !.pc = "try", !.key = k, !.arg = k]]
                /\ ckhHeld' = ckhHeld \union {k} /\ UNCHANGED ckhLost

ckh_try_insert ==
    LET k == ckh.op.key b1 == BucketOf(ckh.lg, k, 1) b2 == BucketOf(ckh.lg, k, 2) IN
    /\ ckh.op.pc = "try"
    /\ \/ ckh_try_bucket_insert(ckh, b1, k)
       \/ Free(ckh.tab, b1) = {} /\ ckh_try_bucket_insert(ckh, b2, k)
       \/ /\ Free(ckh.tab, b1) = {} /\ Free(ckh.tab, b2) = {}
          /\ ckh' = [ckh EXCEPT !.op.pc = "evict", !.op.bucket = b2, !.op.argbucket = b2]
          /\ UNCHANGED <<ckhHeld, ckhLost>>

\* k was evicted from bucket b, and t holds what evicted it
Relocate(t, k, b) ==
    LET tb == IF BucketOf(t.lg, k, 2) # b THEN BucketOf(t.lg, k, 2) ELSE BucketOf(t.lg, k, 1) IN
    \/ /\ tb = t.op.argbucket
       /\ CASE t.op.why = "insert" -> GrowTo(t, t.lg + 1, k)
            [] t.op.why = "grow" -> GrowTo(BackOut(t), t.lg + 1, t.op.pend)
            [] t.op.why = "shrink" -> ckh' = BackOut(t) /\ UNCHANGED <<ckhHeld, ckhLost>>
    \/ /\ tb # t.op.argbucket /\ ckh_try_bucket_insert(t, tb, k)
    \/ /\ tb # t.op.argbucket /\ Free(t.tab, tb) = {}
       /\ ckh' = [t EXCEPT !.op.bucket = tb, !.op.key = k] /\ UNCHANGED <<ckhHeld, ckhLost>>
ckh_evict_reloc_insert ==
    /\ ckh.op.pc = "evict"
    /\ \E c \in CellsOf(ckh.op.bucket) :
          Relocate([ckh EXCEPT !.tab[c] = ckh.op.key], ckh.tab[c], ckh.op.bucket)

\* A table less than a quarter full is halved, if there is memory for it
ckh_shrink(t) ==
    ckh' \in IF 4 * t.count < 2^t.lg * CkhCells /\ t.lg > CkhMinLg
             THEN {t, ckh_rebuild(t, "shrink", t.lg - 1, NULL)} ELSE {t}
ckh_remove(k) ==
    /\ ckh.op.pc = "idle" /\ k \in ckhHeld
    /\ \E c \in ckh_isearch(ckh, k) : ckh_shrink([ckh EXCEPT !.tab[c] = NULL, !.count = @ - 1])
    /\ ckhHeld' = ckhHeld \ {k} /\ UNCHANGED ckhLost
\* The table is followed until an insertion that fails has left out another key
CkhNext == /\ ~ckhLost
           /\ \/ \E k \in CkhKey : CkhInsert(k) \/ ckh_remove(k)
              \/ ckh_try_insert \/ ckh_evict_reloc_insert

\* Between operations the table holds each key put in exactly once, in a
\* bucket that a search looks at, through every eviction, growth, shrink and
\* rebuild that had to be backed out.  An insertion that finds no memory after
\* it has evicted others may fail and yet have put its key in, at the cost of
\* one key of another caller (ckhLost), and of no more than that one.
TableKept ==
    LET held == ckh_iter(ckh) IN
    ckh.op.pc = "idle" =>
        /\ ckh.count = Cardinality(ckhHeld) /\ Cardinality(held) = ckh.count
        /\ Cardinality({c \in DOMAIN ckh.tab : ckh.tab[c] # NULL}) = ckh.count
        /\ \A k \in CkhKey : Cardinality(ckh_isearch(ckh, k)) = (IF k \in held THEN 1 ELSE 0)
        /\ IF ckhLost THEN Cardinality(held \ ckhHeld) = 1 ELSE held = ckhHeld

-----------------------------------------------------------------------------
\* rtree.h: a place is <<0, level>>, where the subtree of a level hangs, or
\* <<node, subkey>>.  It holds NULL, INITIALIZING, a node or, in a leaf, a
\* value.

INITIALIZING == -1
bits_in_leaf == IF RtUsed % RTREE_BITS_PER_LEVEL = 0 THEN RTREE_BITS_PER_LEVEL
                ELSE RtUsed % RTREE_BITS_PER_LEVEL
RtHeight == 1 + (RtUsed - bits_in_leaf) \div RTREE_BITS_PER_LEVEL
RtBits(level) == IF level = RtHeight - 1 THEN bits_in_leaf ELSE RTREE_BITS_PER_LEVEL
CumBits(level) == IF level = RtHeight - 1 THEN RtUsed ELSE (level + 1) * RTREE_BITS_PER_LEVEL
lg_floor(k) == Max({b \in 0..RtWidth - 1 : 2^b <= k})
rtree_start_level(k) ==
    IF k = 0 THEN RtHeight - 1
    ELSE Min({RtWidth \div RTREE_BITS_PER_LEVEL - 1 - lg_floor(k) \div RTREE_BITS_PER_LEVEL,
              RtHeight - 1})
rtree_subkey(k, level) == (k \div 2^(RtWidth - CumBits(level))) % 2^RtBits(level)

rtree_new == [sub |-> [l \in 0..RtHeight - 1 |-> NULL], node |-> <<>>]
At(x, p) == IF p[1] = 0 THEN x.sub[p[2]] ELSE x.node[p[1]][p[2]]
Put(x, p, v) == IF p[1] = 0 THEN [x EXCEPT !.sub[p[2]] = v] ELSE [x EXCEPT !.node[p[1]][p[2]] = v]

RtIdle(ret) == [pc |-> "idle", op |-> "set", key |-> 0, level |-> 0, place |-> <<0, 0>>, ret |-> ret]
\* The thread has the node of its level in hand: the place it looks at next
rtree_step(me, n) ==
    [me EXCEPT !.pc = IF me.level = RtHeight - 1 THEN "leaf" ELSE "read",
               !.place = <<n, rtree_subkey(me.key, me.level)>>]

RadixInit == /\ radix = rtree_new /\ rthread = [t \in RtThread |-> RtIdle(<<>>)]
             /\ stored = [k \in RtKey |-> NULL]
RtCall(t, op, k) ==
    /\ rthread[t].pc = "idle"
    /\ rthread' = [rthread EXCEPT ![t] = [pc |-> "read", op |-> op, key |-> k, ret |-> <<>>,
                      level |-> rtree_start_level(k), place |-> <<0, rtree_start_level(k)>>]]
    /\ UNCHANGED <<radix, stored>>

\* rtree_child_read and rtree_subtree_read, and their tryread: a reader that
\* meets no node is done, a writer goes on to make one.  The plain read that
\* comes first can only see an older value, which the atomic one then replaces
rtree_read(t, me, v) ==
    /\ me.pc = "read" /\ UNCHANGED <<radix, stored>>
    /\ rthread' = [rthread EXCEPT ![t] =
          IF v > 0 THEN rtree_step(IF me.place[1] = 0 THEN me ELSE [me EXCEPT !.level = @ + 1], v)
          ELSE IF me.op = "get" THEN RtIdle(<<NULL, stored[me.key]>>)
          ELSE [me EXCEPT !.pc = "cas"]]
rtree_cas(t, me, v) ==
    /\ me.pc = "cas" /\ UNCHANGED stored
    /\ radix' = IF v = NULL THEN Put(radix, me.place, INITIALIZING) ELSE radix
    /\ rthread' = [rthread EXCEPT ![t].pc = IF v = NULL THEN "alloc" ELSE "spin"]
\* rtree_node_init with the node allocated, or without memory: then the place
\* stays INITIALIZING
rtree_node_init(t, me) ==
    /\ me.pc = "alloc" /\ UNCHANGED stored
    /\ \/ /\ radix' = Put([radix EXCEPT !.node =
                Append(@, [s \in 0..2^RtBits(me.level) - 1 |-> NULL])], me.place,
                Len(radix.node) + 1)
          /\ rthread' = [rthread EXCEPT ![t] =
                rtree_step(IF me.place[1] = 0 THEN me ELSE [me EXCEPT !.level = @ + 1],
                           Len(radix.node) + 1)]
       \/ rthread' = [rthread EXCEPT ![t] = RtIdle(<<>>)] /\ UNCHANGED radix
rtree_spin(t, me, v) ==
    /\ me.pc = "spin" /\ v # INITIALIZING /\ UNCHANGED <<radix, stored>>
    /\ rthread' = [rthread EXCEPT ![t] =
          rtree_step(IF me.place[1] = 0 THEN me ELSE [me EXCEPT !.level = @ + 1], v)]
rtree_leaf(t, me, v) ==
    /\ me.pc = "leaf"
    /\ \/ /\ me.op = "set" /\ radix' = Put(radix, me.place, t)
          /\ stored' = [stored EXCEPT ![me.key] = t]
          /\ rthread' = [rthread EXCEPT ![t] = RtIdle(<<>>)]
       \/ /\ me.op = "get" /\ UNCHANGED <<radix, stored>>
          /\ rthread' = [rthread EXCEPT ![t] = RtIdle(<<v, stored[me.key]>>)]

RadixNext ==
    \E t \in RtThread :
       \/ \E k \in RtKey : RtCall(t, "set", k) \/ RtCall(t, "get", k)
       \/ rthread[t].pc # "idle" /\ \E v \in {At(radix, rthread[t].place)} :
             \/ rtree_read(t, rthread[t], v) \/ rtree_cas(t, rthread[t], v)
             \/ rtree_spin(t, rthread[t], v) \/ rtree_leaf(t, rthread[t], v)
       \/ rtree_node_init(t, rthread[t])

RECURSIVE rtree_delete_subtree(_, _, _)
\* The nodes that deleting the tree gives back
rtree_delete_subtree(x, n, level) ==
    <<n>> \o (IF level + 1 < RtHeight
              THEN FlattenSeq([i \in 1..2^RtBits(level) |->
                      IF x.node[n][i - 1] # NULL
                      THEN rtree_delete_subtree(x, x.node[n][i - 1], level + 1) ELSE <<>>])
              ELSE <<>>)
rtree_delete(x) ==
    FlattenSeq([i \in 1..RtHeight |->
        IF x.sub[i - 1] # NULL THEN rtree_delete_subtree(x, x.sub[i - 1], i - 1) ELSE <<>>])

\* Threads that fill the radix tree at once never lose each other's nodes: a
\* lookup returns what was stored last under its key at the moment it reads,
\* or NULL if nothing was; and deleting the tree frees every node once.
RadixReads ==
    /\ \A t \in RtThread : \A r \in {rthread[t].ret} : r # <<>> => r[1] = r[2]
    /\ (\A n \in DOMAIN radix.sub : radix.sub[n] >= 0)
       /\ (\A n \in DOMAIN radix.node : \A s \in DOMAIN radix.node[n] : radix.node[n][s] >= 0)
       => /\ Len(rtree_delete(radix)) = Len(radix.node)
          /\ ToSet(rtree_delete(radix)) = DOMAIN radix.node

\* The containers of jemalloc hold what was put into them: the red-black
\* tree, the pairing heap, the bitmap, the cuckoo table and the radix tree.
ContainersKept == TreeSorted /\ HeapOrdered /\ BitmapAgrees /\ TableKept /\ RadixReads
=============================================================================
