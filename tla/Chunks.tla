------------------------------- MODULE Chunks -------------------------------
(***************************************************************************)
(* The lower half of jemalloc: the chunks an arena takes from the system   *)
(* and gives back (chunk.c, chunk_mmap.c, pages.c, extent.c), as functions *)
(* of the allocator's whole state h.  A page is a number, a chunk c is the *)
(* pages Pages(c, 1), the address NULL is 0, and the sizes of extents are  *)
(* counted in chunks.                                                      *)
(***************************************************************************)
EXTENDS Integers, Sequences, FiniteSets, SequencesExt, FiniteSetsExt

CONSTANTS
    PAGE,          \* bytes of a page
    chunk_npages,  \* pages of a chunk
    SizeClasses,   \* the size classes in bytes, ascending
    Chunks,        \* 1..n: the chunks of the address space
    Arenas

NULL == 0
chunksize == chunk_npages * PAGE

index2size(i) == SizeClasses[i]
size2index(size) == Min({i \in DOMAIN SizeClasses : SizeClasses[i] >= size})
s2u(size) == index2size(size2index(size))
CHUNK_CEILING(size) == (size + chunksize - 1) \div chunksize   \* in chunks

Pages(c, n) == c * chunk_npages .. (c + n) * chunk_npages - 1
AllPages == UNION {Pages(c, 1) : c \in Chunks}
Spread(f, ps, v) == [p \in DOMAIN f |-> IF p \in ps THEN v ELSE f[p]]

\* An assertion of the code that fails leaves its mark
Assert_(h, what, holds) == IF holds THEN h ELSE [h EXCEPT !.err = @ \cup {what}]
\* The one of arena_stash_dirty that can fail ends the program
Aborts(h) == [h EXCEPT !.err = @ \cup {"abort"}]
Aborted(h) == "abort" \in h.err

-----------------------------------------------------------------------------
\* pages.c and the default hooks.  h.mem tells what a page holds and h.com
\* whether it may be touched; h.fails is what the system refuses in this step.

Failing(h, what) == what \in h.fails

\* A mapping replaced in place reads as zero
pages_commit_impl(h, ps, commit) ==
    IF h.os_overcommits \/ Failing(h, IF commit THEN "commit" ELSE "decommit")
    THEN [h |-> h, err |-> TRUE]
    ELSE [h |-> [h EXCEPT !.com = Spread(@, ps, commit), !.mem = Spread(@, ps, "zero")],
          err |-> FALSE]
pages_commit(h, ps) == pages_commit_impl(h, ps, TRUE)
pages_decommit(h, ps) == pages_commit_impl(h, ps, FALSE)

pages_purge(h, ps) ==
    IF Failing(h, "madvise") THEN [h |-> h, unzeroed |-> TRUE]
    ELSE [h |-> [h EXCEPT !.mem = Spread(@, ps, "zero")], unzeroed |-> FALSE]

Memset(h, ps) ==
    Assert_([h EXCEPT !.mem = Spread(@, ps, "zero")], "touched", \A p \in ps : h.com[p])

\* The system maps at new_addr if it can, or else where it likes: the lowest
\* or the highest range, and aligned, since chunk_alloc_mmap tries until it is
Unmapped(h, n, alignment) ==
    {c \in Chunks : /\ c + n - 1 \in Chunks
                    /\ c % alignment = 0
                    /\ c .. c + n - 1 \cap h.vm = {}}
MapAt(h, c, n, commit) ==
    [h EXCEPT !.vm = @ \cup (c .. c + n - 1),
              !.mem = Spread(@, Pages(c, n), "zero"),
              !.com = Spread(@, Pages(c, n), commit \/ h.os_overcommits)]

chunk_alloc_mmap(h, new_addr, n, alignment, zero, commit) ==
    LET free == Unmapped(h, n, alignment)
        c == IF new_addr # NULL THEN new_addr ELSE IF h.up THEN Min(free) ELSE Max(free)
    IN  IF Failing(h, "mmap") \/ free = {} \/ (new_addr # NULL /\ new_addr \notin free)
        THEN [h |-> h, ret |-> NULL, zero |-> zero, commit |-> commit \/ h.os_overcommits]
        ELSE [h |-> MapAt(h, c, n, commit), ret |-> c,
              zero |-> zero \/ new_addr = NULL, commit |-> commit \/ h.os_overcommits]

chunk_dalloc_mmap(h, c, n) == [h EXCEPT !.vm = @ \ (c .. c + n - 1)]

-----------------------------------------------------------------------------
\* extent.c and chunk.c: the cached extents, which are dirty and also in the
\* arena's rings, and the retained ones

extent_quantize(n) == index2size(size2index(n * chunksize + 1) - 1)
extent_szad_less(d, e) ==
    \/ extent_quantize(d.size) < extent_quantize(e.size)
    \/ extent_quantize(d.size) = extent_quantize(e.size) /\ d.addr < e.addr

Extents(A, cache) == IF cache THEN A.cached ELSE A.retained

arena_chunk_cache_maybe_insert(A, e, cache) ==
    IF ~cache THEN A
    ELSE [A EXCEPT !.runs_dirty = Append(@, <<"chunk", e.addr>>),
                   !.chunks_cache = Append(@, e.addr),
                   !.ndirty = @ + e.size * chunk_npages]
arena_chunk_cache_maybe_remove(A, e, cache) ==
    IF ~cache THEN A
    ELSE [A EXCEPT !.runs_dirty = Remove(@, <<"chunk", e.addr>>),
                   !.chunks_cache = Remove(@, e.addr),
                   !.ndirty = @ - e.size * chunk_npages]

InsertExtent(A, cache, e) ==
    arena_chunk_cache_maybe_insert(
        IF cache THEN [A EXCEPT !.cached = @ \cup {e}] ELSE [A EXCEPT !.retained = @ \cup {e}],
        e, cache)
RemoveExtent(A, cache, e) ==
    arena_chunk_cache_maybe_remove(
        IF cache THEN [A EXCEPT !.cached = @ \ {e}] ELSE [A EXCEPT !.retained = @ \ {e}],
        e, cache)

chunk_first_best_fit(E, n) ==
    {e \in E : /\ extent_quantize(e.size) >= extent_quantize(n)
               /\ \A d \in E : extent_quantize(d.size) >= extent_quantize(n) =>
                                  ~extent_szad_less(d, e)}

\* Joins node with the extent in front of it
CoalesceBackward(A, cache, node, at) ==
    LET prev == {e \in Extents(A, cache) : e.addr + e.size = at /\ e.committed = node.committed}
        e == CHOOSE x \in prev : TRUE
    IN  IF prev = {} THEN A
        ELSE InsertExtent(RemoveExtent(RemoveExtent(A, cache, e), cache, node), cache,
                          [addr |-> e.addr, size |-> e.size + node.size,
                           zeroed |-> e.zeroed /\ node.zeroed, committed |-> node.committed])

\* extent_tree_ad_nsearch finds the extent that starts where this one ends
RecordNext(h, a, cache, node, next) ==
    IF next = {}
    THEN IF Failing(h, "node")
         THEN IF cache THEN pages_purge(h, Pages(node.addr, node.size)).h ELSE h
         ELSE [h EXCEPT !.ar[a] = CoalesceBackward(InsertExtent(@, cache, node), cache,
                                                   node, node.addr)]
    ELSE LET e == CHOOSE x \in next : TRUE
             both == [node EXCEPT !.size = @ + e.size, !.zeroed = @ /\ e.zeroed]
         IN  [h EXCEPT !.ar[a] =
                CoalesceBackward(InsertExtent(RemoveExtent(@, cache, e), cache, both), cache,
                                 both, node.addr)]

chunk_record(h, a, cache, c, n, zeroed, committed) ==
    Assert_(RecordNext(h, a, cache,
                       [addr |-> c, size |-> n, zeroed |-> ~cache /\ zeroed,
                        committed |-> committed],
                       {e \in Extents(h.ar[a], cache) :
                            e.addr = c + n /\ e.committed = committed}),
            "recorded_zeroed", ~(cache /\ zeroed))

InsertIf(some, A, cache, e) == IF some THEN InsertExtent(A, cache, e) ELSE A
\* Takes the extent e apart: what leads, the part asked for, what trails
SplitExtent(h, a, cache, e, lead, n) ==
    LET trail == e.size - lead - n
        led == [h EXCEPT !.ar[a] = InsertIf(lead # 0, RemoveExtent(@, cache, e), cache,
                                            [e EXCEPT !.size = lead])]
    IN  IF trail # 0 /\ lead # 0 /\ Failing(h, "node")
        THEN [h |-> chunk_record(led, a, cache, e.addr + lead, n + trail, e.zeroed, e.committed),
              split |-> FALSE]
        ELSE [h |-> [led EXCEPT !.ar[a] =
                        InsertIf(trail # 0, @, cache,
                                 [e EXCEPT !.addr = @ + lead + n, !.size = trail])],
              split |-> TRUE]

\* The committed chunk that the caller gets, zeroed if it is to be
Recycled(r, c, n, e, zero, commit) ==
    [h |-> IF zero /\ ~e.zeroed THEN Memset(r, Pages(c, n))
           ELSE Assert_(r, "recycled_zeroed",
                        zero => \A p \in Pages(c, n) : r.mem[p] = "zero"),
     ret |-> c, zero |-> zero, commit |-> commit]

CommitRecycled(h, a, cache, c, n, e, zero, commit) ==
    IF e.committed THEN Recycled(h, c, n, e, zero, commit)
    ELSE IF ~pages_commit(h, Pages(c, n)).err
    THEN Recycled(pages_commit(h, Pages(c, n)).h, c, n, e, zero, commit)
    ELSE [h |-> chunk_record(h, a, cache, c, n, e.zeroed, e.committed),
          ret |-> NULL, zero |-> zero, commit |-> commit]

RecycleSplit(s, a, cache, c, n, e, zero, commit) ==
    IF s.split THEN CommitRecycled(s.h, a, cache, c, n, e, zero, commit)
    ELSE [h |-> s.h, ret |-> NULL, zero |-> zero, commit |-> commit]
RecycleFrom(h, a, cache, e, n, alignment, zero, commit) ==
    LET lead == (-e.addr) % alignment
    IN  RecycleSplit(SplitExtent(h, a, cache, e, lead, n), a, cache, e.addr + lead, n, e,
                     zero \/ e.zeroed, commit \/ e.committed)

chunk_recycle(h, a, cache, new_addr, n, alignment, zero, commit) ==
    LET alloc_size == CHUNK_CEILING(s2u((n + alignment - 1) * chunksize))
        found == IF new_addr # NULL
                 THEN {e \in Extents(h.ar[a], cache) : e.addr = new_addr /\ e.size >= n}
                 ELSE chunk_first_best_fit(Extents(h.ar[a], cache), alloc_size)
    IN  IF found = {} THEN [h |-> h, ret |-> NULL, zero |-> zero, commit |-> commit]
        ELSE RecycleFrom(h, a, cache, CHOOSE e \in found : TRUE, n, alignment, zero, commit)

chunk_alloc_cache(h, a, new_addr, n, alignment, zero) ==
    chunk_recycle(h, a, TRUE, new_addr, n, alignment, zero, TRUE)
chunk_alloc_retained(h, a, new_addr, n, alignment, zero, commit) ==
    chunk_recycle(h, a, FALSE, new_addr, n, alignment, zero, commit)

\* By mmap only: the data segment (dss) is left out
chunk_alloc_core(h, new_addr, n, alignment, zero, commit) ==
    chunk_alloc_mmap(h, new_addr, n, alignment, zero, commit)
ElseMap(r, new_addr, n, alignment) ==
    IF r.ret # NULL THEN r ELSE chunk_alloc_core(r.h, new_addr, n, alignment, r.zero, r.commit)
chunk_alloc_wrapper(h, a, new_addr, n, alignment, zero, commit) ==
    ElseMap(chunk_alloc_retained(h, a, new_addr, n, alignment, zero, commit), new_addr, n, alignment)

\* Caches the chunk; the purge that follows is up to the caller
chunk_dalloc_cache(h, a, c, n, committed) == chunk_record(h, a, TRUE, c, n, FALSE, committed)

Purged(d, ps) == IF d.err THEN pages_purge(d.h, ps) ELSE [h |-> d.h, unzeroed |-> FALSE]
Retain(d, a, c, n) ==
    LET p == Purged(d, Pages(c, n)) IN chunk_record(p.h, a, FALSE, c, n, ~p.unzeroed, d.err)
\* Gives the chunk back, or keeps it, decommitted or else purged
chunk_dalloc_wrapper(h, a, c, n, committed) ==
    IF h.config_munmap THEN chunk_dalloc_mmap(h, c, n)
    ELSE Retain(IF committed THEN pages_decommit(h, Pages(c, n)) ELSE [h |-> h, err |-> FALSE],
                a, c, n)

\* chunks_rtree: the owner of the chunk at an address
chunk_register(h, c, node) ==
    IF Failing(h, "rtree") THEN [h |-> h, err |-> TRUE]
    ELSE [h |-> [h EXCEPT !.rtree[c] = node], err |-> FALSE]
Unregistered == [kind |-> "none", arena |-> NULL, size |-> 0, zeroed |-> FALSE]
chunk_deregister(h, c) ==
    Assert_([h EXCEPT !.rtree[c] = Unregistered], "deregistered", h.rtree[c] # Unregistered)
=============================================================================
