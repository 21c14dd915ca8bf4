-------------------------------- MODULE Heap --------------------------------
(***************************************************************************)
(* The upper half of jemalloc: huge allocations (huge.c and the huge part  *)
(* of arena.c), resizing, the caches of the threads (tcache.c, tcache.h),  *)
(* and threads that allocate, resize and free through je_malloc,           *)
(* je_memalign, je_realloc and je_free, as skynet's malloc_hook.c does.    *)
(* A thread is a stack of frames; one step runs its top frame, and those   *)
(* below it up to the next one that takes a lock (LockTakers), with what   *)
(* other threads do between two steps.                                     *)
(***************************************************************************)
EXTENDS Arena

CONSTANTS
    HeapSettings,           \* the build, the options and the bounds: see InitHeap
    NodeInd,                \* the size class of an extent node and of a tcache
    nhbins,                 \* the size classes 1..nhbins are cached by threads
    TCACHE_NSLOTS_SMALL_MIN, TCACHE_NSLOTS_SMALL_MAX, TCACHE_NSLOTS_LARGE,
    TCACHE_GC_INCR, DECAY_NTICKS_PER_UPDATE,
    MaxSteps                \* bounds the steps of a call: see CallsReturn

VARIABLES
    heap,    \* h: everything the allocator knows, and the memory
    th,      \* of each thread its frames, the last value returned, its call and its steps in it
    live,    \* what callers hold: a pointer and its size class
    quota    \* how many more calls there will be

heapVars == <<heap, th, live, quota>>

Ret(h, k, ret) == [h |-> h, k |-> k, ret |-> ret]
AndThen(r, f, ret) == Ret(r.h, Append(r.k, f), ret)
Tick(a, n, alloc) == [op |-> "tick", a |-> a, n |-> n, alloc |-> alloc]
Npages(size) == size \div PAGE
NactiveAdd(h, a, n) == [h EXCEPT !.ar[a].nactive = @ + n]
NactiveSub(h, a, n) ==
    Assert_([h EXCEPT !.ar[a].nactive = @ - n], "nactive", h.ar[a].nactive >= n)

\* arena_decay_ticks, of an allocation only if it succeeded
ticker_ticks(tick, n, reset) == [fires |-> tick < n, tick |-> IF tick < n THEN reset ELSE tick - n]
arena_decay_ticks(h, t, f, ret) ==
    LET d == ticker_ticks(h.tick[t][f.a], f.n, DECAY_NTICKS_PER_UPDATE)
    IN  IF f.alloc /\ ret = NULL THEN Ret(h, <<>>, ret)
        ELSE Ret([h EXCEPT !.tick[t][f.a] = d.tick],
                 IF d.fires THEN <<[op |-> "purge", a |-> f.a]>> ELSE <<>>, ret)

-----------------------------------------------------------------------------
\* Huge allocations: a node, then chunks that the arena has cached or that come
\* from elsewhere, and then the chunk is registered

huge_palloc(a, u, al, zero) ==
    <<[op |-> "malloc_small", a |-> a, b |-> NodeInd], Tick(a, 1, TRUE),
      [op |-> "huge_node", a |-> a, u |-> u, al |-> al, zero |-> zero]>>
FreeNode(a, node) == <<[op |-> "dalloc_small", p |-> node], Tick(a, 1, FALSE)>>

HugeFrame(f, op, node, c, is_zeroed) ==
    [op |-> op, a |-> f.a, u |-> f.u, al |-> f.al, zero |-> f.zero, node |-> node, c |-> c,
     is_zeroed |-> is_zeroed]
huge_node(h, f, node) ==
    IF node = NULL THEN Ret(h, <<>>, NULL)
    ELSE Ret(h, <<HugeFrame(f, "huge_chunk", node, NULL, f.zero)>>, NULL)
HugeGot(f, r, otherwise) ==
    Ret(r.h, <<HugeFrame(f, IF r.ret = NULL THEN otherwise ELSE "huge_set", f.node, r.ret, r.zero)>>,
        NULL)
arena_chunk_alloc_huge(h, f) ==
    HugeGot(f, chunk_alloc_cache(NactiveAdd(h, f.a, Npages(f.u)), f.a, NULL, CHUNK_CEILING(f.u),
                                 f.al, f.zero), "huge_hard")
arena_chunk_alloc_huge_hard(h, f) ==
    HugeGot(f, chunk_alloc_wrapper(h, f.a, NULL, CHUNK_CEILING(f.u), f.al, f.is_zeroed, TRUE),
            "huge_revert")
HugeRevert(h, f) == Ret(NactiveSub(h, f.a, Npages(f.u)), FreeNode(f.a, f.node), NULL)

HugePages(c, first, last) == c * chunk_npages + Npages(first) .. c * chunk_npages + Npages(last) - 1
HugeRegistered(h, f) ==
    Ret(IF f.zero /\ ~f.is_zeroed THEN Memset(h, HugePages(f.c, 0, f.u)) ELSE h,
        <<Tick(f.a, 1, FALSE)>>, f.c * chunksize)
huge_node_set(h, f) ==
    LET r == chunk_register(h, f.c, [kind |-> "huge", arena |-> f.a, size |-> f.u,
                                     zeroed |-> f.is_zeroed])
    IN  IF r.err
        THEN Ret(h, <<[op |-> "huge_dalloc_chunk", a |-> f.a, c |-> f.c, u |-> f.u]>>
                      \o FreeNode(f.a, f.node), NULL)
        ELSE HugeRegistered([r.h EXCEPT !.ar[f.a].huge = @ \cup {<<f.c, f.node>>}], f)

huge_dalloc(h, c) ==
    LET n == h.rtree[c]
        e == CHOOSE x \in h.ar[n.arena].huge : x[1] = c
    IN  Ret([chunk_deregister(h, c) EXCEPT !.ar[n.arena].huge = @ \ {e}],
            <<[op |-> "huge_dalloc_chunk", a |-> n.arena, c |-> c, u |-> n.size]>>
               \o FreeNode(n.arena, e[2]) \o <<Tick(n.arena, 1, FALSE)>>, NULL)
arena_chunk_dalloc_huge(h, f) ==
    arena_maybe_purge(chunk_dalloc_cache(NactiveSub(h, f.a, Npages(f.u)), f.a, f.c,
                                         CHUNK_CEILING(f.u), TRUE), f.a)

-----------------------------------------------------------------------------
\* je_malloc and je_memalign, past the cache of the thread

LargePages(u) == Npages(u + large_pad)
arena_malloc_hard(a, ind, zero) ==
    LET u == index2size(ind)
    IN  IF u <= SMALL_MAXCLASS
        THEN <<[op |-> "malloc_small", a |-> a, b |-> ind], Tick(a, 1, TRUE)>>
        ELSE IF u <= large_maxclass
        THEN <<RunAllocFrame(a, 0, LargePages(u), zero), [op |-> "addr"], Tick(a, 1, TRUE)>>
        ELSE huge_palloc(a, u, 1, zero)

\* Aligned to al pages: a run with room to spare, cut at both ends
PallocFrame(a, u, al, ph, p) ==
    [op |-> "palloc", a |-> a, u |-> u, al |-> al, ph |-> ph, p |-> p]
arena_palloc_large(a, u, al) ==
    <<RunAllocFrame(a, 0, LargePages(u) + al - 1, FALSE), PallocFrame(a, u, al, 1, NULL),
      [op |-> "addr"], Tick(a, 1, TRUE)>>
PallocTrimHead(h, f, p) ==
    LET all == LargePages(f.u) + f.al - 1
        lead == (-p) % f.al
        next == PallocFrame(f.a, f.u, f.al, 2, p + lead)
    IN  IF p = NULL THEN Ret(h, <<>>, NULL)
        ELSE IF lead = 0 THEN Ret(h, <<next>>, NULL)
        ELSE AndThen(arena_run_trim_head(h, f.a, p, all, all - lead), next, NULL)
PallocTrimTail(h, f) ==
    LET have == h.map[f.p].sz
        need == LargePages(f.u)
        next == [f EXCEPT !.ph = 3]
    IN  IF have = need THEN Ret(h, <<next>>, NULL)
        ELSE AndThen(arena_run_trim_tail(h, f.a, f.p, have, need, FALSE), next, NULL)
PallocInit(h, f) ==
    IF arena_run_init_large(h, f.a, f.p, LargePages(f.u), FALSE).ret # NULL
    THEN arena_run_init_large(h, f.a, f.p, LargePages(f.u), FALSE)
    ELSE arena_run_dalloc(Assert_(h, "palloc", h.map[f.p].de), f.a, f.p, h.map[f.p].di, FALSE,
                          h.map[f.p].de)
PallocLarge(h, f, ret) ==
    CASE f.ph = 1 -> PallocTrimHead(h, f, ret)
      [] f.ph = 2 -> PallocTrimTail(h, f)
      [] f.ph = 3 -> PallocInit(h, f)

-----------------------------------------------------------------------------
\* The caches of the threads.  avail holds the pointers, the next one to be
\* taken last.

NCachedMax(i) ==
    IF i > NBINS THEN TCACHE_NSLOTS_LARGE
    ELSE Max({TCACHE_NSLOTS_SMALL_MIN,
              Min({TCACHE_NSLOTS_SMALL_MAX, 2 * arena_bin_info[i].nregs})})
NewTcache(self) ==
    [self |-> self, next_gc_bin |-> 1, gc_ticker |-> TCACHE_GC_INCR,
     tbins |-> [i \in 1..nhbins |-> [avail |-> <<>>, low_water |-> 0, lg_fill_div |-> 1]]]
ArenaOf(h, ptr) == h.rtree[PageChunk(AddrPage(ptr))].arena
Cached(h, t, i) == h.tc[t].self # NULL /\ i <= nhbins

\* tcache_get(tsd, TRUE): made on first use, without it if there is no memory
tcache_get(h, t) ==
    IF ~h.opt_tcache \/ h.tc[t].self # NULL THEN <<>>
    ELSE <<[op |-> "malloc_small", a |-> Min(Arenas), b |-> NodeInd], Tick(Min(Arenas), 1, TRUE),
           [op |-> "tcache_create"]>>
tcache_create(h, t, ret) ==
    Ret(IF ret = NULL THEN h ELSE [h EXCEPT !.tc[t] = NewTcache(ret)], <<>>, NULL)

TakeTop(tb) ==
    [tb EXCEPT !.avail = Front(@), !.low_water = Min({@, Len(tb.avail) - 1})]
tcache_alloc_easy(h, t, i) ==
    LET tb == h.tc[t].tbins[i]
    IN  IF tb.avail = <<>> THEN Ret([h EXCEPT !.tc[t].tbins[i].low_water = -1], <<>>, NULL)
        ELSE Ret([h EXCEPT !.tc[t].tbins[i] = TakeTop(tb)], <<>>, tb.avail[Len(tb.avail)])

EventFrame(alloc) == [op |-> "event", alloc |-> alloc]
\* arena_malloc, and tcache_alloc_small and tcache_alloc_large
tcache_alloc(h, t, f) ==
    LET r == tcache_alloc_easy(h, t, f.ind)
        a == h.bind[t]
    IN  IF ~Cached(h, t, f.ind) THEN Ret(h, arena_malloc_hard(a, f.ind, f.zero), NULL)
        ELSE IF r.ret # NULL
        THEN Ret(IF f.zero /\ f.ind > NBINS
                 THEN Memset(r.h, AddrPage(r.ret) .. AddrPage(r.ret) + Npages(index2size(f.ind)))
                 ELSE r.h, <<EventFrame(TRUE)>>, r.ret)
        ELSE IF f.ind <= NBINS
        THEN Ret(r.h, <<[op |-> "fill", a |-> a, b |-> f.ind, got |-> <<>>], EventFrame(TRUE)>>, NULL)
        ELSE Ret(r.h, Append(arena_malloc_hard(a, f.ind, f.zero), EventFrame(TRUE)), NULL)

\* arena_tcache_fill_small: the bin's lock is held from one region to the next,
\* but for the time it takes to get a run
FillDone(h, t, f) ==
    LET r == tcache_alloc_easy([h EXCEPT !.tc[t].tbins[f.b].avail = Reverse(f.got)], t, f.b)
    IN  [r EXCEPT !.k = <<Tick(f.a, 1, FALSE)>>]
Fill(h, t, f) ==
    IF Len(f.got) = NCachedMax(f.b) \div 2^h.tc[t].tbins[f.b].lg_fill_div THEN FillDone(h, t, f)
    ELSE LET r == arena_malloc_small(h, f.a, f.b)
         IN  Ret(r.h, Append(r.k, [f EXCEPT !.op = "fill_next"]), r.ret)
FillNext(h, t, f, ret) ==
    IF ret = NULL THEN FillDone(h, t, f) ELSE Fill(h, t, [f EXCEPT !.got = Append(@, ret)])

\* tcache_bin_flush_small and _large: those of one arena under its lock, the
\* others in another pass
FlushFrame(i, n) == [op |-> "flush", i |-> i, n |-> n, list |-> <<>>, later |-> <<>>, a |-> NULL, m |-> 0]
FlushTo(h, t, i, rem) == FlushFrame(i, Len(h.tc[t].tbins[i].avail) - rem)
FlushStart(h, t, f) ==
    IF f.n = 0 THEN Ret(h, <<>>, NULL)
    ELSE Ret(h, <<[f EXCEPT !.op = "flush_pass",
                            !.list = SubSeq(h.tc[t].tbins[f.i].avail, 1, f.n)]>>, NULL)
Flushed(h, t, f) ==
    [h EXCEPT !.tc[t].tbins[f.i] =
        [@ EXCEPT !.avail = SubSeq(@, f.n + 1, Len(@)),
                  !.low_water = Min({@, Len(h.tc[t].tbins[f.i].avail) - f.n})]]
FlushPassDone(h, t, f) ==
    IF f.later = <<>> THEN Ret(Flushed(h, t, f), <<>>, NULL)
    ELSE Ret(h, <<[f EXCEPT !.op = "flush_pass", !.list = f.later, !.later = <<>>]>>, NULL)
Relock(r, f) == AndThen(r, IF r.k = <<>> THEN f ELSE [f EXCEPT !.op = "flush_relock"], NULL)
FlushOne(h, f) ==
    LET ptr == Head(f.list)
        rest == [f EXCEPT !.list = Tail(@)]
    IN  IF ArenaOf(h, ptr) # f.a THEN Ret(h, <<[rest EXCEPT !.later = Append(@, ptr)]>>, NULL)
        ELSE IF f.i > NBINS
        THEN AndThen(arena_run_dalloc(h, f.a, AddrPage(ptr), TRUE, FALSE, FALSE), rest, NULL)
        ELSE Relock(arena_dalloc_bin_locked_impl(h, f.a, ptr), rest)
FlushNext(h, t, f) ==
    IF f.list # <<>> THEN FlushOne(h, [f EXCEPT !.op = "flush_next"])
    ELSE Ret(h, <<Tick(f.a, f.m - Len(f.later), FALSE), [f EXCEPT !.op = "flush_pass_done"]>>, NULL)
\* Mutant of FlushPass: a pass locks the arena of the thread, not that of the first
\* object
FlushPassHome(h, t, f) == FlushNext(h, t, [f EXCEPT !.a = h.bind[t], !.m = Len(f.list)])

FlushPass(h, t, f) ==
    FlushNext(h, t, [f EXCEPT !.a = ArenaOf(h, Head(f.list)), !.m = Len(f.list)])

\* tcache_dalloc_small and _large
PushFrame(i, ptr) == [op |-> "push", i |-> i, p |-> ptr]
Push(h, t, f) == [h EXCEPT !.tc[t].tbins[f.i].avail = Append(@, f.p)]
tcache_dalloc(h, t, i, ptr) ==
    (IF Len(h.tc[t].tbins[i].avail) = NCachedMax(i) THEN <<FlushTo(h, t, i, NCachedMax(i) \div 2)>>
     ELSE <<>>) \o <<PushFrame(i, ptr), EventFrame(FALSE)>>

\* The incremental collection of what a thread has not used for a while
tcache_event(h, t, f, ret) ==
    LET d == ticker_ticks(h.tc[t].gc_ticker, 1, TCACHE_GC_INCR)
        i == h.tc[t].next_gc_bin
        tb == h.tc[t].tbins[i]
        g == [h EXCEPT !.tc[t].gc_ticker = d.tick]
    IN  IF f.alloc /\ ret = NULL THEN Ret(h, <<>>, ret)
        ELSE IF ~d.fires THEN Ret(g, <<>>, ret)
        ELSE IF tb.low_water > 0
        THEN Ret(g, <<FlushTo(h, t, i, Len(tb.avail) - tb.low_water + tb.low_water \div 4),
                      [op |-> "gc", div |-> 1]>>, ret)
        ELSE Ret(g, <<[op |-> "gc", div |-> IF tb.low_water < 0 THEN -1 ELSE 0]>>, ret)
tcache_event_hard(h, t, f) ==
    LET i == h.tc[t].next_gc_bin
        div == h.tc[t].tbins[i].lg_fill_div
        new == CASE f.div = 1 -> IF NCachedMax(i) \div 2^(div + 1) >= 1 THEN div + 1 ELSE div
                 [] f.div = -1 -> IF div > 1 THEN div - 1 ELSE div
                 [] OTHER -> div
    IN  [h EXCEPT !.tc[t].tbins[i].lg_fill_div = new,
                  !.tc[t].tbins[i].low_water = Len(h.tc[t].tbins[i].avail),
                  !.tc[t].next_gc_bin = IF i = nhbins THEN 1 ELSE i + 1]

\* A thread that ends
tcache_destroy(h, t) ==
    IF h.tc[t].self = NULL THEN <<>>
    ELSE [i \in 1..nhbins |-> FlushTo(h, t, i, 0)]
            \o <<[op |-> "tcache_gone", p |-> h.tc[t].self]>>
TcacheGone(h, t, f) ==
    Ret([h EXCEPT !.tc[t] = NewTcache(NULL)], FreeNode(ArenaOf(h, f.p), f.p), NULL)

-----------------------------------------------------------------------------
\* je_free and je_realloc

\* arena_dalloc
FreeObject(h, t, ptr, i) ==
    IF ptr % chunksize = 0 THEN <<[op |-> "huge_dalloc", c |-> ptr \div chunksize]>>
    ELSE IF Cached(h, t, i) THEN tcache_dalloc(h, t, i, ptr)
    ELSE IF i <= NBINS THEN <<[op |-> "dalloc_small", p |-> ptr], Tick(ArenaOf(h, ptr), 1, FALSE)>>
    ELSE <<[op |-> "run_dalloc", a |-> ArenaOf(h, ptr), p |-> AddrPage(ptr)],
           Tick(ArenaOf(h, ptr), 1, FALSE)>>

MallocFrame(ind, zero) == [op |-> "malloc", ind |-> ind, zero |-> zero]
Move(f) == <<MallocFrame(f.new, FALSE), [op |-> "moved", p |-> f.p, old |-> f.old]>>
Moved(h, t, f, ret) == Ret(h, IF ret = NULL THEN <<>> ELSE FreeObject(h, t, f.p, f.old), ret)

\* How to resize in place: huge_ralloc_no_move, with usize_min = usize_max, and
\* arena_ralloc_no_move
huge_ralloc_no_move(o, u) ==
    IF CHUNK_CEILING(u) > CHUNK_CEILING(o) THEN "huge_expand"
    ELSE IF CHUNK_CEILING(u) = CHUNK_CEILING(o) THEN "huge_similar" ELSE "huge_shrink"
Resize(o, u) ==
    CASE o = u -> "stay"
      [] o < u /\ SMALL_MAXCLASS < o /\ u <= large_maxclass -> "grow"
      [] u < o /\ SMALL_MAXCLASS < u /\ o <= large_maxclass -> "shrink"
      [] o # u /\ o >= chunksize /\ u >= chunksize -> huge_ralloc_no_move(o, u)
      [] OTHER -> "move"
arena_ralloc(h, f) ==
    LET how == Resize(index2size(f.old), index2size(f.new))
        a == ArenaOf(h, f.p)
    IN  CASE how = "move" -> Ret(h, Move(f), NULL)
          [] how = "stay" -> Ret(h, <<Tick(a, 1, FALSE)>>, f.p)
          [] OTHER -> Ret(h, <<[op |-> how, a |-> a, p |-> f.p, old |-> f.old, new |-> f.new,
                                o |-> index2size(f.old), u |-> index2size(f.new)]>>, NULL)

\* Into the free run that follows, if it is long enough
GrowInto(h, f, page, q, r) ==
    LET n == LargePages(f.u)
        di == h.map[page].di \/ r.h.map[page + n - 1].di
        fl(p) == Flags(di, ~di /\ r.h.map[p].un, FALSE)
    IN  IF r.ret = NULL THEN Ret(h, Move(f), NULL)
        ELSE Ret([r.h EXCEPT !.map = LargeEnds(@, page, n, fl(page), fl(page + n - 1))],
                 <<Tick(f.a, 1, FALSE)>>, f.p)
arena_ralloc_large_grow(h, f) ==
    LET page == AddrPage(f.p)
        q == page + LargePages(f.o)
    IN  IF q > LastPage(PageChunk(page)) \/ h.map[q].al \/ f.o + h.map[q].sz * PAGE < f.u
        THEN Ret(h, Move(f), NULL)
        ELSE GrowInto(h, f, page, q, arena_run_split_large(h, f.a, q, Npages(f.u - f.o), FALSE))
arena_ralloc_large_shrink(h, f) ==
    AndThen(arena_run_trim_tail(h, f.a, AddrPage(f.p), LargePages(f.o), LargePages(f.u), TRUE),
            Tick(f.a, 1, FALSE), f.p)

ResetNode(h, c, u, zeroed) == [h EXCEPT !.rtree[c] = [@ EXCEPT !.size = u, !.zeroed = zeroed]]
\* huge_ralloc_no_move_similar and _shrink up to where the arena is told
HugeResized(h, f) ==
    LET c == f.p \div chunksize
        r == pages_purge(h, HugePages(c, f.u, f.o))
    IN  Ret(IF f.u < f.o THEN ResetNode(r.h, c, f.u, ~r.unzeroed)
            ELSE ResetNode(h, c, f.u, h.rtree[c].zeroed),
            <<[f EXCEPT !.op = IF f.op = "huge_similar" THEN "huge_count" ELSE "huge_cut"],
              Tick(f.a, 1, FALSE)>>, f.p)
arena_chunk_ralloc_huge_similar(h, f) ==
    IF f.o < f.u THEN NactiveAdd(h, f.a, Npages(f.u - f.o)) ELSE NactiveSub(h, f.a, Npages(f.o - f.u))
arena_chunk_ralloc_huge_shrink(h, f) ==
    arena_maybe_purge(
        chunk_dalloc_cache(NactiveSub(h, f.a, Npages(f.o - f.u)), f.a,
                           f.p \div chunksize + CHUNK_CEILING(f.u),
                           CHUNK_CEILING(f.o) - CHUNK_CEILING(f.u), TRUE), f.a)

\* huge_ralloc_no_move_expand
HugeExpanded(r, f, otherwise) ==
    LET c == f.p \div chunksize
    IN  IF r.ret = NULL THEN Ret(r.h, <<[f EXCEPT !.op = otherwise]>>, NULL)
        ELSE Ret(ResetNode(r.h, c, f.u, r.h.rtree[c].zeroed /\ r.zero), <<Tick(f.a, 1, FALSE)>>, f.p)
ExpandAt(f) == f.p \div chunksize + CHUNK_CEILING(f.o)
ExpandBy(f) == CHUNK_CEILING(f.u) - CHUNK_CEILING(f.o)
arena_chunk_ralloc_huge_expand(h, f) ==
    HugeExpanded(chunk_alloc_cache(NactiveAdd(h, f.a, Npages(f.u - f.o)), f.a, ExpandAt(f),
                                   ExpandBy(f), 1, FALSE), f, "huge_expand_hard")
arena_chunk_ralloc_huge_expand_hard(h, f) ==
    HugeExpanded(chunk_alloc_wrapper(h, f.a, ExpandAt(f), ExpandBy(f), 1, FALSE, TRUE), f,
                 "huge_unexpand")
HugeUnexpand(h, f) == Ret(NactiveSub(h, f.a, Npages(f.u - f.o)), Move(f), NULL)

-----------------------------------------------------------------------------
\* The threads

\* The frames that begin by taking a lock; the others go on where they are
LockTakers ==
    {"malloc_small", "run_alloc", "chunk_hard", "chunk_init", "bin_malloc_hard", "run_dalloc",
     "dalloc_small", "purge_stashed", "unstash", "purge", "fill", "flush_pass", "flush_relock",
     "huge_chunk", "huge_hard", "huge_revert", "huge_dalloc", "huge_dalloc_chunk", "grow",
     "shrink", "huge_similar", "huge_shrink", "huge_count", "huge_cut", "huge_expand",
     "huge_expand_hard", "huge_unexpand"}

RunOps ==
    {"malloc_small", "run_alloc", "chunk_hard", "chunk_init", "run_search", "bin_malloc_hard",
     "addr", "palloc", "run_dalloc", "dalloc_small", "purge_stashed", "unstash", "maybe_purge",
     "purge"}
HugeOps ==
    {"huge_node", "huge_chunk", "huge_hard", "huge_revert", "huge_set", "huge_dalloc",
     "huge_dalloc_chunk", "huge_similar", "huge_shrink", "huge_count", "huge_cut", "huge_expand",
     "huge_expand_hard", "huge_unexpand"}

Keep(r, ret) == [r EXCEPT !.ret = ret]
ExecRuns(h, f, ret) ==
    CASE f.op = "malloc_small"    -> arena_malloc_small(h, f.a, f.b)
      [] f.op = "run_alloc"       -> arena_run_alloc(h, f)
      [] f.op = "chunk_hard"      -> arena_chunk_alloc_internal_hard(h, f)
      [] f.op = "chunk_init"      -> ChunkInit(h, f)
      [] f.op = "run_search"      -> ChunkInit(h, f)
      [] f.op = "bin_malloc_hard" -> arena_bin_malloc_hard(h, f.a, f.b, ret)
      [] f.op = "addr"            -> Ret(h, <<>>, ret * PAGE)
      [] f.op = "palloc"          -> PallocLarge(h, f, ret)
      [] f.op = "run_dalloc"      -> Keep(arena_run_dalloc(h, f.a, f.p, TRUE, FALSE, FALSE), ret)
      [] f.op = "dalloc_small"    -> Keep(arena_dalloc_bin_locked_impl(h, ArenaOf(h, f.p), f.p), ret)
      [] f.op = "purge_stashed"   -> Keep(arena_purge_stashed(h, f.a, f.st), ret)
      [] f.op = "unstash"         -> Keep(arena_unstash_purged(h, f.a, f.st), ret)
      [] f.op = "maybe_purge"     -> Keep(arena_maybe_purge(h, f.a), ret)
      [] f.op = "purge"           -> Keep(arena_maybe_purge(h, f.a), ret)
ExecHuge(h, f, ret) ==
    CASE f.op = "huge_node"         -> huge_node(h, f, ret)
      [] f.op = "huge_chunk"        -> arena_chunk_alloc_huge(h, f)
      [] f.op = "huge_hard"         -> arena_chunk_alloc_huge_hard(h, f)
      [] f.op = "huge_revert"       -> HugeRevert(h, f)
      [] f.op = "huge_set"          -> huge_node_set(h, f)
      [] f.op = "huge_dalloc"       -> Keep(huge_dalloc(h, f.c), ret)
      [] f.op = "huge_dalloc_chunk" -> Keep(arena_chunk_dalloc_huge(h, f), ret)
      [] f.op = "huge_similar"      -> HugeResized(h, f)
      [] f.op = "huge_shrink"       -> HugeResized(h, f)
      [] f.op = "huge_count"        -> Ret(arena_chunk_ralloc_huge_similar(h, f), <<>>, ret)
      [] f.op = "huge_cut"          -> Keep(arena_chunk_ralloc_huge_shrink(h, f), ret)
      [] f.op = "huge_expand"       -> arena_chunk_ralloc_huge_expand(h, f)
      [] f.op = "huge_expand_hard"  -> arena_chunk_ralloc_huge_expand_hard(h, f)
      [] f.op = "huge_unexpand"     -> HugeUnexpand(h, f)
ExecThread(h, t, f, ret) ==
    CASE f.op = "malloc"          -> tcache_alloc(h, t, f)
      [] f.op = "free"            -> Ret(h, FreeObject(h, t, f.p, f.ind), NULL)
      [] f.op = "ralloc"          -> arena_ralloc(h, f)
      [] f.op = "moved"           -> Moved(h, t, f, ret)
      [] f.op = "grow"            -> arena_ralloc_large_grow(h, f)
      [] f.op = "shrink"          -> arena_ralloc_large_shrink(h, f)
      [] f.op = "tick"            -> arena_decay_ticks(h, t, f, ret)
      [] f.op = "tcache_create"   -> tcache_create(h, t, ret)
      [] f.op = "tcache_gone"     -> TcacheGone(h, t, f)
      [] f.op = "event"           -> tcache_event(h, t, f, ret)
      [] f.op = "gc"              -> Ret(tcache_event_hard(h, t, f), <<>>, ret)
      [] f.op = "push"            -> Ret(Push(h, t, f), <<>>, ret)
      [] f.op = "fill"            -> Fill(h, t, f)
      [] f.op = "fill_next"       -> FillNext(h, t, f, ret)
      [] f.op = "flush"           -> Keep(FlushStart(h, t, f), ret)
      [] f.op = "flush_pass"      -> Keep(FlushPass(h, t, f), ret)
      [] f.op = "flush_relock"    -> Keep(FlushNext(h, t, f), ret)
      [] f.op = "flush_next"      -> Keep(FlushNext(h, t, f), ret)
      [] f.op = "flush_pass_done" -> Keep(FlushPassDone(h, t, f), ret)

Exec(h, t, f, ret) ==
    IF f.op \in RunOps THEN ExecRuns(h, f, ret)
    ELSE IF f.op \in HugeOps THEN ExecHuge(h, f, ret)
    ELSE ExecThread(h, t, f, ret)

\* R is a state, the frames of thread t and the last value returned
RECURSIVE Run(_, _)
RunOn(t, r, k) ==
    LET rest == r.k \o k
    IN  IF rest = <<>> \/ Head(rest).op \in LockTakers THEN Ret(r.h, rest, r.ret)
        ELSE Run(t, Ret(r.h, rest, r.ret))
Run(t, R) == RunOn(t, Exec(R.h, t, Head(R.k), R.ret), Tail(R.k))

-----------------------------------------------------------------------------
\* The caller: what a call gives it once it has returned

ObjectPages(o) ==
    IF o.ind <= NBINS THEN AddrPage(o.p) .. AddrPage(o.p + index2size(o.ind) - 1)
    ELSE AddrPage(o.p) .. AddrPage(o.p) + Npages(index2size(o.ind)) - 1
NoCall == [op |-> "none", ind |-> 0, zero |-> FALSE, p |-> NULL, old |-> 0]
\* The caller writes to all it gets
Written(h, o, zero) ==
    Assert_(Assert_([h EXCEPT !.mem = Spread(@, ObjectPages(o), "data")], "touched",
                    \A p \in ObjectPages(o) : h.com[p]),
            "calloc", zero /\ o.ind > NBINS => \A p \in ObjectPages(o) : h.mem[p] = "zero")
Settle(t, R, call) ==
    LET got == [p |-> R.ret, ind |-> call.ind]
        gives == R.k = <<>> /\ call.op \in {"malloc", "ralloc"}
    IN  /\ heap' = [(IF gives /\ R.ret # NULL THEN Written(R.h, got, call.zero) ELSE R.h)
                        EXCEPT !.fails = {}]
        /\ th' = [th EXCEPT ![t] = [k |-> R.k, ret |-> IF R.k = <<>> THEN NULL ELSE R.ret,
                                    call |-> IF R.k = <<>> THEN NoCall ELSE call,
                                    steps |-> IF R.k = <<>> THEN 0 ELSE th[t].steps + 1]]
        /\ live' = IF gives /\ R.ret # NULL THEN live \cup {got}
                   ELSE IF gives /\ call.op = "ralloc"
                   THEN live \cup {[p |-> call.p, ind |-> call.old]} ELSE live

Begin(t, frames, call, objs) ==
    /\ th[t].k = <<>>
    /\ quota > 0
    /\ quota' = quota - 1
    /\ th' = [th EXCEPT ![t] = [k |-> frames, ret |-> NULL, call |-> call, steps |-> 0]]
    /\ live' = objs
    /\ UNCHANGED heap

Malloc(t, ind, zero) ==
    Begin(t, Append(tcache_get(heap, t), MallocFrame(ind, zero)),
          [NoCall EXCEPT !.op = "malloc", !.ind = ind, !.zero = zero], live)
\* arena_palloc, with an alignment of al pages
Memalign(t, ind, al) ==
    Begin(t, IF index2size(ind) <= large_maxclass
             THEN arena_palloc_large(heap.bind[t], index2size(ind), al)
             ELSE huge_palloc(heap.bind[t], index2size(ind), al \div chunk_npages, FALSE),
          [NoCall EXCEPT !.op = "malloc", !.ind = ind], live)
Realloc(t, o, ind) ==
    Begin(t, Append(tcache_get(heap, t), [op |-> "ralloc", p |-> o.p, old |-> o.ind, new |-> ind]),
          [NoCall EXCEPT !.op = "ralloc", !.ind = ind, !.p = o.p, !.old = o.ind], live \ {o})
FreeCall(t, o) ==
    Begin(t, <<[op |-> "free", p |-> o.p, ind |-> o.ind]>>, [NoCall EXCEPT !.op = "free"], live \ {o})
ThreadExit(t) ==
    /\ heap.tc[t].self # NULL
    /\ Begin(t, tcache_destroy(heap, t), [NoCall EXCEPT !.op = "exit"], live)

\* In any step the system may refuse one of heap.faults
HeapStep(t) ==
    /\ th[t].k # <<>>
    /\ UNCHANGED quota
    /\ \E fails \in {{}} \cup (IF heap.nfaults > 0
                               THEN {{x} : x \in heap.faults} ELSE {}) :
          \E R \in {Run(t, Ret([heap EXCEPT !.fails = fails, !.nfaults = @ - Cardinality(fails)],
                             th[t].k, th[t].ret))} : Settle(t, R, th[t].call)

\* The clock, which may be set back
Clock ==
    /\ \E time \in heap.times \ {heap.time} : heap' = [heap EXCEPT !.time = time]
    /\ UNCHANGED <<th, live, quota>>

-----------------------------------------------------------------------------
NewArena(deadline) ==
    [cached |-> {}, retained |-> {}, runs_dirty |-> <<>>, chunks_cache |-> <<>>, ndirty |-> 0,
     runs_avail |-> {}, nactive |-> 0, spare |-> NULL, achunks |-> {}, huge |-> {},
     purging |-> FALSE, bins |-> [b \in 1..NBINS |-> [runcur |-> NULL, runs |-> {}]],
     decay |-> [epoch |-> 0, deadline |-> deadline, ndirty |-> 0, backlog |-> [i \in 1..NSTEPS |-> 0],
                npages_limit |-> 0]]
InitHeap(s) ==
    [os_overcommits |-> s.overcommits, config_munmap |-> s.munmap, up |-> s.up, fails |-> {},
     vm |-> {}, mem |-> [p \in AllPages |-> "zero"], com |-> [p \in AllPages |-> FALSE], err |-> {},
     rtree |-> [c \in Chunks |-> Unregistered], 
     ar |-> [a \in Arenas |-> NewArena(DeadlineAfter(s, 0))],
     map |-> [p \in AllPages |-> UntouchedBits],
     run |-> [p \in AllPages |-> [binind |-> 0, nfree |-> 0, used |-> {}]],
     opt_purge |-> s.purge, lg_dirty_mult |-> s.lg_dirty_mult, decay_time |-> s.decay_time,
     jitter |-> s.jitter, time |-> 0, times |-> s.times, faults |-> s.faults,
     nfaults |-> s.nfaults, opt_tcache |-> s.tcache, bind |-> s.bind,
     calls |-> s.calls,
     tick |-> [t \in DOMAIN s.bind |-> [a \in Arenas |-> DECAY_NTICKS_PER_UPDATE]],
     tc |-> [t \in DOMAIN s.bind |-> NewTcache(NULL)]]

HeapInit ==
    /\ \E s \in HeapSettings : heap = InitHeap(s) /\ quota = s.quota
    /\ th = [t \in DOMAIN heap.bind |-> [k |-> <<>>, ret |-> NULL, call |-> NoCall, steps |-> 0]]
    /\ live = {}

HeapThread(t) ==
    \/ \E ind \in heap.calls.malloc, zero \in heap.calls.zero : Malloc(t, ind, zero)
    \/ \E x \in heap.calls.memalign : Memalign(t, x[1], x[2])
    \/ \E o \in live, ind \in heap.calls.realloc : Realloc(t, o, ind)
    \/ \E o \in live : FreeCall(t, o)
    \/ ThreadExit(t)
    \/ HeapStep(t)
HeapNext == ~Aborted(heap) /\ ((\E t \in DOMAIN th : HeapThread(t)) \/ Clock)
HeapSpec == HeapInit /\ [][HeapNext]_heapVars

-----------------------------------------------------------------------------
SumSizes(S) == FoldSet(LAMBDA x, sum : x[2] + sum, 0, S)

\* What the map says of the runs of a chunk, from the first page on

RunAt(h, p) ==
    LET m == h.map[p]
    IN  [p |-> p, al |-> m.al, lg |-> m.lg, di |-> m.di, de |-> m.de,
         n |-> IF ~m.al \/ m.lg THEN m.sz
               ELSE IF m.bi \in 1..NBINS THEN arena_bin_info[m.bi].run_size ELSE 0]
RECURSIVE RunsFrom(_, _, _)
RunsFrom(h, p, last) ==
    IF p > last THEN {}
    ELSE LET r == RunAt(h, p)
         IN  {r} \cup (IF r.n = 0 THEN {} ELSE RunsFrom(h, p + r.n, last))
Runs(h, c) == RunsFrom(h, FirstPage(c), LastPage(c))
ChunksOf(A) == A.achunks \cup (IF A.spare = NULL THEN {} ELSE {A.spare})
RunsOf(h, cs) == UNION {Runs(h, c) : c \in cs}

\* The first page of a run and the last one agree, and the pages of a small one
RunKept(h, r) ==
    LET l == h.map[r.p + r.n - 1]
    IN  /\ r.n > 0
        /\ r.p + r.n - 1 <= LastPage(PageChunk(r.p))
        /\ ~r.al => ~l.al /\ l.sz = r.n /\ l.di = r.di /\ ~(r.di /\ r.de)
                     /\ (l.de = r.de \/ r.n = arena_maxrun)
        /\ r.al /\ r.lg => l.al /\ l.lg /\ l.di = r.di /\ (r.n > 1 => l.sz = 0)
        /\ r.al /\ ~r.lg =>
              /\ \A p \in r.p .. r.p + r.n - 1 :
                    h.map[p].al /\ ~h.map[p].lg /\ h.map[p].sz = p - r.p
              /\ h.run[r.p].nfree + Cardinality(h.run[r.p].used)
                    = arena_bin_info[h.map[r.p].bi].nregs
\* No two free runs that could be one, and clean pages said to be zero are
FreeKept(h, runs) ==
    \A r \in runs : ~r.al =>
        /\ \A s \in runs : s.p = r.p + r.n /\ ~s.al => s.di # r.di \/ s.de # r.de
        /\ ~r.de => \A p \in r.p .. r.p + r.n - 1 :
                       h.com[p] /\ (r.di \/ h.map[p].un \/ h.mem[p] = "zero")

\* The trees and rings of an arena hold what its map and its extents say
ArenaKept(h, a) ==
    LET A == h.ar[a]
        runs == RunsOf(h, ChunksOf(A))
        dirty == {r \in runs : ~r.al /\ r.di}
    IN  /\ \A r \in runs : RunKept(h, r)
        /\ FreeKept(h, runs)
        /\ A.runs_avail = {<<AvailIndex(r.n), r.p>> :
                              r \in {x \in RunsOf(h, A.achunks) : ~x.al}}
        /\ IsInjective(A.runs_dirty)
        /\ ToSet(A.runs_dirty) = {<<"run", r.p>> : r \in dirty}
                                   \cup {<<"chunk", e.addr>> : e \in A.cached}
        /\ A.chunks_cache = [i \in 1..Len(SelectSeq(A.runs_dirty, LAMBDA x : x[1] = "chunk")) |->
                               SelectSeq(A.runs_dirty, LAMBDA x : x[1] = "chunk")[i][2]]
        /\ A.ndirty = SumSizes({<<r.p, r.n>> : r \in dirty})
                        + SumSizes({<<e.addr, e.size * chunk_npages>> : e \in A.cached})
        /\ \A c \in ChunksOf(A) : h.rtree[c].kind = "arena" /\ h.rtree[c].arena = a

\* A run of small regions has a used one, or else it is given back, and its bin
\* knows it exactly if it has free ones
BinsKept(h, a) ==
    \A r \in RunsOf(h, ChunksOf(h.ar[a])) :
        LET x == h.run[r.p]
            b == h.ar[a].bins[x.binind]
        IN  r.al /\ ~r.lg => x.used # {} /\ (x.nfree > 0 <=> r.p \in b.runs \/
                                                (r.p = b.runcur /\ x.nfree > 0))

\* Every chunk has one owner at most
Owners(h) ==
    UNION {{<<a, "arena", c, 1>> : c \in ChunksOf(h.ar[a])}
            \cup {<<a, "huge", x[1], CHUNK_CEILING(h.rtree[x[1]].size)>> : x \in h.ar[a].huge}
            \cup {<<a, "cached", e.addr, e.size>> : e \in h.ar[a].cached}
            \cup {<<a, "retained", e.addr, e.size>> : e \in h.ar[a].retained} : a \in Arenas}
ChunksKept(h) ==
    /\ \A x, y \in Owners(h) :
          x # y => x[3] + x[4] <= y[3] \/ y[3] + y[4] <= x[3]
    /\ \A x \in Owners(h) : x[3] .. x[3] + x[4] - 1 \subseteq h.vm

-----------------------------------------------------------------------------
\* What belongs to whom

\* Pointers in the caches of the threads, and what the allocator keeps for itself
TcachedObjects(h) ==
    UNION {UNION {{[p |-> ptr, ind |-> i] : ptr \in ToSet(h.tc[t].tbins[i].avail)}
                    : i \in 1..nhbins} : t \in DOMAIN h.tc}
InternalObjects(h) ==
    UNION {{[p |-> x[2], ind |-> NodeInd] : x \in h.ar[a].huge} : a \in Arenas}
      \cup {[p |-> h.tc[t].self, ind |-> NodeInd] : t \in {x \in DOMAIN h.tc : h.tc[x].self # NULL}}

Small(h, o) ==
    LET run == AddrPage(o.p) - h.map[AddrPage(o.p)].sz
    IN  /\ h.map[AddrPage(o.p)].al /\ ~h.map[AddrPage(o.p)].lg
        /\ h.run[run].binind = o.ind
        /\ (o.p - run * PAGE) % index2size(o.ind) = 0
        /\ (o.p - run * PAGE) \div index2size(o.ind) \in h.run[run].used
Large(h, o) ==
    LET m == h.map[AddrPage(o.p)] IN m.al /\ m.lg /\ m.sz = LargePages(index2size(o.ind))
Huge(h, o) ==
    LET r == h.rtree[o.p \div chunksize]
    IN  r.kind = "huge" /\ r.size = index2size(o.ind) /\ o.p % chunksize = 0
\* The allocator knows the object, and the size that it was given for
Known(h, o) ==
    IF o.ind <= NBINS THEN Small(h, o)
    ELSE IF index2size(o.ind) <= large_maxclass THEN Large(h, o) ELSE Huge(h, o)
Apart(o, q) == o.p + index2size(o.ind) <= q.p \/ q.p + index2size(q.ind) <= o.p

\* When no call is under way: all that is allocated is somebody's
Used(h) ==
    UNION {UNION {IF ~r.al THEN {} ELSE IF r.lg THEN {r.p * PAGE}
                  ELSE {r.p * PAGE + i * index2size(h.run[r.p].binind) : i \in h.run[r.p].used}
                    : r \in RunsOf(h, ChunksOf(h.ar[a]))}
            \cup {x[1] * chunksize : x \in h.ar[a].huge} : a \in Arenas}
Active(h, a) ==
    SumSizes({<<r.p, r.n>> : r \in {x \in RunsOf(h, ChunksOf(h.ar[a])) : x.al}})
      + SumSizes({<<x[1], Npages(h.rtree[x[1]].size)>> : x \in h.ar[a].huge})
Idle == \A t \in DOMAIN th : th[t].k = <<>>

\* The allocator keeps its promises.  No assertion of arena.c, chunk.c, huge.c
\* or tcache.c fails, no page is touched that is not committed and calloc
\* returns zeroed memory (heap.err).  Whatever threads do while a lock is
\* dropped, the runs tile their chunks and the trees, rings and counters say
\* what the maps say; no chunk has two owners; an object that a caller or a
\* cache holds is allocated, with the size it was given for, and overlaps no
\* other; and with no call under way nothing that is allocated is nobody's.
\* All this up to a purge that is refused the commit of a cached chunk: there
\* the assertion of arena.c:1582 fails, and a build without assertions goes on
\* with a chunk that is both stashed and cached.
HeapKept ==
    LET objects == live \cup TcachedObjects(heap) \cup InternalObjects(heap)
    IN  Aborted(heap) \/
        /\ heap.err = {}
        /\ \A a \in Arenas : ArenaKept(heap, a)
        /\ ChunksKept(heap)
        /\ \A o \in live \cup InternalObjects(heap) : Known(heap, o)
        /\ \A o, q \in live \cup InternalObjects(heap) : o = q \/ Apart(o, q)
        /\ Idle =>
              /\ \A o \in objects : Known(heap, o)
              /\ \A o, q \in objects : o = q \/ Apart(o, q)
              /\ Used(heap) = {o.p : o \in objects}
              /\ \A a \in Arenas : heap.ar[a].nactive = Active(heap, a) /\ BinsKept(heap, a)

\* Every call of malloc, memalign, realloc and free returns after a bounded
\* number of steps of its thread, whatever the other threads do meanwhile: no
\* thread starts over for ever because another one was faster, or purges for
\* ever.  A step is what runs from one lock to the next; none waits but for a
\* lock, and a lock is held for a step.
CallsReturn == \A t \in DOMAIN th : th[t].steps < MaxSteps
=============================================================================
