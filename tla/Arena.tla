------------------------------- MODULE Arena -------------------------------
(***************************************************************************)
(* The arenas of jemalloc (arena.c): the runs of pages inside a chunk and  *)
(* the map that describes them, the bins that cut runs into regions, and   *)
(* the purging of dirty pages.  Every function of the code that changes an *)
(* arena is an operator from the state h to the record                     *)
(*    [h, k, ret]: the state, what is left to run, what it returns         *)
(* where k is a sequence of frames, the calls that go on once a lock that  *)
(* had to be dropped is taken again.  Sizes of runs are in pages, and an   *)
(* address is a number of bytes.                                           *)
(***************************************************************************)
EXTENDS Chunks

CONSTANTS
    map_bias,      \* pages of a chunk's header
    NBINS,         \* the size classes 1..NBINS are small
    NSTEPS         \* SMOOTHSTEP_NSTEPS

SIZE_T == 2^20     \* size_t: what a difference that goes below zero wraps to
large_pad == PAGE  \* config_cache_oblivious
arena_maxrun == chunk_npages - map_bias
SMALL_MAXCLASS == index2size(NBINS)
large_maxclass == index2size(Max({i \in DOMAIN SizeClasses :
                                    SizeClasses[i] + large_pad <= arena_maxrun * PAGE}))

PageCeiling(size) == (size + PAGE - 1) \div PAGE
AddrPage(ptr) == ptr \div PAGE
PageChunk(p) == p \div chunk_npages
Pageind(p) == p % chunk_npages
FirstPage(c) == c * chunk_npages + map_bias
LastPage(c) == (c + 1) * chunk_npages - 1

Done(h, ret) == [h |-> h, k |-> <<>>, ret |-> ret]

-----------------------------------------------------------------------------
\* The bins, and the sizes of runs that there are

\* bin_info_run_size_calc: the fewest pages that regions fill exactly
RunSizeCalc(reg_size) ==
    Min({n \in 1..arena_maxrun : (n * PAGE) % reg_size = 0 /\ n * PAGE >= reg_size})
arena_bin_info == [b \in 1..NBINS |->
    LET n == RunSizeCalc(index2size(b))
    IN  [run_size |-> n, nregs |-> (n * PAGE) \div index2size(b)]]

small_run_tab == {arena_bin_info[b].run_size : b \in 1..NBINS}
small_maxrun == Max(small_run_tab)

\* In bytes, of the pages n
FloorLarge(n) == index2size(size2index(n * PAGE - large_pad + 1) - 1) + large_pad
run_quantize_floor_compute[n \in 1..chunk_npages + 1] ==
    IF n \in small_run_tab THEN n * PAGE
    ELSE IF FloorLarge(n) <= SMALL_MAXCLASS + large_pad THEN run_quantize_floor_compute[n - 1]
    ELSE FloorLarge(n)
run_quantize_ceil_compute_hard(size) ==
    LET next == IF size > SMALL_MAXCLASS
                THEN {PageCeiling(index2size(size2index(size - large_pad) + 1) + large_pad)}
                ELSE {}
        small == {n \in small_run_tab : n * PAGE > size}
    IN  Min(next \cup small) * PAGE
run_quantize_ceil_compute(n) ==
    LET qsize == run_quantize_floor_compute[n]
    IN  IF qsize < n * PAGE THEN run_quantize_ceil_compute_hard(qsize) ELSE qsize
run_quantize_floor_tab == [n \in 1..chunk_npages + 1 |-> run_quantize_floor_compute[n]]
run_quantize_ceil_tab == [n \in 1..chunk_npages + 1 |-> run_quantize_ceil_compute(n)]

-----------------------------------------------------------------------------
\* The map of a chunk: what is known of each page.  Of a run the first and the
\* last page tell; what the map says of the pages inside is what was left there.

Flags(di, un, de) == [di |-> di, un |-> un, de |-> de]
Bits(al, lg, sz, bi, fl) ==
    [al |-> al, lg |-> lg, sz |-> sz, bi |-> bi, di |-> fl.di, un |-> fl.un, de |-> fl.de]
BININD_INVALID == 0
arena_mapbits_unallocated_set(m, p, n, fl) ==
    [m EXCEPT ![p] = Bits(FALSE, FALSE, n, BININD_INVALID, fl)]
arena_mapbits_large_set(m, p, n, fl) == [m EXCEPT ![p] = Bits(TRUE, TRUE, n, BININD_INVALID, fl)]
arena_mapbits_internal_set(m, ps, un) ==
    Spread(m, ps, Bits(FALSE, FALSE, 0, 0, Flags(FALSE, un, FALSE)))
UntouchedBits == Bits(FALSE, FALSE, 0, 0, Flags(FALSE, FALSE, FALSE))

\* Both ends of a free run, and of a large one, whose last page has size 0
FreeEnds(m, p, n, f, g) ==
    arena_mapbits_unallocated_set(arena_mapbits_unallocated_set(m, p, n, f), p + n - 1, n, g)
LargeEnds(m, p, n, f, g) ==
    arena_mapbits_large_set(arena_mapbits_large_set(m, p + n - 1, 0, g), p, n, f)

AvailIndex(n) == size2index(run_quantize_floor_tab[n])
arena_avail_insert(h, a, p, n) ==
    Assert_([h EXCEPT !.ar[a].runs_avail = @ \cup {<<AvailIndex(h.map[p].sz), p>>}],
            "avail_insert", n = h.map[p].sz)
arena_avail_remove(h, a, p, n) ==
    Assert_([h EXCEPT !.ar[a].runs_avail = @ \ {<<AvailIndex(h.map[p].sz), p>>}],
            "avail_remove",
            n = h.map[p].sz /\ <<AvailIndex(n), p>> \in h.ar[a].runs_avail)

arena_run_dirty_insert(h, a, p, n) ==
    Assert_([h EXCEPT !.ar[a].runs_dirty = Append(@, <<"run", p>>), !.ar[a].ndirty = @ + n],
            "dirty_insert", n = h.map[p].sz /\ h.map[p].di /\ h.map[p + n - 1].di)
arena_run_dirty_remove(h, a, p, n) ==
    Assert_([h EXCEPT !.ar[a].runs_dirty = Remove(@, <<"run", p>>), !.ar[a].ndirty = @ - n],
            "dirty_remove",
            /\ n = h.map[p].sz /\ h.map[p].di /\ h.map[p + n - 1].di
            /\ Contains(h.ar[a].runs_dirty, <<"run", p>>)
            /\ h.ar[a].ndirty >= n)
DirtyInsertIf(dirty, h, a, p, n) == IF dirty THEN arena_run_dirty_insert(h, a, p, n) ELSE h
DirtyRemoveIf(dirty, h, a, p, n) == IF dirty THEN arena_run_dirty_remove(h, a, p, n) ELSE h

-----------------------------------------------------------------------------
\* Splitting a run of need pages off the free run at r

SplitRest(h, a, r, di, de, need, total) ==
    LET q == r + need
        last == r + total - 1
        f(p) == Flags(di, ~di /\ ~de /\ h.map[p].un, de)
    IN  IF need = total THEN h
        ELSE arena_avail_insert(
                DirtyInsertIf(di, [h EXCEPT !.map = FreeEnds(@, q, total - need, f(q), f(last))],
                              a, q, total - need),
                a, q, total - need)

arena_run_split_remove(h, a, r, di, de, need) ==
    LET total == h.map[r].sz
        g == DirtyRemoveIf(di, arena_avail_remove(h, a, r, total), a, r, total)
    IN  Assert_(SplitRest([g EXCEPT !.ar[a].nactive = @ + need], a, r, di, de, need, total),
                "split_remove",
                ~(di /\ de) /\ h.map[r + total - 1].di = di /\ need <= total)

\* arena_run_zero on the pages that are not known to be zero
ZeroRun(h, r, need, di, de, zero) ==
    LET un == IF de THEN {} ELSE {p \in r..r + need - 1 : di \/ h.map[p].un}
    IN  IF ~zero THEN h
        ELSE Assert_(Memset(h, un), "validate_zeroed",
                     \A p \in (r..r + need - 1) \ un : h.mem[p] = "zero")

\* The run marked as a large one: arena_run_split_large_helper after the commit
MarkLarge(h, r, need, di, de) ==
    LET f(p) == Flags(di, ~di /\ ~de /\ h.map[p].un, FALSE)
    IN  [h EXCEPT !.map = LargeEnds(@, r, need, f(r), f(r + need - 1))]
SplitLarge(h, a, r, need, remove, zero, di, de) ==
    MarkLarge(ZeroRun(IF remove THEN arena_run_split_remove(h, a, r, di, de, need) ELSE h,
                      r, need, di, de, zero), r, need, di, de)
CommitRun(h, r, need, de) ==
    IF de THEN pages_commit(h, r..r + need - 1) ELSE [h |-> h, err |-> FALSE]
arena_run_split_large_helper(h, a, r, need, remove, zero) ==
    IF CommitRun(h, r, need, h.map[r].de).err THEN Done(h, NULL)
    ELSE Done(SplitLarge(CommitRun(h, r, need, h.map[r].de).h, a, r, need, remove, zero,
                         h.map[r].di, h.map[r].de), r)
arena_run_split_large(h, a, r, need, zero) ==
    arena_run_split_large_helper(h, a, r, need, TRUE, zero)
arena_run_init_large(h, a, r, need, zero) ==
    arena_run_split_large_helper(h, a, r, need, FALSE, zero)

MarkSmall(h, r, need, b, di) ==
    Assert_([h EXCEPT !.map = [p \in DOMAIN @ |->
                IF p \in r..r + need - 1
                THEN Bits(TRUE, FALSE, p - r, b, Flags(FALSE, @[p].un, FALSE)) ELSE @[p]]],
            "validate_zeroed",
            \A p \in r..r + need - 1 : di \/ h.map[p].un \/ h.mem[p] = "zero")
arena_run_split_small(h, a, r, need, b) ==
    LET c == CommitRun(h, r, need, h.map[r].de)
    IN  IF c.err THEN Done(h, NULL)
        ELSE Done(MarkSmall(arena_run_split_remove(c.h, a, r, h.map[r].di, h.map[r].de, need),
                            r, need, b, h.map[r].di), r)

-----------------------------------------------------------------------------
\* Chunks for runs

arena_chunk_register(h, a, c, zero) ==
    chunk_register(h, c, [kind |-> "arena", arena |-> a, size |-> 1, zeroed |-> zero])

\* The map of a new chunk, one free run; only of a chunk that is not zeroed do
\* the entries in the middle have to be written
arena_chunk_init_hard(h, a, c, zero, commit) ==
    LET un == ~zero /\ commit
        inner == FirstPage(c) + 1 .. LastPage(c) - 1
        m == IF zero THEN Spread(h.map, inner, UntouchedBits)
             ELSE arena_mapbits_internal_set(h.map, inner, un)
    IN  Assert_([h EXCEPT !.map = FreeEnds(m, FirstPage(c), arena_maxrun,
                                           Flags(FALSE, un, ~commit), Flags(FALSE, un, FALSE)),
                          !.mem = Spread(@, Pages(c, 1) \ FirstPage(c)..LastPage(c), "data")],
                "init_hard",
                \A p \in Pages(c, 1) \ FirstPage(c)..LastPage(c) :
                    h.com[p] /\ (zero => h.mem[p] = "zero"))

WholeFree(h, c) ==
    LET f == h.map[FirstPage(c)]  l == h.map[LastPage(c)]
    IN  ~f.al /\ ~l.al /\ f.sz = arena_maxrun /\ l.sz = arena_maxrun /\ f.di = l.di

\* The chunk joins those that runs are taken from
ChunkJoins(h, a, c) ==
    arena_avail_insert([h EXCEPT !.ar[a].achunks = @ \cup {c}], a, FirstPage(c), arena_maxrun)
arena_chunk_init_spare(h, a) ==
    Assert_(ChunkJoins([h EXCEPT !.ar[a].spare = NULL], a, h.ar[a].spare),
            "init_spare", WholeFree(h, h.ar[a].spare))

-----------------------------------------------------------------------------
\* Purging: when, how many pages, and which

decay_interval == 2
DeadlineAfter(h, epoch) == epoch + decay_interval + IF h.decay_time > 0 THEN h.jitter ELSE 0

\* SMOOTHSTEP of step i of NSTEPS, of the denominator NSTEPS^5
h_steps(i) == 10 * i^3 * NSTEPS^2 - 15 * i^4 * NSTEPS + 6 * i^5
arena_decay_backlog_npages_limit(backlog) ==
    FoldSet(LAMBDA i, sum : sum + backlog[i] * h_steps(i), 0, 1..NSTEPS) \div NSTEPS^5

arena_decay_epoch_advance(h, a, time) ==
    LET A == h.ar[a]
        nadvance == (time - A.decay.epoch) \div decay_interval
        epoch == A.decay.epoch + nadvance * decay_interval
        delta == IF A.ndirty > A.decay.ndirty THEN A.ndirty - A.decay.ndirty ELSE 0
        backlog == [i \in 1..NSTEPS |->
                      IF i = NSTEPS THEN delta
                      ELSE IF i + nadvance <= NSTEPS THEN A.decay.backlog[i + nadvance] ELSE 0]
    IN  Assert_([h EXCEPT !.ar[a].decay =
                    [epoch |-> epoch, deadline |-> DeadlineAfter(h, epoch), ndirty |-> A.ndirty,
                     backlog |-> backlog,
                     npages_limit |-> arena_decay_backlog_npages_limit(backlog)]],
                "epoch_advance", nadvance > 0)
arena_decay_npages_limit(A) ==
    A.decay.npages_limit + IF A.ndirty > A.decay.ndirty THEN A.ndirty - A.decay.ndirty ELSE 0

DirtySize(h, a, x) ==
    IF x[1] = "run" THEN h.map[x[2]].sz
    ELSE (CHOOSE e \in h.ar[a].cached : e.addr = x[2]).size * chunk_npages

\* One element of runs_dirty taken out of reach: st is what is stashed.  A
\* chunk that is not committed is committed first; if that is refused it goes
\* back to the cache, and the assertion that it was taken fails.
ChunkStashed(r, e, first, st) ==
    [h |-> IF r.ret = NULL /\ ~e.committed THEN Aborts(r.h)
           ELSE Assert_(r.h, "stash_chunk", r.ret = e.addr /\ r.zero = e.zeroed /\ e.addr = first),
     st |-> Append(st, [kind |-> "chunk", at |-> e.addr, size |-> e.size,
                        committed |-> e.committed])]
StashChunk(h, a, e, st) ==
    ChunkStashed(chunk_alloc_cache(h, a, e.addr, e.size, 1, FALSE), e, Head(h.ar[a].chunks_cache), st)
RunStashed(h, a, p, n, st) ==
    [h |-> Assert_(h, "stash_run",
                   Pageind(p) + n <= chunk_npages /\ ~Contains(h.ar[a].runs_dirty, <<"run", p>>)),
     st |-> Append(st, [kind |-> "run", at |-> p, size |-> n, committed |-> TRUE])]
StashRun(h, a, p, st) ==
    RunStashed(
        arena_run_split_large(IF PageChunk(p) = h.ar[a].spare THEN arena_chunk_init_spare(h, a) ELSE h,
                              a, p, h.map[p].sz, FALSE).h,
        a, p, h.map[p].sz, st)
Stash(h, a, x, st) ==
    IF x[1] = "run" THEN StashRun(h, a, x[2], st)
    ELSE StashChunk(h, a, CHOOSE e \in h.ar[a].cached : e.addr = x[2], st)

\* ndirty counts what is stashed no longer, and nstashed is taken off it again
NotSoMany(h, a, nstashed) == (h.ar[a].ndirty - nstashed) % SIZE_T
RECURSIVE arena_stash_dirty(_, _, _, _, _, _)
StashOn(s, a, ring, limit, nstashed) ==
    IF Aborted(s.h) \/ (s.h.opt_purge = "ratio" /\ NotSoMany(s.h, a, nstashed) <= limit) THEN s
    ELSE arena_stash_dirty(s.h, a, ring, limit, nstashed, s.st)
arena_stash_dirty(h, a, ring, limit, nstashed, st) ==
    IF ring = <<>> THEN [h |-> h, st |-> st]
    ELSE LET n == nstashed + DirtySize(h, a, Head(ring))
         IN  IF h.opt_purge = "decay" /\ NotSoMany(h, a, n) < limit
             THEN [h |-> h, st |-> st]
             ELSE StashOn(Stash(h, a, Head(ring), st), a, Tail(ring), limit, n)

\* Up to where the lock is dropped
PurgeStash(s, a) ==
    IF s.st = <<>> THEN Done([s.h EXCEPT !.ar[a].purging = FALSE], NULL)
    ELSE [h |-> s.h, k |-> <<[op |-> "purge_stashed", a |-> a, st |-> s.st]>>, ret |-> NULL]
arena_purge_to_limit(h, a, limit) ==
    PurgeStash(arena_stash_dirty([h EXCEPT !.ar[a].purging = TRUE], a, h.ar[a].runs_dirty,
                                 limit, 0, <<>>), a)

RatioThreshold(h, a) == Max({h.ar[a].nactive \div 2^h.lg_dirty_mult, chunk_npages})
\* The loop: with nothing to stash and still too much dirty it would not end
PurgeLoops(r, a) ==
    [r EXCEPT !.h = Assert_(@, "purge_loop",
                            r.k # <<>> \/ r.h.ar[a].ndirty <= RatioThreshold(r.h, a))]
\* A clock that went back forces the epoch to advance
DecayAdvanced(h, a) ==
    LET d == h.ar[a].decay
        time == IF h.time < d.epoch THEN d.deadline ELSE h.time
    IN  IF h.decay_time > 0 /\ d.deadline <= time THEN arena_decay_epoch_advance(h, a, time) ELSE h
DecayLimit(h, a) == IF h.decay_time = 0 THEN 0 ELSE arena_decay_npages_limit(h.ar[a])
PurgeAbove(h, a, limit) ==
    IF h.ar[a].ndirty <= limit THEN Done(h, NULL) ELSE arena_purge_to_limit(h, a, limit)
\* arena_maybe_purge_ratio and _decay
MaybePurge(h, a) ==
    IF h.opt_purge = "ratio"
    THEN IF h.lg_dirty_mult < 0 THEN Done(h, NULL)
         ELSE PurgeLoops(PurgeAbove(h, a, RatioThreshold(h, a)), a)
    ELSE IF h.decay_time < 0 THEN Done(h, NULL)
    ELSE PurgeAbove(h, a, DecayLimit(h, a))
arena_maybe_purge(h, a) ==
    IF h.ar[a].purging THEN Done(h, NULL)
    ELSE MaybePurge(IF h.opt_purge = "decay" THEN DecayAdvanced(h, a) ELSE h, a)

\* maybe_purge after what r did, which may itself have dropped the lock
ThenPurge(r, a, di) ==
    IF ~di THEN r
    ELSE IF r.k = <<>> THEN arena_maybe_purge(r.h, a)
    ELSE [r EXCEPT !.k = Append(@, [op |-> "maybe_purge", a |-> a])]

-----------------------------------------------------------------------------
\* Freeing a run

arena_chunk_discard(h, a, c) ==
    LET committed == ~h.map[FirstPage(c)].de
        g == chunk_deregister(h, c)
        d == IF committed THEN g
             ELSE pages_decommit(g, Pages(c, 1) \ FirstPage(c)..LastPage(c)).h
    IN  arena_maybe_purge(chunk_dalloc_cache(d, a, c, 1, committed), a)
arena_spare_discard(h, a, spare) ==
    arena_chunk_discard(DirtyRemoveIf(h.map[FirstPage(spare)].di, h, a, FirstPage(spare),
                                      arena_maxrun), a, spare)
ReplaceSpare(h, a, c, spare) ==
    IF spare = NULL THEN Done([h EXCEPT !.ar[a].spare = c], NULL)
    ELSE arena_spare_discard([h EXCEPT !.ar[a].spare = c], a, spare)
arena_chunk_dalloc(h, a, c) ==
    ReplaceSpare(
        Assert_([arena_avail_remove(h, a, FirstPage(c), arena_maxrun)
                    EXCEPT !.ar[a].achunks = @ \ {c}],
                "chunk_dalloc",
                WholeFree(h, c) /\ h.map[FirstPage(c)].de = h.map[LastPage(c)].de),
        a, c, h.ar[a].spare)

\* A free neighbour of the same kind joins: the run from p, of n pages, and the
\* one from q, of m pages, make one from s
Join(h, a, q, m, s, n, di) ==
    LET g == DirtyRemoveIf(di, arena_avail_remove(h, a, q, m), a, q, m)
    IN  [g EXCEPT !.map[s].sz = n, !.map[s + n - 1].sz = n]
SameKind(h, p, di, de) == ~h.map[p].al /\ h.map[p].di = di /\ h.map[p].de = de
CoalesceForward(h, a, p, n, di, de) ==
    IF p + n > LastPage(PageChunk(p)) \/ ~SameKind(h, p + n, di, de)
    THEN [h |-> h, p |-> p, n |-> n]
    ELSE LET m == h.map[p + n].sz
         IN  [h |-> Assert_(Join(h, a, p + n, m, p, n + m, di), "coalesce",
                            h.map[p + n + m - 1].sz = m /\ SameKind(h, p + n + m - 1, di, de)),
              p |-> p, n |-> n + m]
CoalesceBack(r, a, di, de) ==
    IF r.p = FirstPage(PageChunk(r.p)) \/ ~SameKind(r.h, r.p - 1, di, de) THEN r
    ELSE LET m == r.h.map[r.p - 1].sz
             q == r.p - m
         IN  [h |-> Assert_(Join(r.h, a, q, m, q, r.n + m, di), "coalesce",
                            r.h.map[q].sz = m /\ SameKind(r.h, q, di, de)),
              p |-> q, n |-> r.n + m]
arena_run_coalesce(h, a, p, n, di, de) ==
    CoalesceBack(CoalesceForward(h, a, p, n, di, de), a, di, de)

arena_run_size_get(h, p) ==
    IF h.map[p].lg THEN h.map[p].sz ELSE arena_bin_info[h.run[p].binind].run_size

\* The coalesced run r becomes available, and its chunk free if it is all of it
Released(r, a, di) ==
    LET h == DirtyInsertIf(di, Assert_(arena_avail_insert(r.h, a, r.p, r.n), "run_dalloc",
                                       LET l == r.h.map[r.p + r.n - 1]
                                       IN  l.sz = r.h.map[r.p].sz /\ l.di = r.h.map[r.p].di
                                              /\ l.de = r.h.map[r.p].de),
                           a, r.p, r.n)
    IN  IF r.n = arena_maxrun THEN arena_chunk_dalloc(h, a, PageChunk(r.p)) ELSE Done(h, NULL)
ReleaseRun(h, a, p, n, di, de) ==
    LET f(q) == Flags(di, ~di /\ ~de /\ h.map[q].un, de)
    IN  ThenPurge(Released(arena_run_coalesce(
                              [h EXCEPT !.map = FreeEnds(@, p, n, f(p), f(p + n - 1)),
                                        !.ar[a].nactive = @ - n],
                              a, p, n, di, de), a, di), a, di)
arena_run_dalloc(h, a, p, dirty, cleaned, decommitted) ==
    ReleaseRun(Assert_(h, "run_dalloc",
                       h.map[p].di = h.map[p + arena_run_size_get(h, p) - 1].di),
               a, p, arena_run_size_get(h, p),
               dirty \/ (~cleaned /\ ~decommitted /\ h.map[p].di), decommitted)

\* The large run at p of n pages cut in two after head pages
CutLarge(h, p, n, head) ==
    LET di == h.map[p].di  de == h.map[p].de
        f(q) == Flags(di, ~di /\ ~de /\ h.map[q].un, FALSE)
    IN  Assert_([h EXCEPT !.map =
                    [LargeEnds(@, p, head, f(p), f(p + head - 1)) EXCEPT
                        ![p + head] = Bits(TRUE, TRUE, n - head, BININD_INVALID, f(p + head))]],
                "trim", h.map[p].sz = n /\ h.map[p + n - 1].di = di)
arena_run_trim_head(h, a, p, oldsize, newsize) ==
    arena_run_dalloc(CutLarge(h, p, oldsize, oldsize - newsize), a, p, FALSE, FALSE, h.map[p].de)
arena_run_trim_tail(h, a, p, oldsize, newsize, dirty) ==
    arena_run_dalloc(CutLarge(h, p, oldsize, newsize), a, p + newsize, dirty, FALSE, h.map[p].de)

-----------------------------------------------------------------------------
\* The rest of a purge: the pages, without the lock, and then what was stashed

PurgeRun(h, p, n) ==
    LET d == pages_decommit(h, p..p + n - 1)
        m == IF d.err THEN pages_purge(d.h, p..p + n - 1) ELSE [h |-> d.h, unzeroed |-> FALSE]
        f == Flags(FALSE, m.unzeroed, ~d.err)
    IN  Assert_([m.h EXCEPT !.map = arena_mapbits_internal_set(LargeEnds(@, p, n, f, f),
                                                               p + 1 .. p + n - 2, m.unzeroed)],
                "purge_stashed",
                h.map[p].sz = n /\ h.map[p].lg /\ ~h.map[p].de /\ ~h.map[p + n - 1].de)
arena_purge_stashed(h, a, st) ==
    [h |-> FoldLeft(LAMBDA g, x : IF x.kind = "run" THEN PurgeRun(g, x.at, x.size) ELSE g, h, st),
     k |-> <<[op |-> "unstash", a |-> a, st |-> st]>>, ret |-> NULL]

Unstash(h, a, x) ==
    IF x.kind = "chunk" THEN chunk_dalloc_wrapper(h, a, x.at, x.size, x.committed)
    ELSE arena_run_dalloc(h, a, x.at, FALSE, TRUE, h.map[x.at].de).h
PurgeAgain(h, a) == IF h.opt_purge = "ratio" THEN MaybePurge(h, a) ELSE Done(h, NULL)
arena_unstash_purged(h, a, st) ==
    PurgeAgain([FoldLeft(LAMBDA f, x : Unstash(f, a, x), h, st) EXCEPT !.ar[a].purging = FALSE], a)

-----------------------------------------------------------------------------
\* Allocating a run of n pages: for the bin b, or a large one if b is 0

InitRun(r, b) ==
    IF r.ret = NULL THEN r
    ELSE [r EXCEPT !.h.run[r.ret] = [binind |-> b, nfree |-> arena_bin_info[b].nregs, used |-> {}]]
SplitRun(h, a, r, b, n, zero) ==
    IF b = 0 THEN arena_run_split_large(h, a, r, n, zero)
    ELSE InitRun(arena_run_split_small(h, a, r, n, b), b)

arena_run_first_best_fit(h, a, n) ==
    LET fits == {x \in h.ar[a].runs_avail : x[1] >= size2index(run_quantize_ceil_tab[n])}
    IN  {x \in fits : \A y \in fits : x[1] < y[1] \/ (x[1] = y[1] /\ x[2] <= y[2])}
RunAllocHelper(h, a, b, n, zero) ==
    LET best == arena_run_first_best_fit(h, a, IF b = 0 THEN PageCeiling(s2u(n * PAGE)) ELSE n)
    IN  IF best = {} THEN Done(h, NULL)
        ELSE SplitRun(h, a, (CHOOSE x \in best : TRUE)[2], b, n, zero)

RunAllocFrame(a, b, n, zero) == [op |-> "run_alloc", a |-> a, b |-> b, n |-> n, zero |-> zero]
\* Once the chunk c is there, or not
ChunkInitFrame(f, c, czero, ccommit) ==
    [op |-> "chunk_init", a |-> f.a, b |-> f.b, n |-> f.n, zero |-> f.zero,
     c |-> c, czero |-> czero, ccommit |-> ccommit]
NewChunkRun(h, f) ==
    SplitRun(ChunkJoins(arena_chunk_init_hard(h, f.a, f.c, f.czero, f.ccommit), f.a, f.c),
             f.a, FirstPage(f.c), f.b, f.n, f.zero)
\* The lock is taken again: another thread may have made room meanwhile
ChunkInit(h, f) ==
    IF f.c = NULL THEN RunAllocHelper(h, f.a, f.b, f.n, f.zero) ELSE NewChunkRun(h, f)

ChunkRegistered(h, g, f, c, zero) ==
    IF g.err
    THEN [arena_maybe_purge(chunk_dalloc_cache(h, f.a, c, 1, TRUE), f.a) EXCEPT
            !.k = Append(@, [ChunkInitFrame(f, NULL, FALSE, FALSE) EXCEPT !.op = "run_search"])]
    ELSE NewChunkRun(g.h, ChunkInitFrame(f, c, zero, TRUE))
FromCache(c, f) ==
    IF c.ret # NULL
    THEN ChunkRegistered(c.h, arena_chunk_register(c.h, f.a, c.ret, c.zero), f, c.ret, c.zero)
    ELSE [h |-> c.h, k |-> <<[f EXCEPT !.op = "chunk_hard"]>>, ret |-> NULL]
arena_chunk_alloc_internal(h, f) == FromCache(chunk_alloc_cache(h, f.a, NULL, 1, 1, FALSE), f)
arena_chunk_alloc(h, f) ==
    IF h.ar[f.a].spare # NULL
    THEN SplitRun(arena_chunk_init_spare(h, f.a), f.a, FirstPage(h.ar[f.a].spare), f.b, f.n, f.zero)
    ELSE arena_chunk_alloc_internal(h, f)

\* Without the lock
HardRegister(h, f, w, header) ==
    LET g == arena_chunk_register(h, f.a, w.ret, w.zero)
        u == IF w.commit THEN h ELSE pages_decommit(h, header).h
    IN  IF g.err
        THEN [h |-> chunk_dalloc_wrapper(u, f.a, w.ret, 1, w.commit), ret |-> NULL,
              k |-> <<ChunkInitFrame(f, NULL, FALSE, FALSE)>>]
        ELSE [h |-> g.h, k |-> <<ChunkInitFrame(f, w.ret, w.zero, w.commit)>>, ret |-> NULL]
HardCommit(f, w, header) ==
    LET c == IF w.commit THEN [h |-> w.h, err |-> FALSE] ELSE pages_commit(w.h, header)
    IN  IF c.err
        THEN [h |-> chunk_dalloc_wrapper(w.h, f.a, w.ret, 1, w.commit), ret |-> NULL,
              k |-> <<ChunkInitFrame(f, NULL, FALSE, FALSE)>>]
        ELSE HardRegister(c.h, f, w, header)
ChunkOrNull(f, w) ==
    IF w.ret # NULL
    THEN HardCommit(f, w, Pages(w.ret, 1) \ FirstPage(w.ret)..LastPage(w.ret))
    ELSE [h |-> w.h, k |-> <<ChunkInitFrame(f, NULL, FALSE, FALSE)>>, ret |-> NULL]
arena_chunk_alloc_internal_hard(h, f) ==
    ChunkOrNull(f, chunk_alloc_wrapper(h, f.a, NULL, 1, 1, FALSE, FALSE))

\* arena_run_alloc_small and arena_run_alloc_large
ElseChunk(r, h, f) == IF r.ret # NULL THEN r ELSE arena_chunk_alloc(h, f)
arena_run_alloc(h, f) == ElseChunk(RunAllocHelper(h, f.a, f.b, f.n, f.zero), h, f)

-----------------------------------------------------------------------------
\* Bins: small regions

arena_run_reg_alloc(h, run) ==
    LET b == h.run[run].binind
        regind == Min((0..arena_bin_info[b].nregs - 1) \ h.run[run].used)
    IN  Done(Assert_([h EXCEPT !.run[run].used = @ \cup {regind}, !.run[run].nfree = @ - 1],
                     "reg_alloc", h.run[run].nfree > 0),
             run * PAGE + regind * index2size(b))
arena_run_reg_dalloc(h, run, ptr) ==
    LET b == h.run[run].binind
        offset == ptr - run * PAGE
    IN  Assert_([h EXCEPT !.run[run].used = @ \ {offset \div index2size(b)},
                          !.run[run].nfree = @ + 1],
                "reg_dalloc",
                /\ h.run[run].nfree < arena_bin_info[b].nregs
                /\ offset >= 0 /\ offset % index2size(b) = 0
                /\ offset \div index2size(b) \in h.run[run].used)

arena_bin_lower_run(h, a, b, run) ==
    LET bin == h.ar[a].bins[b]
    IN  IF run >= bin.runcur THEN [h EXCEPT !.ar[a].bins[b].runs = @ \cup {run}]
        ELSE [h EXCEPT !.ar[a].bins[b] =
                [runcur |-> run,
                 runs |-> IF h.run[bin.runcur].nfree > 0 THEN @.runs \cup {bin.runcur}
                          ELSE @.runs]]

Usable(h, a, b) == h.ar[a].bins[b].runcur # NULL /\ h.run[h.ar[a].bins[b].runcur].nfree > 0

\* The run becomes the current one
UseRun(h, a, b, run) == arena_run_reg_alloc([h EXCEPT !.ar[a].bins[b].runcur = run], run)
TakeRun(h, a, b) ==
    UseRun([h EXCEPT !.ar[a].bins[b].runs = @ \ {Min(@)}], a, b, Min(h.ar[a].bins[b].runs))

\* Without a run the lock of the bin is dropped
arena_malloc_small(h, a, b) ==
    IF Usable(h, a, b) THEN arena_run_reg_alloc(h, h.ar[a].bins[b].runcur)
    ELSE IF h.ar[a].bins[b].runs # {} THEN TakeRun(h, a, b)
    ELSE [h |-> [h EXCEPT !.ar[a].bins[b].runcur = NULL], ret |-> NULL,
          k |-> <<RunAllocFrame(a, b, arena_bin_info[b].run_size, FALSE),
                  [op |-> "bin_malloc_hard", a |-> a, b |-> b]>>]

\* Mutant of TooLate: the run that came too late is neither given back nor kept
TooLateForgets(h, a, b, run) == arena_run_reg_alloc(h, h.ar[a].bins[b].runcur)

\* Another thread updated runcur meanwhile: the run that came too late is
\* given back, or kept for later
TooLate(h, a, b, run) ==
    LET r == arena_run_reg_alloc(h, h.ar[a].bins[b].runcur)
    IN  IF run = NULL THEN r
        ELSE IF h.run[run].nfree = arena_bin_info[b].nregs
        THEN [r EXCEPT !.k = <<[op |-> "run_dalloc", a |-> a, p |-> run]>>]
        ELSE [r EXCEPT !.h = arena_bin_lower_run(@, a, b, run)]
BinMallocHard(h, a, b, run) ==
    IF Usable(h, a, b) THEN TooLate(h, a, b, run)
    ELSE IF run = NULL THEN Done(h, NULL)
    ELSE UseRun(h, a, b, run)
\* With the run, or one that another thread left in the bin
arena_bin_malloc_hard(h, a, b, run) ==
    IF run = NULL /\ h.ar[a].bins[b].runs # {}
    THEN BinMallocHard([h EXCEPT !.ar[a].bins[b].runs = @ \ {Min(@)}], a, b,
                       Min(h.ar[a].bins[b].runs))
    ELSE BinMallocHard(h, a, b, run)

arena_dissociate_bin_run(h, a, b, run) ==
    IF run = h.ar[a].bins[b].runcur THEN [h EXCEPT !.ar[a].bins[b].runcur = NULL]
    ELSE IF arena_bin_info[b].nregs = 1 THEN h
    ELSE Assert_([h EXCEPT !.ar[a].bins[b].runs = @ \ {run}], "dissociate",
                 run \in h.ar[a].bins[b].runs)

RegionFreed(h, a, b, run) ==
    IF h.run[run].nfree = arena_bin_info[b].nregs
    THEN [h |-> arena_dissociate_bin_run(h, a, b, run), ret |-> NULL,
          k |-> <<[op |-> "run_dalloc", a |-> a, p |-> run]>>]
    ELSE IF h.run[run].nfree = 1 /\ run # h.ar[a].bins[b].runcur
    THEN Done(arena_bin_lower_run(h, a, b, run), NULL)
    ELSE Done(h, NULL)
arena_dalloc_bin_locked_impl(h, a, ptr) ==
    LET run == AddrPage(ptr) - h.map[AddrPage(ptr)].sz
    IN  RegionFreed(arena_run_reg_dalloc(h, run, ptr), a, h.run[run].binind, run)
=============================================================================
