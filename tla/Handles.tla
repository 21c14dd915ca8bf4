------------------------------ MODULE Handles -------------------------------
(***************************************************************************)
(* The handle storage of skynet_handle.c: a hash table of contexts whose   *)
(* index is the low bits of the handle, and a sorted array of names.  What *)
(* runs under s->lock (see RWLock) is one step.  A context is in the table *)
(* before its handle is known: skynet_context_new stores what              *)
(* skynet_handle_register returns, in a step of its own.  Names are        *)
(* numbers, in the order of strcmp.                                        *)
(***************************************************************************)
EXTENDS Integers, FiniteSets, SequencesExt

CONSTANTS Ctx, NoCtx,
          Launcher,           \* threads that create services
          ServiceName,
          NamedHandle,        \* bound: the handles that are given names
          DEFAULT_SLOT_SIZE, HANDLE_MASK,
          Harbor              \* s->harbor, a multiple of HANDLE_MASK + 1

ASSUME HandleAssumption ==
    /\ NoCtx \notin Ctx /\ ServiceName \subseteq Nat
    /\ DEFAULT_SLOT_SIZE \in Nat \ {0} /\ Harbor \in Nat
    /\ (HANDLE_MASK + 1) % DEFAULT_SLOT_SIZE = 0 /\ Harbor % (HANDLE_MASK + 1) = 0

VARIABLES slot, handle_index,
          handle,      \* ctx->handle
          names,       \* s->name
          reg,         \* the context and the handle a launcher just registered
          sweep,       \* the thread in skynet_handle_retireall
          handleDied,  \* the line of an assertion that has failed, or 0
          overtaken    \* contexts that had no handle yet when the table grew

tableVars == <<slot, handle_index, handle, reg, handleDied, overtaken>>
handleVars == <<tableVars, names, sweep>>

slot_size == Cardinality(DOMAIN slot)
SlotOf(h, size) == h % size
InTable == Range(slot) \ {NoCtx}
NoReg == [ctx |-> NoCtx, handle |-> 0]
NoSweep == [on |-> FALSE, i |-> 0, n |-> 0, h |-> 0, old |-> {}]

HandlesInit ==
    /\ slot = [i \in 0..DEFAULT_SLOT_SIZE - 1 |-> NoCtx] /\ handle_index = 1
    /\ handle = [c \in Ctx |-> 0] /\ names = <<>>
    /\ reg = [l \in Launcher |-> NoReg] /\ sweep = NoSweep /\ handleDied = 0
    /\ overtaken = {}

-----------------------------------------------------------------------------

\* skynet_handle_register
FreeAt(table, size, i) == table[SlotOf((i + handle_index) % (HANDLE_MASK + 1), size)] = NoCtx
PlaceCtx(l, c, table, size) ==
    \E i \in 0..size - 1 :
        LET h == (i + handle_index) % (HANDLE_MASK + 1) IN
        /\ FreeAt(table, size, i) /\ \A j \in 0..i - 1 : ~FreeAt(table, size, j)
        /\ slot' = [table EXCEPT ![SlotOf(h, size)] = c]
        /\ handle_index' = h + 1
        /\ reg' = [reg EXCEPT ![l] = [ctx |-> c, handle |-> h + Harbor]]

HashIn2(i) == SlotOf(handle[slot[i]], 2 * slot_size)
SlotsCollide == \E i, j \in DOMAIN slot : i # j /\ HashIn2(i) = HashIn2(j)
\* Mutant of GrownSlots: the contexts keep their slots
GrownInPlace == [k \in 0..2 * slot_size - 1 |-> IF k < slot_size THEN slot[k] ELSE NoCtx]

GrownSlots == [k \in 0..2 * slot_size - 1 |->
            IF \E i \in DOMAIN slot : HashIn2(i) = k
            THEN slot[CHOOSE i \in DOMAIN slot : HashIn2(i) = k] ELSE NoCtx]

\* A context that skynet_context_new allocates; its address does not matter
UnusedCtx == Ctx \ (InTable \cup {reg[l].ctx : l \in Launcher})
NewCtx == CHOOSE c \in UnusedCtx : TRUE

skynet_handle_register(l) ==
    LET c == NewCtx
        full == NoCtx \notin Range(slot)
        tooBig == 2 * slot_size - 1 > HANDLE_MASK
    IN /\ reg[l] = NoReg /\ UnusedCtx # {}
       /\ \/ /\ ~full /\ PlaceCtx(l, c, slot, slot_size)
             /\ UNCHANGED <<handleDied, overtaken>>
          \/ /\ full /\ ~tooBig /\ ~SlotsCollide
             /\ PlaceCtx(l, c, GrownSlots, 2 * slot_size)
             /\ overtaken' = overtaken \cup {d \in InTable : handle[d] = 0}
             /\ UNCHANGED handleDied
          \/ /\ full /\ (tooBig \/ SlotsCollide)
             /\ handleDied' = IF tooBig THEN 55 ELSE 60
             /\ UNCHANGED <<slot, handle_index, reg, overtaken>>
       /\ UNCHANGED <<handle, names, sweep>>

\* ctx->handle = skynet_handle_register(ctx)
HandleSet(l) ==
    /\ reg[l] # NoReg
    /\ handle' = [handle EXCEPT ![reg[l].ctx] = reg[l].handle]
    /\ reg' = [reg EXCEPT ![l] = NoReg]
    /\ UNCHANGED <<slot, handle_index, names, sweep, handleDied, overtaken>>

-----------------------------------------------------------------------------
\* What skynet_handle_grab returns
skynet_handle_grab(h) ==
    LET c == slot[SlotOf(h, slot_size)] IN
    IF c # NoCtx /\ handle[c] = h THEN c ELSE NoCtx

RetireSlot(h) ==
    LET c == skynet_handle_grab(h) IN
    /\ slot' = [slot EXCEPT ![SlotOf(h, slot_size)] = NoCtx]
    /\ names' = SelectSeq(names, LAMBDA e : e.handle # h)
    /\ handle' = [handle EXCEPT ![c] = 0]       \* it may be freed
    /\ overtaken' = overtaken \ {c}

skynet_handle_retire(h) ==
    /\ skynet_handle_grab(h) # NoCtx /\ RetireSlot(h)
    /\ sweep' = [sweep EXCEPT !.old = @ \ {skynet_handle_grab(h)}]
    /\ UNCHANGED <<handle_index, reg, handleDied>>

\* skynet_handle_retireall: passes over the table until one retires nothing.
\* Contexts that have a handle are LiveCtx; sweep.old are those of the start
\* of the pass that are still there.
LiveCtx == {c \in InTable : handle[c] # 0}
NewPass == [on |-> TRUE, i |-> 0, n |-> 0, h |-> 0, old |-> LiveCtx]

skynet_handle_retireall ==
    /\ ~sweep.on /\ sweep' = NewPass /\ UNCHANGED <<tableVars, names>>

SweepRead ==
    /\ sweep.on /\ sweep.h = 0 /\ sweep.i < slot_size
    /\ LET c == slot[sweep.i] IN
       sweep' = IF c = NoCtx \/ handle[c] = 0
                THEN [sweep EXCEPT !.i = @ + 1] ELSE [sweep EXCEPT !.h = handle[c]]
    /\ UNCHANGED <<tableVars, names>>

SweepRetire ==
    /\ sweep.h # 0
    /\ \/ /\ skynet_handle_grab(sweep.h) # NoCtx /\ RetireSlot(sweep.h)
          /\ sweep' = [sweep EXCEPT !.i = @ + 1, !.h = 0, !.n = 1,
                                    !.old = @ \ {skynet_handle_grab(sweep.h)}]
       \/ /\ skynet_handle_grab(sweep.h) = NoCtx
          /\ sweep' = [sweep EXCEPT !.i = @ + 1, !.h = 0]
          /\ UNCHANGED <<slot, handle, names, overtaken>>
    /\ UNCHANGED <<handle_index, reg, handleDied>>

SweepAgain ==
    /\ sweep.on /\ sweep.h = 0 /\ sweep.i >= slot_size /\ sweep.n > 0
    /\ sweep' = NewPass /\ UNCHANGED <<tableVars, names>>

SweepReturn ==
    /\ sweep.on /\ sweep.h = 0 /\ sweep.i >= slot_size /\ sweep.n = 0
    /\ sweep' = NoSweep /\ UNCHANGED <<tableVars, names>>

-----------------------------------------------------------------------------
\* The binary search of _insert_name and skynet_handle_findname: the place of
\* n among the names from begin to end, or where it belongs
RECURSIVE NamePlace(_, _, _)
NamePlace(n, begin, end) ==
    LET mid == (begin + end) \div 2 IN
    IF begin > end THEN [found |-> FALSE, i |-> begin]
    ELSE IF names[mid + 1].name = n THEN [found |-> TRUE, i |-> mid]
    ELSE IF names[mid + 1].name < n THEN NamePlace(n, mid + 1, end)
    ELSE NamePlace(n, begin, mid - 1)

skynet_handle_findname(n) ==
    LET p == NamePlace(n, 0, Len(names) - 1) IN
    IF p.found THEN names[p.i + 1].handle ELSE 0

_insert_name_before(n, h, before) ==
    names' = InsertAt(names, before + 1, [name |-> n, handle |-> h])

skynet_handle_namehandle(h, n) ==
    LET p == NamePlace(n, 0, Len(names) - 1) IN
    /\ ~p.found /\ _insert_name_before(n, h, p.i)
    /\ UNCHANGED <<tableVars, sweep>>

-----------------------------------------------------------------------------
SweepStep == SweepRead \/ SweepRetire \/ SweepAgain \/ SweepReturn
HandlesNext ==
    /\ handleDied = 0
    /\ \/ \E l \in Launcher : skynet_handle_register(l) \/ HandleSet(l)
       \/ \E h \in {handle[c] : c \in LiveCtx} : skynet_handle_retire(h)
       \/ \E h \in NamedHandle, n \in ServiceName : skynet_handle_namehandle(h, n)
       \/ skynet_handle_retireall \/ SweepStep
HandlesSpec == HandlesInit /\ [][HandlesNext]_handleVars

-----------------------------------------------------------------------------
HandleTypeOK ==
    /\ slot_size \in {DEFAULT_SLOT_SIZE * k : k \in {1, 2, 4, 8}}
    /\ slot \in [0..slot_size - 1 -> Ctx \cup {NoCtx}]
    /\ handle_index \in 1..HANDLE_MASK + 1
    /\ \A c \in Ctx : handle[c] = 0 \/ handle[c] - Harbor \in 0..HANDLE_MASK

\* Every context that has its handle is where skynet_handle_grab looks for it,
\* in a table of any size: no other context gets its handle, and growing the
\* table loses none.  It does lose a context whose handle is not stored yet
\* (overtaken): that one goes to slot 0, where its handle does not lead.
HandlesFound == \A c \in LiveCtx \ overtaken : skynet_handle_grab(handle[c]) = c

\* The array of names stays sorted and without repetition through insertions
\* and the removals of skynet_handle_retire: the search finds every name.
NamesFound ==
    \A n \in ServiceName :
        LET at == {i \in DOMAIN names : names[i].name = n} IN
        IF at = {} THEN skynet_handle_findname(n) = 0
        ELSE at = {NamePlace(n, 0, Len(names) - 1).i + 1}

\* skynet_handle_retireall reads the table slot by slot while others change
\* it; it returns only when each context of the start of its last pass is gone
\* (or cannot be found, see HandlesFound).
SweepMissesNone ==
    [][sweep.on /\ ~sweep'.on => sweep.old \subseteq overtaken]_handleVars

\* assert(new_slot[hash] == NULL), skynet_handle.c:60: two contexts never meet
\* in a slot when the table grows.
HandleAsserts == handleDied # 60

\* The handle storage serves: what is registered is found, by handle and by
\* name, and retireall leaves nothing that it has seen
HandlesServe == [](HandleTypeOK /\ HandlesFound /\ NamesFound) /\ SweepMissesNone
=============================================================================
