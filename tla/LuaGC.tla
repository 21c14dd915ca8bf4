-------------------------------- MODULE LuaGC --------------------------------
(***************************************************************************)
(* The incremental collector of the Lua states (lgc.c, with the upvalues   *)
(* of lfunc.c and the threads of lstate.c), interleaved with a program.    *)
(* A table has one entry, a userdata its user value, a thread one place on *)
(* its stack, a closure one upvalue (its own, once the upvalue is closed); *)
(* the main thread has the places Root and runs the program.               *)
(* The gray lists are sets: the order in which they are visited is left    *)
(* open.                                                                   *)
(***************************************************************************)
EXTENDS Integers, FiniteSets, SequencesExt

CONSTANTS NObj, Root,
          Heaps,       \* the heaps a behaviour starts with
          MaxOps,      \* bound on the steps of the program
          MaxFin,      \* bound on the objects that wait for their finalizer
          GCSWEEPMAX

ASSUME GCAssumption == NObj \in Nat /\ GCSWEEPMAX \in Nat \ {0}

Obj == 1..NObj
Main == NObj + 1
Nil == 0
Dead == -1
Tables == {"table", "weakvalue", "ephemeron", "allweak"}

VARIABLES kind, alive,
          ent,            \* [k, v]: the entry, or v alone
          up,             \* the thread whose stack the upvalue of a closure is in, or Nil
          open,           \* threads with an open upvalue
          root,           \* the stack of the main thread
          g,              \* colors, gray lists: what marking changes
          fin,            \* FINALIZEDBIT
          allgc, finobj, tobefnz,
          currentwhite, gcstate, sweepgc,
          full, emergency,  \* stage of luaC_fullgc, 0 outside of it
          garbage,        \* objects that were not reachable when the cycle began
          ops             \* steps of the program so far

gcVars == <<kind, alive, ent, up, open, root, g, fin, allgc, finobj, tobefnz,
            currentwhite, gcstate, sweepgc, full, emergency, garbage, ops>>

Empty == [k |-> Nil, v |-> Nil]
otherwhite == IF currentwhite = "w0" THEN "w1" ELSE "w0"
White(c) == c \in {"w0", "w1"}
keepinvariant == gcstate \in {"propagate", "atomic"}
issweepphase == gcstate \in {"swpallgc", "swpfinobj", "swptobefnz", "swpend"}

\* A state that a program built before the first cycle, from what lua_newstate made
GCInit ==
    /\ \E h \in Heaps :
          /\ kind = h.kind /\ alive = [o \in Obj |-> o \in h.live]
          /\ ent = h.ent /\ up = h.up /\ root = h.root
          /\ open = Range(h.up) \ {Nil} /\ fin = [o \in Obj |-> o \in h.fin]
          /\ allgc = SetToSeq(h.live \ h.fin) /\ finobj = SetToSeq(h.fin)
    /\ g = [color |-> [o \in Obj \cup {Main} |-> "w0"], touched |-> open, twups |-> open,
            cleared |-> {}, deadkey |-> {},
            gray |-> {}, grayagain |-> {}, weak |-> {}, allweak |-> {}, ephemeron |-> {}]
    /\ tobefnz = <<>>
    /\ currentwhite = "w0" /\ gcstate = "pause" /\ sweepgc = <<"null">>
    /\ full = 0 /\ emergency = FALSE /\ garbage = {} /\ ops = 0

-----------------------------------------------------------------------------
(* Marking, on a value of g.  The entries that are cleared and the keys    *)
(* that die are collected in m, and taken out of ent by the step.  phase   *)
(* is gcstate: "propagate", "atomic", or "inside" the atomic step.         *)

IsObj(x) == x \in Obj \cup {Main}
IsWhite(m, x) == IsObj(x) /\ White(m.color[x])

\* reallymarkobject; a userdata marks its user value at once
RECURSIVE Mark(_, _)
Mark(m, o) ==
    IF ~IsWhite(m, o) THEN m
    ELSE IF o # Main /\ kind[o] = "udata"
    THEN Mark([m EXCEPT !.color[o] = "black"], ent[o].v)
    ELSE [m EXCEPT !.color[o] = "gray", !.gray = @ \cup {o}]
MarkAll(m, S) == FoldLeft(Mark, m, SetToSeq(S))

\* What the entry holds during the mark: nothing once it is cleared
Val(m, o) == IF o \in m.cleared THEN Nil ELSE ent[o].v
\* removeentry leaves a dead key in an entry without value
removeentry(m, tables) == [m EXCEPT !.deadkey = @ \cup {o \in tables : IsWhite(m, ent[o].k)}]

UpValue(c) == IF up[c] = Nil THEN ent[c].v ELSE ent[up[c]].v

traversestrongtable(m, o) ==
    IF Val(m, o) = Nil THEN removeentry(m, {o}) ELSE Mark(Mark(m, ent[o].k), ent[o].v)
traverseweakvalue(m, o, phase) ==
    LET n == IF Val(m, o) = Nil THEN removeentry(m, {o}) ELSE Mark(m, ent[o].k)
        hasclears == IsWhite(n, Val(n, o))
    IN  IF phase = "propagate" THEN [n EXCEPT !.grayagain = @ \cup {o}]
        ELSE IF hasclears THEN [n EXCEPT !.weak = @ \cup {o}] ELSE n

traverseephemeron(m, o, phase) ==
    LET hasclears == Val(m, o) # Nil /\ IsWhite(m, ent[o].k)
        hasww == hasclears /\ IsWhite(m, ent[o].v)
        n == IF Val(m, o) = Nil THEN removeentry(m, {o})
             ELSE IF hasclears THEN m ELSE Mark(m, ent[o].v)
    IN  IF phase = "propagate" THEN [n EXCEPT !.grayagain = @ \cup {o}]
        ELSE IF hasww THEN [n EXCEPT !.ephemeron = @ \cup {o}]
        ELSE IF hasclears THEN [n EXCEPT !.allweak = @ \cup {o}] ELSE n
traverseLclosure(m, o, phase) ==
    IF up[o] # Nil /\ phase # "inside" THEN [m EXCEPT !.touched = @ \cup {up[o]}] ELSE Mark(m, UpValue(o))
\* A thread stays gray; the final traversal links it back to twups
traversethread(m, o, phase) ==
    LET n == [m EXCEPT !.grayagain = @ \cup {o},
                       !.twups = IF phase = "inside" /\ o \in open THEN @ \cup {o} ELSE @]
    IN  IF o = Main THEN MarkAll(n, {root[i] : i \in Root}) ELSE Mark(n, ent[o].v)

propagatemark(m, o, phase) ==
    LET b == [m EXCEPT !.gray = @ \ {o}, !.color[o] = "black"]
        y == [m EXCEPT !.gray = @ \ {o}]      \* it keeps the object gray
    IN
    IF o = Main THEN traversethread(y, o, phase)
    ELSE CASE kind[o] = "table" -> traversestrongtable(b, o)
           [] kind[o] = "weakvalue" -> traverseweakvalue(y, o, phase)
           [] kind[o] = "ephemeron" -> traverseephemeron(y, o, phase)
           [] kind[o] = "allweak" -> [y EXCEPT !.allweak = @ \cup {o}]
           [] kind[o] = "lclosure" -> traverseLclosure(b, o, phase)
           [] kind[o] = "thread" -> traversethread(y, o, phase)

RECURSIVE propagateall(_, _)
propagateall(m, phase) ==
    IF m.gray = {} THEN m
    ELSE propagateall(propagatemark(m, CHOOSE o \in m.gray : TRUE, phase), phase)

\* Mutant of remarkupvals: the open upvalues of dead threads are not marked.
NoRemark(m) == m

\* remarkupvals
remarkupvals(m) ==
    LET out == {t \in m.twups : IsWhite(m, t) \/ t \notin open}
        uvs == m.touched \cap out \cap open
    IN  MarkAll([m EXCEPT !.twups = @ \ out, !.touched = @ \ uvs], {ent[t].v : t \in uvs})

RECURSIVE convergeephemerons(_)
convergeephemerons(m) ==
    LET Visit(a, o) == propagateall(traverseephemeron(a, o, "inside"), "inside")
        n == FoldLeft(Visit, [m EXCEPT !.ephemeron = {}], SetToSeq(m.ephemeron))
    IN  IF n.color # m.color THEN convergeephemerons(n) ELSE n

Clear(m, tables) == [removeentry(m, tables) EXCEPT !.cleared = @ \cup tables]
clearkeys(m, tables) == Clear(m, {o \in tables : Val(m, o) # Nil /\ IsWhite(m, ent[o].k)})
clearvalues(m, tables) == Clear(m, {o \in tables : IsWhite(m, Val(m, o))})

separatetobefnz(m) == SelectSeq(finobj, LAMBDA o : IsWhite(m, o))

\* atomic, up to the flip of the white
RemarkGray(m) ==
    propagateall([propagateall(remarkupvals(Mark([m EXCEPT !.grayagain = {}], Main)), "inside")
                    EXCEPT !.gray = m.grayagain], "inside")
ClearOrigin(m) == clearvalues(m, m.weak \cup m.allweak)
ClearAllKeys(m) == clearkeys(m, m.ephemeron \cup m.allweak)
ClearNew(m, origin) ==
    clearvalues(m, (m.weak \ origin.weak) \cup (m.allweak \ origin.allweak))
Resurrect(m) == propagateall(MarkAll(m, Range(tobefnz \o separatetobefnz(m))), "inside")
Finalizing(m) == [mark |-> ClearNew(ClearAllKeys(convergeephemerons(Resurrect(m))), m),
                  new |-> separatetobefnz(m)]
AtomicMark == Finalizing(ClearOrigin(convergeephemerons(RemarkGray(propagateall(g, "atomic")))))

\* The marks of a step, and the entries it cleared
Entries(m) == [o \in Obj |-> [k |-> IF o \in m.deadkey THEN Dead ELSE ent[o].k, v |-> Val(m, o)]]
Marks(m) == [m EXCEPT !.cleared = {}, !.deadkey = {}]

-----------------------------------------------------------------------------
(* Reachability, with an ephemeron keeping its value while its key is      *)
(* reachable.                                                              *)

Strong(o, S) ==
    CASE kind[o] = "table" -> IF ent[o].v = Nil THEN {} ELSE {ent[o].k, ent[o].v}
      [] kind[o] = "weakvalue" -> IF ent[o].v = Nil THEN {} ELSE {ent[o].k}
      [] kind[o] = "ephemeron" -> IF ent[o].k \in S \cup {Nil} THEN {ent[o].v} ELSE {}
      [] kind[o] = "allweak" -> {}
      [] kind[o] = "lclosure" -> {UpValue(o)}
      [] OTHER -> {ent[o].v}
RECURSIVE Closure(_)
Closure(S) ==
    LET T == (S \cup UNION {Strong(o, S) : o \in S}) \cap Obj IN IF T = S THEN S ELSE Closure(T)
Reachable == Closure(Range(root) \cap Obj)
\* What the next cycle must free: a touched upvalue keeps its value for one more
Garbage ==
    LET touched == {ent[t].v : t \in g.touched \cap open}
    IN  {o \in Obj : alive[o]} \
        Closure((Range(root) \cup Range(finobj \o tobefnz) \cup touched) \cap Obj)

-----------------------------------------------------------------------------
(* The steps of the collector                                              *)

\* freeobj of some objects; luaE_freethread closes the upvalues of a thread
Freed(S, e) ==
    /\ alive' = [o \in Obj |-> alive[o] /\ o \notin S]
    /\ ent' = [o \in Obj |-> IF o \in S THEN Empty
                             ELSE IF up[o] \in S THEN [k |-> Nil, v |-> UpValue(o)] ELSE e[o]]
    /\ up' = [o \in Obj |-> IF o \in S \/ up[o] \in S THEN Nil ELSE up[o]]
    /\ open' = open \ S

\* sweeplist: count objects of a list, from the pointer p on
sweeplist(list, p, white, count) ==
    LET at == IF p[1] = "hdr" THEN 0 ELSE CHOOSE i \in DOMAIN list : list[i] = p[2]
        end == IF at + count < Len(list) THEN at + count ELSE Len(list)
        dead == {o \in Range(SubSeq(list, at + 1, end)) : White(g.color[o]) /\ g.color[o] # white}
        live == SelectSeq(SubSeq(list, at + 1, end), LAMBDA o : o \notin dead)
    IN  [list |-> SubSeq(list, 1, at) \o live \o SubSeq(list, end + 1, Len(list)),
         dead |-> dead, live |-> Range(live),
         next |-> IF end = Len(list) THEN <<"null">>
                  ELSE IF live = <<>> THEN p ELSE <<"obj", Last(live)>>]
sweeptolive(list, p, white) ==
    LET Moves(n) == sweeplist(list, p, white, n).next # p
    IN  sweeplist(list, p, white, CHOOSE n \in 1..(Len(list) + 1) : Moves(n) /\ \A i \in 1..(n - 1) : ~Moves(i))
Whiten(m, S, white) == [m EXCEPT !.color = [o \in Obj \cup {Main} |-> IF o \in S THEN white ELSE @[o]]]

restartcollection ==
    /\ gcstate = "pause" /\ gcstate' = "propagate"
    /\ g' = MarkAll([g EXCEPT !.gray = {}, !.grayagain = {}, !.weak = {}, !.allweak = {},
                              !.ephemeron = {}], {Main} \cup Range(tobefnz))
    /\ garbage' = Garbage
    /\ UNCHANGED <<kind, alive, ent, up, open, root, fin, allgc, finobj, tobefnz,
                   currentwhite, sweepgc>>
PropagateStep ==
    /\ gcstate = "propagate"
    /\ \E o \in g.gray :
          LET m == propagatemark(g, o, "propagate")
          IN  g' = Marks(m) /\ ent' = Entries(m) /\ gcstate' = IF m.gray = {} THEN "atomic" ELSE gcstate
    /\ UNCHANGED <<kind, alive, up, open, root, fin, allgc, finobj, tobefnz,
                   currentwhite, sweepgc, garbage>>

\* The case GCSatomic: atomic, then entersweep
AtomicStep ==
    /\ gcstate = "atomic" /\ gcstate' = "swpallgc"
    /\ \E a \in {AtomicMark} :
          LET m == a.mark
              first == IF allgc = <<>> THEN {} ELSE {Head(allgc)}
              dead == {o \in first : m.color[o] = currentwhite}
          IN  /\ currentwhite' = otherwhite
              /\ finobj' = SelectSeq(finobj, LAMBDA o : o \notin Range(a.new))
              /\ tobefnz' = tobefnz \o a.new
              /\ allgc' = SelectSeq(allgc, LAMBDA o : o \notin dead)
              /\ sweepgc' = IF Len(allgc) <= 1 THEN <<"null">>
                            ELSE IF dead = {} THEN <<"obj", Head(allgc)>> ELSE <<"hdr">>
              /\ g' = Whiten(Marks(m), first \ dead, otherwhite)
              /\ Freed(dead, Entries(m))
              /\ garbage' = garbage \ dead
    /\ UNCHANGED <<kind, root, fin>>

\* sweepstep: sweepgc is the head of a list or a field of an object, in whatever list it is
Heads == [swpallgc |-> "allgc", swpfinobj |-> "finobj", swptobefnz |-> "tobefnz"]
GCLists == [allgc |-> allgc, finobj |-> finobj, tobefnz |-> tobefnz]
SweptList == IF sweepgc[1] # "obj" THEN Heads[gcstate]
             ELSE CHOOSE l \in DOMAIN GCLists : sweepgc[2] \in Range(GCLists[l])
NextSweep == [swpallgc |-> "swpfinobj", swpfinobj |-> "swptobefnz", swptobefnz |-> "swpend"]
sweepstep ==
    /\ gcstate \in DOMAIN NextSweep
    /\ LET swept == SweptList
           list == GCLists[swept]
           r == IF sweepgc = <<"null">>
                THEN [list |-> list, dead |-> {}, live |-> {}, next |-> sweepgc]
                ELSE sweeplist(list, sweepgc, currentwhite, GCSWEEPMAX)
           more == r.next # <<"null">>
       IN  /\ Freed(r.dead, ent) /\ garbage' = garbage \ r.dead
           /\ g' = Whiten(g, r.live, currentwhite)
           /\ allgc' = (IF swept = "allgc" THEN r.list ELSE allgc)
           /\ finobj' = (IF swept = "finobj" THEN r.list ELSE finobj)
           /\ tobefnz' = (IF swept = "tobefnz" THEN r.list ELSE tobefnz)
           /\ gcstate' = (IF more THEN gcstate ELSE NextSweep[gcstate])
           /\ sweepgc' = (IF more THEN r.next ELSE IF gcstate = "swptobefnz" THEN <<"null">> ELSE <<"hdr">>)
    /\ UNCHANGED <<kind, root, fin, currentwhite>>
SweepEnd ==
    /\ gcstate = "swpend" /\ gcstate' = "callfin"
    /\ g' = Whiten(g, {Main}, currentwhite)
    /\ UNCHANGED <<kind, alive, ent, up, open, root, fin, allgc, finobj, tobefnz,
                   currentwhite, sweepgc, garbage>>

\* GCTM: the finalizer may store its argument
GCTM ==
    /\ tobefnz # <<>>
    /\ LET o == Head(tobefnz) IN
       /\ tobefnz' = Tail(tobefnz) /\ allgc' = <<o>> \o allgc
       /\ fin' = [fin EXCEPT ![o] = FALSE]
       /\ g' = IF issweepphase THEN Whiten(g, {o}, currentwhite) ELSE g
       /\ \/ UNCHANGED root
          \/ \E i \in Root : root' = [root EXCEPT ![i] = o]
    /\ UNCHANGED <<kind, alive, ent, up, open, finobj, currentwhite, gcstate, sweepgc, garbage>>
CallFin ==
    /\ gcstate = "callfin"
    /\ \/ ~emergency /\ GCTM
       \/ /\ emergency \/ tobefnz = <<>>
          /\ gcstate' = "pause"
          /\ UNCHANGED <<kind, alive, ent, up, open, root, g, fin, allgc, finobj, tobefnz,
                         currentwhite, sweepgc, garbage>>
singlestep == restartcollection \/ PropagateStep \/ AtomicStep \/ sweepstep \/ SweepEnd \/ CallFin

\* luaC_step: single steps, and a few finalizers unless it came to the pause
luaC_step ==
    /\ full = 0
    /\ singlestep \/ (gcstate # "pause" /\ GCTM)
    /\ UNCHANGED <<full, emergency, ops>>

\* luaC_fullgc: to the pause, out of it, to the finalizers, to the pause
Reached == CASE full = 1 -> gcstate = "pause" [] full = 2 -> gcstate # "pause"
             [] full = 3 -> gcstate = "callfin" [] full = 4 -> gcstate = "pause"
FullGC ==
    /\ full = 0 /\ full' = 1 /\ emergency' \in BOOLEAN
    /\ IF ~keepinvariant
       THEN UNCHANGED <<alive, ent, up, open, g, allgc, gcstate, sweepgc, garbage>>
       ELSE LET r == sweeplist(allgc, <<"hdr">>, currentwhite, 1) IN
            /\ gcstate' = "swpallgc" /\ sweepgc' = r.next
            /\ Freed(r.dead, ent) /\ garbage' = {}
            /\ allgc' = r.list /\ g' = Whiten(g, r.live, currentwhite)
    /\ UNCHANGED <<kind, root, fin, finobj, tobefnz, currentwhite, ops>>
FullStep ==
    /\ full # 0 /\ UNCHANGED ops
    /\ IF Reached
       THEN /\ full' = (full + 1) % 5
            /\ emergency' = (emergency /\ full # 4)
            /\ UNCHANGED <<kind, alive, ent, up, open, root, g, fin, allgc, finobj, tobefnz,
                           currentwhite, gcstate, sweepgc, garbage>>
       ELSE singlestep /\ UNCHANGED <<full, emergency>>

-----------------------------------------------------------------------------
(* The program: it works on what the places of the main thread hold, and   *)
(* does not run inside of a full collection.                               *)

collector == <<finobj, tobefnz, currentwhite, gcstate>>
Held == {root[i] : i \in Root} \ {Nil}
Of(kinds) == {o \in Held : kind[o] \in kinds}

\* luaC_barrier_ and luaC_barrierback_, with their macros; luaC_upvalbarrier_
Barrier(o, v) ==
    IF g.color[o] # "black" \/ ~IsWhite(g, v) THEN g
    ELSE IF keepinvariant THEN Mark(g, v) ELSE Whiten(g, {o}, currentwhite)
BarrierBack(o, k, v) ==
    IF g.color[o] # "black" \/ (~IsWhite(g, k) /\ ~IsWhite(g, v)) THEN g
    ELSE [g EXCEPT !.color[o] = "gray", !.grayagain = @ \cup {o}]

UpvalBarrier(vs) == IF keepinvariant THEN MarkAll(g, vs) ELSE g

\* luaC_newobj, lua_newthread; luaF_findupval for a closure over the stack of a coroutine
luaC_newobj(o, i) ==
    /\ ~alive[o] /\ alive' = [alive EXCEPT ![o] = TRUE]
    /\ root' = [root EXCEPT ![i] = o] /\ allgc' = <<o>> \o allgc
    /\ LET m == Whiten(g, {o}, currentwhite) IN
       \/ g' = m /\ UNCHANGED <<up, open>>
       \/ kind[o] = "lclosure" /\ \E t \in Of({"thread"}) :
             /\ up' = [up EXCEPT ![o] = t] /\ open' = open \cup {t}
             /\ g' = IF t \in open THEN m
                     ELSE [m EXCEPT !.touched = @ \cup {t}, !.twups = @ \cup {t}]
    /\ UNCHANGED <<ent, fin, sweepgc, garbage>>
\* A read of a table (next and index), a user value, an upvalue, a coroutine's stack
Load(o, i) ==
    /\ \E x \in ({UpValue(o)} \cup IF ent[o].v # Nil THEN {ent[o].k} ELSE {}) \cap Obj :
          root' = [root EXCEPT ![i] = x] /\ garbage' = garbage \ Closure({x} \cup Reachable)
    /\ UNCHANGED <<alive, ent, up, open, g, fin, allgc, sweepgc>>
DropRoot(i) ==
    /\ root[i] # Nil /\ root' = [root EXCEPT ![i] = Nil]
    /\ UNCHANGED <<alive, ent, up, open, g, fin, allgc, sweepgc, garbage>>
\* luaH_newkey and luaV_finishset
SetTable(o, k, v) ==
    /\ kind[o] \in Tables /\ (ent[o].v = Nil \/ ent[o].k = k)
    /\ ent' = [ent EXCEPT ![o] = IF v = Nil THEN [@ EXCEPT !.v = Nil] ELSE [k |-> k, v |-> v]]
    /\ g' = BarrierBack(o, IF v = Nil THEN Nil ELSE k, v)
    /\ UNCHANGED <<alive, up, open, root, fin, allgc, sweepgc, garbage>>
lua_setuservalue(o, v) ==
    /\ kind[o] = "udata"
    /\ ent' = [ent EXCEPT ![o].v = v] /\ g' = Barrier(o, v)
    /\ UNCHANGED <<alive, up, open, root, fin, allgc, sweepgc, garbage>>
\* OP_SETUPVAL, and a coroutine writing its stack
SetUpValue(o, v) ==
    /\ kind[o] \in {"lclosure", "thread"}
    /\ LET at == IF up[o] = Nil THEN o ELSE up[o] IN ent' = [ent EXCEPT ![at].v = v]
    /\ g' = IF kind[o] = "lclosure" /\ up[o] = Nil THEN UpvalBarrier({v}) ELSE g
    /\ UNCHANGED <<alive, up, open, root, fin, allgc, sweepgc, garbage>>
luaF_close(o) ==
    /\ o \in open /\ open' = open \ {o}
    /\ LET cs == {c \in Obj : up[c] = o} IN
       /\ ent' = [c \in Obj |-> IF c \in cs THEN [k |-> Nil, v |-> ent[o].v] ELSE ent[c]]
       /\ up' = [c \in Obj |-> IF c \in cs THEN Nil ELSE up[c]]
       /\ g' = UpvalBarrier(IF cs = {} THEN {} ELSE {ent[o].v})
    /\ UNCHANGED <<alive, root, fin, allgc, sweepgc, garbage>>

\* luaC_checkfinalizer; the object that sweepgc points into leaves the list
luaC_checkfinalizer(o) ==
    /\ kind[o] \in Tables \cup {"udata"} /\ ~fin[o]
    /\ Len(finobj \o tobefnz) < MaxFin
    /\ LET r == IF issweepphase /\ sweepgc = <<"obj", o>>
                THEN sweeptolive(allgc, sweepgc, currentwhite)
                ELSE [list |-> allgc, dead |-> {}, live |-> {}, next |-> sweepgc]
       IN  /\ Freed(r.dead, ent) /\ garbage' = garbage \ r.dead
           /\ sweepgc' = r.next
           /\ g' = Whiten(g, r.live \cup (IF issweepphase THEN {o} ELSE {}), currentwhite)
           /\ allgc' = SelectSeq(r.list, LAMBDA x : x # o)
    /\ finobj' = <<o>> \o finobj /\ fin' = [fin EXCEPT ![o] = TRUE]
    /\ UNCHANGED <<root, tobefnz, currentwhite, gcstate>>

Program ==
    /\ full = 0 /\ UNCHANGED <<kind, full, emergency>>
    /\ ops < MaxOps /\ ops' = ops + 1
    /\ \/ /\ UNCHANGED collector
          /\ \/ \E i \in Root : DropRoot(i) \/ (\E o \in Obj : luaC_newobj(o, i))
             \/ \E o \in Held :
                   \/ luaF_close(o)
                   \/ \E i \in Root : Load(o, i)
                   \/ \E v \in Held \cup {Nil} :
                         lua_setuservalue(o, v) \/ SetUpValue(o, v) \/ \E k \in Held \cup {Nil} : SetTable(o, k, v)
       \/ \E o \in Held : luaC_checkfinalizer(o)
GCNext == Program \/ luaC_step \/ FullGC \/ FullStep
GCSpec == GCInit /\ [][GCNext]_gcVars

-----------------------------------------------------------------------------
\* Types; an object that exists is in exactly one of the three lists, and not twice
GCTypeOK ==
    /\ gcstate \in {"pause", "propagate", "atomic", "swpallgc", "swpfinobj", "swptobefnz", "swpend", "callfin"}
    /\ currentwhite \in {"w0", "w1"} /\ full \in 0..4
    /\ LET lists == allgc \o finobj \o tobefnz
       IN  IsInjective(lists) /\ Range(lists) = {o \in Obj : alive[o]}
    /\ \A o \in Obj : alive[o] => (fin[o] <=> o \in Range(finobj \o tobefnz))

\* Whatever the program can still get at exists and is not about to be freed: what it
\* reaches, the entries of the weak tables it reaches, and what waits for its finalizer.
\* The barriers, the second traversal of grayagain, remarkupvals and the clearing of weak
\* tables are all there for this.  The list twups holds no thread that was freed.
NoDangling ==
    LET reach == Closure((Range(root) \cup Range(tobefnz)) \cap Obj)
        weak == UNION {IF ent[o].v = Nil THEN {} ELSE {ent[o].k, ent[o].v} :
                          o \in {x \in reach : kind[x] \in Tables}} \cap Obj
    IN  /\ \A o \in reach \cup (IF keepinvariant THEN {} ELSE weak) :
              alive[o] /\ g.color[o] # otherwhite
        /\ \A o \in weak : alive[o]
        /\ \A t \in g.twups : alive[t]

\* While the collector marks, no black object refers to a white one, except through the
\* open upvalue of a coroutine
TriColor ==
    keepinvariant =>
        \A o \in {x \in Obj : alive[x] /\ g.color[x] = "black" /\ up[x] = Nil} :
           \A x \in Strong(o, Obj) \cap Obj : ~White(g.color[x])

\* "change all non-dead objects back to white, preparing for next collection cycle"
\* (sweeplist): when a cycle is over, every object is white
SweptWhite == gcstate = "pause" => \A o \in Obj : alive[o] => White(g.color[o])

\* An object marked for finalization is not freed before its finalizer was called
FinalizerRuns == \A o \in Obj : fin[o] => alive[o]

\* What was garbage when a cycle began is freed when the cycle is over, cycles of
\* objects and of ephemeron entries included
Collected == gcstate \in {"callfin", "pause"} => garbage = {}

\* A cycle of lgc.c frees what is garbage and nothing else
CollectsGarbage == GCTypeOK /\ NoDangling /\ TriColor /\ FinalizerRuns /\ Collected
====
