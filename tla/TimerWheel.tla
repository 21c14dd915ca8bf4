----------------------------- MODULE TimerWheel -----------------------------
(***************************************************************************)
(* The timer of skynet_timer.c: lists of timers by their low bits for the  *)
(* near future and four levels of lists for the rest of a clock that wraps *)
(* around.  The lock is held for a step; timer_execute lets go of it while *)
(* it dispatches, so a service may add a timer in the middle of a tick.    *)
(***************************************************************************)
EXTENDS Integers, SequencesExt

CONSTANTS TIME_NEAR_SHIFT, TIME_LEVEL_SHIFT,
          TimerNode,        \* the timers that can be set at a time
          MaxDiff           \* bounds the ticks that an update is late

ASSUME TimerAssumption ==
    TIME_NEAR_SHIFT \in Nat \ {0} /\ TIME_LEVEL_SHIFT \in Nat \ {0} /\ MaxDiff \in Nat

VARIABLES time,          \* T->time
          near, t,       \* the lists
          expire,        \* node->expire
          tick,          \* where timer_update is
          firing,        \* the list that timer_execute took
          behind,        \* calls of timer_update that skynet_updatetime still makes
          left,          \* ticks until a timer is due, by what was asked for
          added          \* the timers that are set, in the order they were added

wheelVars == <<time, near, t, expire, tick, firing, behind, left, added>>

TIME_NEAR == 2 ^ TIME_NEAR_SHIFT
TIME_LEVEL == 2 ^ TIME_LEVEL_SHIFT
Shift(i) == 2 ^ (TIME_NEAR_SHIFT + i * TIME_LEVEL_SHIFT)
Wrap == Shift(4)

TimerInit ==
    /\ time = 0
    /\ near = [i \in 0..TIME_NEAR - 1 |-> <<>>]
    /\ t = [i \in 0..3 |-> [j \in 0..TIME_LEVEL - 1 |-> <<>>]]
    /\ expire = [x \in TimerNode |-> 0] /\ left = expire
    /\ tick = "idle" /\ firing = <<>> /\ behind = 0 /\ added = <<>>

-----------------------------------------------------------------------------
\* add_node, for node x of expiry e, on lists w at current time now.
\* (a | (m - 1)) = (b | (m - 1)) says that a and b agree above the low bits.
Agree(a, b, m) == a \div m = b \div m
\* Mutant of Level: the last level is compared with the wrong mask
LevelOff(e, now) == IF \A i \in 1..2 : ~Agree(e, now, Shift(i)) THEN 2
                    ELSE (CHOOSE i \in 1..2 : Agree(e, now, Shift(i))
                             /\ \A j \in 1..i - 1 : ~Agree(e, now, Shift(j))) - 1

Level(e, now) == IF \A i \in 1..3 : ~Agree(e, now, Shift(i)) THEN 3
                 ELSE (CHOOSE i \in 1..3 : Agree(e, now, Shift(i))
                          /\ \A j \in 1..i - 1 : ~Agree(e, now, Shift(j))) - 1

add_node(w, x, e, now) ==
    IF Agree(e, now, TIME_NEAR)
    THEN [w EXCEPT !.near[e % TIME_NEAR] = Append(@, x)]
    ELSE LET i == Level(e, now)
         IN  [w EXCEPT !.t[i][(e \div Shift(i)) % TIME_LEVEL] = Append(@, x)]

Lists == [near |-> near, t |-> t]
SetLists(w) == near' = w.near /\ t' = w.t

timer_add(x, ticks) ==
    /\ tick \in {"idle", "fire1", "fire2"} /\ x \notin Range(added)
    /\ expire' = [expire EXCEPT ![x] = (ticks + time) % Wrap]
    /\ SetLists(add_node(Lists, x, expire'[x], time))
    /\ left' = [left EXCEPT ![x] = ticks] /\ added' = Append(added, x)
    /\ UNCHANGED <<time, tick, firing, behind>>

\* A time that is not positive is sent at once and leaves the lists alone
skynet_timeout(x, ticks) == ticks > 0 /\ timer_add(x, ticks)

\* skynet_updatetime: the clock went on by diff, or back
skynet_updatetime(diff) ==
    /\ tick = "idle" /\ behind = 0 /\ diff > 0 /\ behind' = diff
    /\ UNCHANGED <<time, near, t, expire, tick, firing, left, added>>

timer_update ==
    /\ tick = "idle" /\ behind > 0 /\ tick' = "execute1" /\ behind' = behind - 1
    /\ UNCHANGED <<time, near, t, expire, firing, left, added>>

\* timer_execute takes the list that is due, or is done
timer_execute ==
    LET idx == time % TIME_NEAR IN
    /\ tick \in {"execute1", "execute2"}
    /\ \/ /\ near[idx] # <<>> /\ firing' = near[idx]
          /\ near' = [near EXCEPT ![idx] = <<>>]
          /\ tick' = IF tick = "execute1" THEN "fire1" ELSE "fire2"
       \/ /\ near[idx] = <<>> /\ UNCHANGED <<near, firing>>
          /\ tick' = IF tick = "execute1" THEN "shift" ELSE "idle"
    /\ UNCHANGED <<time, t, expire, behind, left, added>>

\* dispatch_list, one message at a time
dispatch_list ==
    /\ tick \in {"fire1", "fire2"}
    /\ firing' = Tail(firing) /\ added' = SelectSeq(added, LAMBDA x : x # Head(firing))
    /\ tick' = IF firing' # <<>> THEN tick
               ELSE IF tick = "fire1" THEN "execute1" ELSE "execute2"
    /\ expire' = [expire EXCEPT ![Head(firing)] = 0]    \* the node is freed
    /\ UNCHANGED <<time, near, t, behind, left>>

link_clear(w, level, idx) == [w EXCEPT !.t[level][idx] = <<>>]
move_list(level, idx, now) ==
    LET moved == t[level][idx]
        w0 == link_clear(Lists, level, idx)
    IN  SetLists(FoldLeft(LAMBDA w, x : add_node(w, x, expire[x], now), w0, moved))

NextTime == (time + 1) % Wrap
timer_shift ==
    LET ct == NextTime
        Due(i) == /\ \A j \in 0..i : ct % Shift(j) = 0
                  /\ (ct \div Shift(i)) % TIME_LEVEL # 0
    IN
    /\ tick = "shift" /\ tick' = "execute2" /\ time' = ct
    /\ left' = [x \in TimerNode |-> IF x \in Range(added) THEN left[x] - 1 ELSE 0]
    /\ IF ct = 0 THEN move_list(3, 0, ct)
       ELSE IF \E i \in 0..3 : Due(i)
       THEN LET i == CHOOSE i \in 0..3 : Due(i)
            IN  move_list(i, (ct \div Shift(i)) % TIME_LEVEL, ct)
       ELSE UNCHANGED <<near, t>>
    /\ UNCHANGED <<expire, firing, behind, added>>

\* timer_add's time is a positive int, half the range of the clock
TimerNext ==
    \/ \E x \in TimerNode, ticks \in 1..Wrap \div 2 - 1 : skynet_timeout(x, ticks)
    \/ \E diff \in -1..MaxDiff : skynet_updatetime(diff)
    \/ timer_update \/ timer_execute \/ dispatch_list \/ timer_shift
TimerSpec == TimerInit /\ [][TimerNext]_wheelVars

-----------------------------------------------------------------------------
TimerTypeOK ==
    /\ time \in 0..Wrap - 1 /\ behind \in 0..MaxDiff
    /\ tick \in {"idle", "execute1", "fire1", "shift", "execute2", "fire2"}

\* A timer fires in exactly the tick it was set for, from every level and
\* across the wrap of the clock: after n ticks, neither early nor late.
FiresOnTime ==
    /\ \A x \in Range(firing) : left[x] = 0
    /\ tick = "idle" => \A x \in Range(added) : left[x] > 0

\* Of two timers that are due in the same tick, the one that was set first
\* fires first, although they came to the list by different levels.
FiresInOrder ==
    firing # <<>> =>
        \A x \in Range(SubSeq(added, 1, IndexFirstSubSeq(<<Head(firing)>>, added) - 1)) :
            left[x] # 0

\* Every timer of skynet_timeout fires at its time and in its turn
TimersFire == TimerTypeOK /\ FiresOnTime /\ FiresInOrder
=============================================================================
