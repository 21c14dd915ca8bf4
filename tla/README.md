# The paohuzi server in TLA+

This directory specifies the game server under `src/server`, the parts of the
skynet framework that it stands on (`src/lualib`, `src/lualib-src`,
`src/service-src`, `src/skynet-src`), and the algorithms of the vendored
libraries (`src/3rd`) that are hardest to get right: Lua's collector, LPeg, and
jemalloc. TLC checks the modules on small instances; TLAPS proves the theorems
of section 5 for every value of the constants.

1. [The system](#1-the-system)
2. [Modules and the code they model](#2-modules-and-the-code-they-model)
3. [Runs: what is checked](#3-runs-what-is-checked)
4. [Fairness](#4-fairness)
5. [Proofs](#5-proofs)
6. [Findings](#6-findings)
7. [What is abstracted and what is left out](#7-what-is-abstracted-and-what-is-left-out)

## 1. The system

The server lets four players play paohuzi, a rummy-like game with 80 cards:
the values 1 to 10, small and big, four copies of each face.

```
 client -- gate -- watchdog -- playerAgent --+-- roomManager        (one)
                        |    (one/connection)+-- roomAgent          (one per room)
                     gameRoot                       |
                        |                       gameCenter          (one per room)
                    db_service (mysql)           cards, rules, scores, results
 ------------------------------------------------------------------------------
 skynet: services as Lua states with coroutines; queues, handles, timers, sockets
 ------------------------------------------------------------------------------
 Lua (collector), LPeg, jemalloc
```

A *service* is a Lua state that handles one message at a time. A handler runs in
a coroutine until it ends or yields in `skynet.call`, `skynet.wait` or
`skynet.sleep`; while it is suspended other messages of the service run. So a
service has no data races inside it, but everything it read before a call may
have changed after it. `skynet.queue` makes a critical section (`cs`) that spans
calls. Below, several worker threads take services from a global queue, run a
batch of their messages and put them back; services are created and end while
other threads send to them; one thread drives the timer and one the sockets.

`PROJECT.json` lists every part of the system with its status, the source lines
behind each definition, and the hazards of the code: the places where a test
would hardly reach what can go wrong.

## 2. Modules and the code they model

### The game

* **Cards** - the constants of `R.lua` (seats, rules, wins) and a card as `<<value,
  size, copy>>` instead of an id. Faces (value and size) are what the rules compare.
* **PlayerCards** - `playerCardManager.lua`: a record for the cards of a player
  (`hand`, the dealt quads and triples `ti` and `kan`, the groups shown, the history,
  the alarm `wufu`, the faces given up `chou`) and an operator for each method that
  changes it. `popHistory` undoes `payCards` from the history, as the code does, and
  not by keeping the old record.
* **RuleHelp** - `ruleHelp.lua`: how a hand is sorted into groups (`tidyHandCards`, with
  its separate test of the last three cards), which groups a card makes, which are
  laid without asking, and how a win is named.
* **NoneSingle** - `ruleHelp:noneSingle`, whether a hand splits into threes and at most
  one pair. The code sorts its list in place by value only; which of two cards of a
  value comes first then decides what the search finds. Therefore Lua's `table.sort`
  (`3rd/lua/ltablib.c`) is modelled too, swap by swap. It uses RECURSIVE operators, so
  modules with theorems do not reach it: `GameRun` takes the win test as a constant
  operator, which the configurations set to `noneSingle` and about which the proofs
  assume nothing.
* **ScoreManager** - `gameScoreManager.lua`, `gameResultManager.lua` and the life of a
  room around them (`newGame`, `playerStartGame`, `settle`). `ScoreSpec` is a machine of
  its own, in which any group may be laid and any win booked: the abstract
  specification of what the table does to the scores.
* **GameRun** - `gameCenter:startPlay` and `run`, and the properties of the table. `pc`
  says where the coroutine is; an action is what it does from one loop or wait to the
  next, every call in between included:

  | action | `gameCenter.lua` |
  |---|---|
  | `startPlay`, `StartGame` | 505-674, 231-260 |
  | `BestHu`, `NoBestHu`, `LayDealt` | 827-865: wins as dealt, groups as dealt |
  | `AskAllWufu`, `selectWufuBaojing`, `WufuTimeout` | 866, 225-229, 712-743 |
  | `systemDispatchCard`, `Hongzhuang` | 813-819, 883-888: the next card; the deck is empty |
  | `playerPayCards` | 889-894: a discard, of the hand or not |
  | `Force1`, `Force2` | 902-941, 984-1019: groups that are laid without asking |
  | `HuByRule`, `HuByCard` | 945-981: wins with the card on the table |
  | `Offer`, `TakeOffer`, `PassOffer` | 1022-1115, 744-797: who may take the card and who does |
  | `Settle`, `Over` | 650-673, 347-366: what `startPlay` does after `run` |

  `ScoreManager`'s actions are conjuncts of these actions: the two are composed by
  sharing the score variables.

  `run` checks only the seat and the rule of a discard (702-710) and ignores whether
  `payCards` found the card (891-892): a client that sends a card its player does not
  have puts it on the table and keeps its hand. The constant `Foreign` holds such cards.
  They are cards that nobody has, because a set cannot hold a card twice; so what `run`
  does with a second copy of a card that somebody has is not modelled. `HandSent` says
  that there are none (`Foreign = {}`).

### The services of the game

* **SkynetQueue** - `queue.lua` on the coroutines of one service, with the part of
  `skynet.lua` that it relies on: `suspend`, `dispatch_wakeup`, `sleep_session` and
  `wakeup_session`, and the fact that an error in a handler is raised before
  `dispatch_wakeup` is reached.
* **Rooms** - roomManager, roomAgent, the room commands of gameCenter, playerAgent and
  watchdog. A request is a stack of handlers, the running one first. A step is what a
  handler does up to its next `skynet.call`, so requests interleave at each call, and a
  reply arrives as a step of its caller. A service that exited answers with an error,
  which ends the request and leaves its section. The section of a room is a queue of
  coroutines, which is what `SkynetQueue` establishes about `cs`. A coroutine that a
  failing handler woke is resumed with the next message to the service (`woken`).

### skynet

* **Fifo**, **RingBuffer** - `skynet_mq.c`, the ring of one queue with its growth and
  overload mark, against a plain sequence.
* **MessageQueue** - `skynet_mq.c`, the global queue, `in_global`, release of a queue.
* **Kernel**, **Mailbox** - `skynet_server.c` and `skynet_start.c`: contexts and their
  reference counts, sending, dispatch by weight, exit, deletion, sleep and wakeup of
  workers. A thread is a stack of steps (`todo`), each step what the code does between
  two lock or atomic operations. `Kernel` uses `MessageQueue` as an INSTANCE whose
  `held` is a function of the stacks. `Mailbox` is what a service promises: messages
  accepted, handled one at a time, the rest dropped when it closes.
* **Handles** - `skynet_handle.c`; **TimerWheel** - `skynet_timer.c`; **RWLock** -
  `rwlock.h`, each atomic operation a step.
* **SocketServer** - `socket_server.c`; **SocketBuffer** - `lua-socket.c` and the reads of
  `socket.lua`; **Gate** - `service_gate.c`, `databuffer.h`, `hashid.h`; **NetPack** -
  `lua-netpack.c` and `gateserver.lua`; **Harbor** - `service_harbor.c`.
* **Serial** - `lua-seri.c`, `lua-cluster.c`, `lua-bson.c`, `lua-mongo.c`, `lua-crypt.c`;
  **Sproto** - `sproto.c`, `lsproto.c`, `sprotoparser.lua`.

### Libraries

* **LuaGC** - `lgc.c`, the incremental collector. **LPeg** - constructors, compiler and
  machine, against the meaning of patterns. **JeTrees** - jemalloc's red-black tree,
  pairing heap, bitmap, cuckoo table and radix tree. **Chunks**, **Arena**, **Heap** - its
  chunks, runs, bins, huge objects and thread caches, and the threads that call them.

### Instances and proofs

`MCGameRun`, `MCAlgo`, `MCSync`, `MCRooms`, `MCKernel`, `MCStructs` and `MCNet` give
the constants values for TLC. `MCAlgo`, `MCStructs` and `MCNet` hold several
components: a behaviour runs the one that the variable `part` names, and the others
stay as they start. `HuCheck` builds hands card by card and
compares `noneSingle` with a reference definition. `Facts` and the modules named
`...Proofs`, `...Steps` and `...Theorems` hold the proofs of section 5.

## 3. Runs: what is checked

Every run is `tlc -config <cfg> <module>`. The bounds are the constants of the `cfg`
files; where a component has a counter that the code lets grow, the bound is a
constant named `Max...` in the guard of the action.

**`table`** (`MCGameRun.cfg`, 32 thousand states). Four decks of 32 cards (four values),
hands of five, all answers of the players, who discard cards of their hands (`HandSent`).
The decks are chosen so that forced groups,
dealt quads, wins, a draw game and offers to several players happen. `TurnCap` is exact:
the code tells only no turn, one and more turns apart. `CardsKept`: no card is in two places, a card makes at most one forced group,
and a player to move has the number of cards that the rules give. `ProbesUndone`: the
tests for a win leave no trace on the hands. `NeverEatDiscarded`: a discarded face is
not eaten later. `ScoredRuleWon`: the rule that scores a win is the one that won.
`PengBeforeChi`: no Chi goes before an open Peng. `Finishes`: the game ends.
`ScoreSpec`: the table implements the score machine.

**`table_wufu`** (`MCWufu.cfg`, 123 thousand states). Eight values and hands of fourteen
cards as in the code, in two decks whose hands have the triples that an alarm needs,
and a quad; the rest of the deck is short. A player may also discard a small two that
nobody has. `WufuBinds`: who raised it wins only with five triples and eats nothing.

**`algo`** (`MCAlgo.cfg`, 629 thousand states). `WinsOnlySplit`: `noneSingle` accepts no
hand of up to eight cards of `{2, 3, 4, 7, 10}` that does not split (the values make all
kinds of group). `ZeroSum` and `StreakIsOnePlayers`: three games of a room.
`PatternsMatch`: LPeg matches what the pattern means, for all patterns of three
constructor calls, grammars included. Not among them are two kinds of grammar that
`newgrammar` accepts and the compiler never finishes: one with an unused left recursive
rule, and one with a predicate or capture of fixed length around a call of its own rule,
such as `S <- &('a' S)`. `MakeGrammar` leaves them out. `RoundTrips`: sproto, `lua-seri`, BSON and the
codecs read back what they wrote; bytes are digits, so that the lengths at which the
format changes are small. `RequestsServed`: requests of several parts between two nodes
arrive whole and are answered once.

**`sync`** (`MCSync.cfg`, 486 states). Three coroutines that enter up to twice, and three
threads at the lock. `MutualExclusion`, `LockExcludes`, and under fairness
`WaiterEnters`, `WriterEnters`.

**`rooms`** (`MCRooms.cfg`, 540 thousand states). Two players and three connections for one
seat: join and rejoin. Two seats with join, ready, request, agree, decline. And, under
fairness, rooms that are created, joined and closed by their master. `SeatsKept`: only
the player seated hears or commands the room. `DeclineEndsVote`: no vote is counted while
a declined vote is being cleared. `RequestsEndLive`: every request ends, and calls never
form a circle, except for a request that waits where a failed handler woke it and no
other message comes (`Stranded`).

**`kernel`** (`MCKernel.cfg`, 148 thousand states). Two workers of weight -1 and 0, a thread
that sends, the timer and socket threads, two services, one of them created while
the others run, three messages. `ContextsSafe`: a context that somebody has a reference
to is not freed, also when a service ends itself in its init. (The creator goes on to use
the context without one: `Inited`, `Launched`.)
`QueuesUsedWell`: queues are pushed, taken and released as `MessageQueue` allows.
`ServiceIsActor`: each service refines `Mailbox`. `MessagesServed`, `WorkersEnd`.

**`structs`** (`MCStructs.cfg`, 1217 thousand states). Eleven parts, each under every
sequence of its operations: `QueuesKept` (global queue), `HandlesServe`, `TimersFire`
(each timer at its tick, once), `SocketReads` (a read gets what was sent, and wakes),
`CollectsGarbage` (what is reachable survives, finalizers run once; the program takes up
to two steps between those of the collector), `ContainersKept` (trees, heap, bitmap,
cuckoo and radix tables against sets and maps, a cuckoo insertion that finds no memory
included, which may lose the key of an earlier one). `SocketReads` excepts a coroutine
that reads again while `close` waits for its first read.

**`net`** (`MCNet.cfg`, 698 thousand states). Eight parts: `RingIsFifo`, `SocketsServe`,
`GateServes`, `PackagesServed`, `HarborServes`, and for the allocator `HeapKept` (no two
allocations share memory and no memory is lost) and `CallsReturn` (a safety property:
no call takes as many steps as `MaxSteps`), in twelve settings. The sockets are
checked three times, with TCP, with UDP, and with slots that are reserved in two steps
while requests and events for their old ids are on the way.

**`hu_missed`**, **`top_quad`**, **`taken_card`**, **`handle_slots`** each violate one property: section 6.

Deadlock is checked in `table`, `table_wufu`, `sync` and `kernel`. The other
configurations turn it off: a server that got all the requests of its bound just waits.

Each property has a mutant in `PROJECT.json`, a plausible slip in one definition which
makes the run fail.

## 4. Fairness

* `table`: the coroutine goes on until the game is over. Between two answers this is
  skynet's own scheduling; that the players answer is an assumption, as the code waits
  for them without a limit everywhere but in the alarm round.
* `sync`: a resumed coroutine runs (weak fairness). A call returns, and a handler leaves
  its section, again and again if it can (strong fairness, as others run in between).
  In `RWLock`, each thread is scheduled.
* `rooms`, for `RequestsEndLive`: every handler that can take its next step does, since skynet dispatches
  each queued message.
* `kernel`: each thread is scheduled, and the timer thread wakes the workers regularly
  (`skynet_start.c:135`). `MessagesServed` needs it: a signal to a worker that is about to
  sleep is lost, and the next tick makes up for it.

Safety properties are checked without fairness, or do not depend on it.

## 5. Proofs

The theorems about the table have the hypothesis `HandSent`: clients discard cards of
the players' hands. The code does not check it, and without it the hands do not keep
their size (section 6). All theorems hold for every value of the constants that satisfies the named
assumptions: values among 1 to 10, decks without repetition that are long enough to
deal, any size of hands from three, any number of coroutines, threads, workers,
queues and messages, and any win test (`GameRun` takes it as a constant operator).

| theorem | module | run's property |
|---|---|---|
| `CardsAreKept` | GameTheorems | `CardsKept` |
| `TestsAreUndone` | GameTheorems | `ProbesUndone` |
| `DiscardedStayUneaten` | GameTheorems | `NeverEatDiscarded` |
| `WinsScoredByTheirRule` | GameTheorems | `ScoredRuleWon` |
| `PengGoesFirst` | GameTheorems | `PengBeforeChi` |
| `AlarmBinds` | GameTheorems | `WufuBinds` |
| `TableImplementsScores` | GameTheorems | `ScoreSpec` |
| `TableSumsToZero`, `ScoresSumToZero` | GameTheorems | `ZeroSum` |
| `StreaksAreOnePlayers`, `ScoresTyped` | GameTheorems | `StreakIsOnePlayers` |
| `RingImplementsFifo`, `RingHasNoHole` | RingProofs | `RingIsFifo` |
| `QueuesAreKept` | MqProofs | `QueuesKept` |
| `RWLockExcludes` | SyncProofs | `LockExcludes` |
| `QueueExcludes`, `QueueAssertHolds`, `QueueKeepsWakeups`, `QueueNoOvertaking` | SyncProofs | `MutualExclusion` |

**The table.** The inductive invariant is `GInv`. What is to be shown needs all of it:
that no card is in two places (`OneOwner`) needs that a group to be laid consists of
cards of the hand, hence that the offers standing are the ones the present hand allows
(`OfferInv`). That needs to know where the coroutine is (`Control`) and what the
dealt quads and triples are (`TidyInv`). The count of cards (`BalanceInv`) needs both; that
the tests for a win are undone needs the history to end with the group just laid
(`HistoryInv`). The count is stated for players who were dealt at most one quad.
`CardProofs` has the lemmas about the score manager, the card manager and the rules;
`GameProofs` the counting of cards and the first conjuncts, action by action;
`GameSteps` the other conjuncts; `GameTheorems` puts the steps together. The refinement
`TableImplementsScores` follows from the guards that `GInv` gives: each action's score
conjunct is an action of `ScoreSpec`, and `TableSumsToZero` follows from it alone.

The lemmas take their facts about finite sets and sequences as the hypothesis `Facts`.
`GameTheorems` proves `Facts` from the library's theorems, and no result is left with it
as a hypothesis. This keeps the library out of the context of most obligations.

**The ring.** `RingInv` says which slots hold messages after any growth; the refinement
mapping reads them from `head` to `tail`. **The global queue.** `MqInv`: a queue is in the
list once, or held by a worker, or idle and empty; `in_global` tells which. **The lock
and the section.** `LockInv` counts readers by where the threads are; `QueueInv` relates
`current_thread`, the waiting list and the sessions to the state of each coroutine.

Only model-checked: liveness (`Finishes`, `WaiterEnters`, `WriterEnters`,
`RequestsEndLive`, `MessagesServed`, `WorkersEnd`), which the prover does not reach; what
recursive definitions compute (`WinsOnlySplit`, `PatternsMatch`, `RoundTrips`), which
needs induction over data; and the properties of `Rooms`, `Kernel`, the allocator, the
collector and the services of the network, whose inductive invariants are not worked
out here.

## 6. Findings

Four runs show places where the code does not do what it says.

* `hu_missed` (`ruleHelp.lua:520`): the search for three cards of one value puts back
  `cards[k]` where it means `vlist[k]`, one further. A hand such as
  `s1 s1 s1 b1 b2 b3 s3 s3 s3` splits into threes and is refused. The other direction
  holds: `WinsOnlySplit`.
* `top_quad` (`ruleHelp.lua:52`): `tidyHandCards` tests the last three cards after its
  loop even if they belong to a quad that the loop made. A player dealt four cards of
  the highest face has that quad and a triple of it.
* `taken_card` (`gameCenter.lua:984`): a discard taken by a Pao stays among the
  discards. The block that removes taken cards (1074) names the Pao rules, but they are
  laid before it.
* `handle_slots` (`skynet_handle.c:60`): a context is in the table before its handle is
  stored (`skynet_server.c:147`). When another thread's registration makes the table grow
  in between, the rehash takes its handle for 0, and the assertion that a slot of the new
  table is free fails. Two services must launch at the same time.

More assertions can fail in the models, where they end the process; the properties
are about everything before. `service_gate.c:253`: a connection is on its way to the
gate when the command `close` gives up the listening socket. `socket_server.c:340` and
`372`, `379`: `reserve_id` takes a slot before it stores the new id, and the socket thread
meets the slot through a request or an event for the old one. `arena.c:1582`: a purge
is refused the commit of a cached chunk, and a build without assertions goes on with a
chunk that is both stashed and cached.

The discard of a card that is not in the hand (`gameCenter.lua:702-710`, `891-892`) is not
refused. The player keeps a card too many, and a card that another player has is then in
two places: `CardsKept` holds for clients that never send one.

Also worth knowing, though no text contradicts it: as shipped, `gameConfig.lua:9` sets
`gameTimes` to 0, so a room plays a single game. `algo` and the theorems on the scores
cover rooms with more games; the configurations of the table use 0.

## 7. What is abstracted and what is left out

* Notifications, pauses and message packing of the table. An answer reaches `run` only
  while it waits for it; answers that come late or twice are not modelled, nor the
  discard of a second copy of a card.
* The shuffle is a choice among `Decks`.
* In `Rooms` the game of a room is only started and ended; who wins is `GameRun`'s
  matter. A multicast calls one player after the other, and so does the model; the
  loop in which `requestCheckoutRoom` asks the other players is one step.
* db_service appears as what `Rooms` needs of it: unused room numbers and player ids.
  What its queries do is decided by MySQL.
* In `Kernel` a handler sends, creates, ends itself or another service, or aborts; its
  computation is left out, and so are the text commands other than EXIT, KILL and
  ABORT, the endless-loop monitor and the loading of modules.
* In `LuaGC`, strings, prototypes and the pace of a step. In `Serial`, the ciphers and
  hashes. In `Heap`, dss, junk filling, profiling, statistics and hooks that fail.
* The login and db servers that `gameonce/main.lua` does not start, robot players, the
  clients, logging, database drivers, datacenter, multicast and sharedata, which the
  game does not use or uses for constants only.

Six hazards in `PROJECT.json` have no property; their notes say why.
