------------------------------- MODULE Rooms -------------------------------
(***************************************************************************)
(* The services around a table: playerAgent (one for each connection),     *)
(* roomManager, and roomAgent with gameCenter (one of each for each room). *)
(*                                                                         *)
(* A request runs through them as a stack of handlers, the one that runs   *)
(* first: a step is what a handler does up to its next skynet.call, and    *)
(* requests interleave at every call.  A service that has exited answers   *)
(* with an error, which ends the whole request: no handler catches it, and *)
(* cs (skynet.queue, see SkynetQueue) passes the section on.  Whoever gets *)
(* it so goes on only when another message comes to the service: suspend   *)
(* raises the error before it resumes the coroutines that were woken.      *)
(***************************************************************************)
EXTENDS Naturals, Sequences, FiniteSets

CONSTANTS Pid, Agent, Room,
          PidOf,      \* who connects through an agent
          MaxSeats,   \* R.MAX_PLAYER_COUNT
          Ops,        \* bound: the requests that clients make, of ClientOp
          Leavers,    \* bound: the agents whose connections may drop
          None        \* nil

ClientOp == {"create", "join", "rejoin", "ready", "command", "master",
             "request", "agree", "decline"}

ASSUME RoomsAssumption ==
    PidOf \in [Agent -> Pid] /\ MaxSeats \in Nat \ {0} /\ Ops \subseteq ClientOp
    /\ Leavers \subseteq Agent

VARIABLES mgr,  \* roomManager: rooms, players
          rm,   \* roomAgent: here (its players), votes (checkoutRoomRequest)
          gc,   \* gameCenter: seats, ready, state, result
          ag,   \* playerAgent: conn, pid, room (its roomagent), id (its roomid)
          svc,  \* the roomAgents and gameCenters: off, up, exiting or gone
          cs,   \* who is in a section, and who waits behind them
          woken, \* the rooms whose section was passed on by an error
          req   \* the requests: for whom, and the stack

vars == <<mgr, rm, gc, ag, svc, cs, woken, req>>

\* A client has one request at a time, and an agent one disconnect; a room has
\* the coroutine that startPlay forks
Thread == Agent \cup ({"bye"} \X Agent) \cup Room
Service == {"room", "gc"} \X Room
Section == Room \cup {"roomManager"}

Player == [known : BOOLEAN, agent : Agent \cup {None}, room : Room \cup {None}]
Unknown == [known |-> FALSE, agent |-> None, room |-> None]

-----------------------------------------------------------------------------
\* The handler of a service that is called, or goes on, at l; x is what else
\* it was given
Frame(at, l, r, x) == [at |-> at, l |-> l, r |-> r, x |-> x]
Top(i) == Head(req[i].st)

Up(f) == CASE f.at \in {"room", "gc"} -> svc[f.at, f.r] \in {"up", "exiting"}
           [] f.at = "agent" -> ag[f.x].conn # "gone"
           [] OTHER -> TRUE
On(i, at, l) ==
    req[i].st # <<>> /\ Top(i).at = at /\ Top(i).l = l /\ Up(Top(i))

\* How a handler goes on: at l; by calls, of which the first is answered first,
\* and then at l; by a last call; or not at all
Become(i, frames) == req' = [req EXCEPT ![i].st = frames \o Tail(@)]
Goto(i, l) == Become(i, <<[Top(i) EXCEPT !.l = l]>>)
Call(i, l, frames) == Become(i, frames \o <<[Top(i) EXCEPT !.l = l]>>)

\* Up to the first handler that has more to do than to return, or has exited
Return(i) ==
    LET rest == Tail(req[i].st)
        n == CHOOSE n \in 0..Len(rest) :
                /\ \A k \in 1..n : rest[k].l = "back" /\ Up(rest[k])
                /\ n < Len(rest) => rest[n + 1].l # "back" \/ ~ Up(rest[n + 1])
    IN  req' = [req EXCEPT ![i].st = SubSeq(rest, n + 1, Len(rest))]

\* cs knows a coroutine by its place in its request
Me(i) == <<i, Len(req[i].st)>>
Enter(i, x) == cs' = [cs EXCEPT ![x] = Append(@, Me(i))]
Leave(x) == cs' = [cs EXCEPT ![x] = Tail(@)]
InsideAnyway(i, x) == cs[x] # <<>>  \* mutant: nobody waits for the section
Inside(i, x) == cs[x] # <<>> /\ Head(cs[x]) = Me(i) /\ x \notin woken

\* An error ends the request, and on its way leaves the section it is in
Throw(i) ==
    /\ req' = [req EXCEPT ![i].st = <<>>]
    /\ cs' = [x \in Section |-> IF cs[x] # <<>> /\ Head(cs[x])[1] = i THEN Tail(cs[x])
                                ELSE cs[x]]
Try(i, ok, then) == IF ok THEN then /\ UNCHANGED cs ELSE Throw(i)

\* A call of a service that has exited, or a return to it
Dead(i) ==
    /\ req[i].st # <<>> /\ ~ Up(Top(i))
    /\ Throw(i)
    /\ UNCHANGED <<mgr, rm, gc, ag, svc>>

-----------------------------------------------------------------------------
(* playerAgent and watchdog *)

\* SOCKET.open
open(a) ==
    /\ ag[a].conn = "free"
    /\ ag' = [ag EXCEPT ![a].conn = "up"]
    /\ UNCHANGED <<mgr, rm, gc, svc, cs, woken, req>>

\* A client whose connection is up makes its next request
Idle(a) == ag[a].conn = "up" /\ req[a].st = <<>>
Start(i, a, st) == req' = [req EXCEPT ![i] = [p |-> PidOf[a], st |-> st]]

\* REQUEST:totalPush: db_service gives the pid, with which gameRoot calls roomManager
totalPush(a) ==
    /\ \/ /\ Idle(a) /\ ag[a].pid = None
          /\ Start(a, a, <<Frame("agent", "login", None, a)>>) /\ UNCHANGED ag
       \/ /\ On(a, "agent", "login")
          /\ ag' = [ag EXCEPT ![a].pid = PidOf[a]]
          /\ Become(a, <<Frame("mgr", "online", None, a), Frame("agent", "online", None, a)>>)
    /\ UNCHANGED <<mgr, rm, gc, svc, cs>>

\* REQUEST:createRoom, while the bound Room leaves one for it
createRequest(a) ==
    /\ Idle(a) /\ ag[a].pid # None /\ "create" \in Ops
    /\ LET creating == {x \in Agent : \E k \in DOMAIN req[x].st : req[x].st[k].l = "created"}
       IN  Cardinality(creating) < Cardinality({r \in Room : svc["room", r] = "off"})
    /\ Start(a, a, <<Frame("mgr", "create", None, a), Frame("agent", "created", None, a)>>)
    /\ UNCHANGED <<mgr, rm, gc, ag, svc, cs>>

\* What these two do when they have their answers
answered(i) ==
    /\ LET r == IF Top(i).l = "created" THEN Top(i).r ELSE mgr.players[req[i].p].room
       IN  /\ On(i, "agent", "online") \/ On(i, "agent", "created")
           /\ ag' = [ag EXCEPT ![Top(i).x].id = IF r = None THEN @ ELSE r]
    /\ Return(i)
    /\ UNCHANGED <<mgr, rm, gc, svc, cs>>

\* The requests for roomManager, and those for the roomagent if there is one
request(a) ==
    /\ Idle(a) /\ ag[a].pid # None
    /\ \E op \in Ops \ {"create"} :
         CASE op = "join" ->
                 \E r \in Room : Start(a, a, <<Frame("mgr", "join", r, op)>>)
           [] op = "rejoin" ->
                 ag[a].id # None /\ Start(a, a, <<Frame("mgr", "join", ag[a].id, op)>>)
           [] OTHER ->
                 ag[a].room # None /\ Start(a, a, <<Frame("room", "cs", ag[a].room, op)>>)
    /\ UNCHANGED <<mgr, rm, gc, ag, svc, cs>>

\* CMD.roomAgentRelate and roomAgentUnRelate
roomAgentRelate(i) ==
    /\ On(i, "agent", "relate")
    /\ ag' = [ag EXCEPT ![Top(i).x].room = Top(i).r]
    /\ Return(i)
    /\ UNCHANGED <<mgr, rm, gc, svc, cs>>

\* close_agent, and CMD.disconnect up to gameRoot's call of roomManager
disconnect(a) ==
    /\ ag[a].conn = "up" /\ a \in Leavers
    /\ ag' = [ag EXCEPT ![a].conn = "closing"]
    /\ Start(<<"bye", a>>, a,
             (IF ag[a].pid = None THEN <<>> ELSE <<Frame("mgr", "offline", None, None)>>)
               \o <<Frame("agent", "exit", None, a)>>)
    /\ UNCHANGED <<mgr, rm, gc, svc, cs>>

\* CMD.disconnect's skynet.exit
agentExit(i) ==
    /\ On(i, "agent", "exit")
    /\ ag' = [ag EXCEPT ![Top(i).x].conn = "gone"]
    /\ Return(i)
    /\ UNCHANGED <<mgr, rm, gc, svc, cs>>

-----------------------------------------------------------------------------
(* roomManager *)

playerOnline(i) ==
    /\ On(i, "mgr", "online")
    /\ LET p == req[i].p  r == mgr.players[p].room
       IN  /\ mgr' = [mgr EXCEPT !.players[p].known = TRUE, !.players[p].agent = Top(i).x]
           /\ IF r = None THEN Return(i) ELSE Become(i, <<Frame("room", "online", r, Top(i).x)>>)
    /\ UNCHANGED <<rm, gc, ag, svc, cs>>

\* The table players is looked up again after the call
playerOffline(i) ==
    /\ LET p == req[i].p  q == mgr.players[p]
       IN  \/ /\ On(i, "mgr", "offline") /\ q.room # None
              /\ Call(i, "offlined", <<Frame("room", "offline", q.room, None)>>)
              /\ UNCHANGED <<mgr, cs>>
           \/ /\ On(i, "mgr", "offline") /\ q.room = None
              /\ mgr' = [mgr EXCEPT !.players[p] = Unknown]
              /\ Return(i) /\ UNCHANGED cs
           \/ /\ On(i, "mgr", "offlined")
              /\ mgr' = IF q.known THEN [mgr EXCEPT !.players[p].agent = None] ELSE mgr
              /\ Try(i, q.known, Return(i))
    /\ UNCHANGED <<rm, gc, ag, svc>>

\* A call of agent a's msg_notify returns unless a has exited
Hears(a) == a = None \/ ag[a].conn # "gone"

playerMsg_notify(i) ==
    /\ On(i, "mgr", "notify")
    /\ Try(i, Hears(mgr.players[req[i].p].agent), Return(i))
    /\ UNCHANGED <<mgr, rm, gc, ag, svc>>

\* enterRoom, too, looks the player up again after its first call
enterRoom(i) ==
    /\ LET p == req[i].p  q == mgr.players[p]  r == Top(i).r
       IN  \/ /\ On(i, "mgr", "enter") /\ q.known /\ r \in mgr.rooms
              /\ mgr' = [mgr EXCEPT !.players[p].room = r]
              /\ IF q.agent = None THEN Goto(i, "related")
                 ELSE Call(i, "related", <<Frame("agent", "relate", r, q.agent)>>)
              /\ UNCHANGED cs
           \/ /\ On(i, "mgr", "enter") /\ ~ (q.known /\ r \in mgr.rooms)
              /\ Return(i) /\ UNCHANGED <<mgr, cs>>
           \/ /\ On(i, "mgr", "related") /\ UNCHANGED mgr
              /\ Try(i, q.room # None, Become(i, <<Frame("room", "online", q.room, q.agent)>>))
    /\ UNCHANGED <<rm, gc, ag, svc>>

\* closeRoom, with the players x
closeRoom(i) ==
    /\ On(i, "mgr", "close")
    /\ svc' = IF Top(i).r \in mgr.rooms THEN [svc EXCEPT !["room", Top(i).r] = "exiting"] ELSE svc
    /\ mgr' = [mgr EXCEPT !.rooms = @ \ {Top(i).r}]
    /\ Goto(i, "unrelate")
    /\ UNCHANGED <<rm, gc, ag, cs>>

\* and its loop, in which v is the next of them
unrelate(i) ==
    /\ LET v == CHOOSE v \in Top(i).x : TRUE
           q == mgr.players[v]
           more == Become(i, <<[Top(i) EXCEPT !.l = "unrelate", !.x = @ \ {v}]>>)
       IN  \/ /\ On(i, "mgr", "unrelate")
              /\ IF Top(i).x = {} THEN Return(i)
                 ELSE IF q.agent = None THEN more
                 ELSE Call(i, "unrelated", <<Frame("agent", "relate", None, q.agent)>>)
              /\ UNCHANGED <<mgr, cs>>
           \/ /\ On(i, "mgr", "unrelated")
              /\ mgr' = [mgr EXCEPT !.players[v].room = None]
              /\ Try(i, q.known, more)
    /\ UNCHANGED <<rm, gc, ag, svc>>

\* createRoom, in the manager's section: db_service gives a number, and a
\* roomAgent with its gameCenter starts
createRoom(i) ==
    /\ \/ /\ On(i, "mgr", "create")
          /\ Enter(i, "roomManager") /\ Goto(i, "creating")
          /\ UNCHANGED <<mgr, svc>>
       \/ /\ On(i, "mgr", "creating") /\ Inside(i, "roomManager")
          /\ \E r \in Room :
               /\ svc["room", r] = "off"
               /\ svc' = [svc EXCEPT !["room", r] = "up", !["gc", r] = "up"]
               /\ mgr' = [mgr EXCEPT !.rooms = @ \cup {r}]
               /\ req' = [req EXCEPT ![i].st = <<[@[2] EXCEPT !.r = r]>>]
          /\ Leave("roomManager")
    /\ UNCHANGED <<rm, gc, ag>>

\* joinRoom and rejoinRoom
joinRoom(i) ==
    /\ On(i, "mgr", "join")
    /\ IF Top(i).r \in mgr.rooms /\ mgr.players[req[i].p].known
       THEN Become(i, <<Frame("room", "cs", Top(i).r, Top(i).x)>>)
       ELSE Return(i)
    /\ UNCHANGED <<mgr, rm, gc, ag, svc, cs>>

-----------------------------------------------------------------------------
(* roomAgent *)

Present(r) == {p \in Pid : rm[r].here[p] # None}
Multicast(r) == Frame("room", "multicast", r, {})

\* Mutant of onlineChange: it, too, enters the section
onlineChangeInSection(i) ==
    /\ \/ /\ On(i, "room", "online") \/ On(i, "room", "offline")
          /\ Enter(i, Top(i).r) /\ Goto(i, "change") /\ UNCHANGED rm
       \/ /\ On(i, "room", "change") /\ Inside(i, Top(i).r)
          /\ rm' = [rm EXCEPT ![Top(i).r].here[req[i].p] = Top(i).x]
          /\ Call(i, "out", <<Multicast(Top(i).r), Frame("gc", "back", Top(i).r, None)>>)
          /\ UNCHANGED cs
    /\ UNCHANGED <<mgr, gc, ag, svc>>

\* playerOnline and playerOffline, whose news gameCenter sends to all
onlineChange(i) ==
    /\ On(i, "room", "online") \/ On(i, "room", "offline")
    /\ rm' = [rm EXCEPT ![Top(i).r].here[req[i].p] = Top(i).x]
    /\ Call(i, "back", <<Multicast(Top(i).r), Frame("gc", "back", Top(i).r, None)>>)
    /\ UNCHANGED <<mgr, gc, ag, svc, cs>>

\* playerMsg_multicastNotify, whose loop has called the agents of the players x
\* and goes on to one that is left, and playerMsg_notify
notify(i) ==
    /\ LET here == rm[Top(i).r].here
           left == Present(Top(i).r) \ Top(i).x
       IN  \/ On(i, "room", "multicast") /\ left = {} /\ Return(i) /\ UNCHANGED cs
           \/ /\ On(i, "room", "multicast")
              /\ \E p \in left : Try(i, Hears(here[p]),
                                     Become(i, <<[Top(i) EXCEPT !.x = @ \cup {p}]>>))
           \/ On(i, "room", "notify") /\ Try(i, Hears(here[req[i].p]), Return(i))
    /\ UNCHANGED <<mgr, rm, gc, ag, svc>>

\* closeRoom, in the section for masterCheckoutRoom and out of it for destoryRoom
roomClose(i) ==
    /\ On(i, "room", "close")
    /\ LET r == Top(i).r
       IN  /\ svc' = [svc EXCEPT !["gc", r] = IF @ = "up" THEN "exiting" ELSE @]
           /\ rm' = [rm EXCEPT ![r].here = [p \in Pid |-> None]]
           /\ Call(i, IF Top(i).x = "master" THEN "out" ELSE "back",
                   <<Frame("mgr", "close", r, Present(r))>>)
    /\ UNCHANGED <<mgr, gc, ag, cs>>

\* The commands x in the section: they enter, call gameCenter, and leave
section(i) ==
    /\ \/ On(i, "room", "cs") /\ Enter(i, Top(i).r) /\ Goto(i, "in")
       \/ On(i, "room", "out") /\ Leave(Top(i).r) /\ Return(i)
    /\ UNCHANGED <<mgr, rm, gc, ag, svc>>

In(i) == On(i, "room", "in") /\ Inside(i, Top(i).r)

command(i) ==
    /\ In(i) /\ Top(i).x \in {"join", "rejoin", "ready", "command", "master"}
    /\ LET op == Top(i).x
       IN  Call(i, IF op = "master" THEN "close" ELSE "out", <<Frame("gc", op, Top(i).r, op)>>)
    /\ UNCHANGED <<mgr, rm, gc, ag, svc, cs>>

\* tryCheckoutRoom: everyone present has agreed
tryCheckoutRoom(i, votes) ==
    LET r == Top(i).r
    IN  IF \A p \in Present(r) : votes[p] = "yes"
        THEN Call(i, "passed", <<Multicast(r)>>)
        ELSE Goto(i, "out")

\* agreeCheckoutRoom; a vote that is declined is cleared when all know it
agreeCheckoutRoom(i) ==
    /\ LET r == Top(i).r
           votes == [rm[r].votes EXCEPT ![req[i].p] = IF Top(i).x = "agree" THEN "yes" ELSE "no"]
       IN  \/ /\ In(i) /\ Top(i).x \in {"agree", "decline"}
              /\ rm' = [rm EXCEPT ![r].votes = votes]
              /\ IF Top(i).x = "agree" THEN tryCheckoutRoom(i, votes)
                 ELSE Call(i, "clear", <<Multicast(r)>>)
           \/ /\ On(i, "room", "clear")
              /\ rm' = [rm EXCEPT ![r].votes = [p \in Pid |-> None]]
              /\ Goto(i, "out")
    /\ UNCHANGED <<mgr, gc, ag, svc, cs>>

\* requestCheckoutRoom asks the others, one call each, before it counts
requestCheckoutRoom(i) ==
    /\ LET r == Top(i).r  votes == rm[r].votes
           asked == IF \A p \in Pid : votes[p] = None
                    THEN [p \in Pid |-> IF p \in Present(r) THEN "asked" ELSE None] ELSE votes
       IN  \/ /\ In(i) /\ Top(i).x = "request"
              /\ rm' = [rm EXCEPT ![r].votes = [asked EXCEPT ![req[i].p] = "yes"]]
              /\ Goto(i, "asking") /\ UNCHANGED cs
           \/ /\ On(i, "room", "asking") /\ UNCHANGED rm
              /\ Try(i, \A p \in Pid : votes[p] = "asked" => Hears(rm[r].here[p]),
                     tryCheckoutRoom(i, votes))
    /\ UNCHANGED <<mgr, gc, ag, svc>>

\* and the rest of tryCheckoutRoom
votePassed(i) ==
    /\ On(i, "room", "passed")
    /\ Call(i, "out", <<Frame("gc", "gameFinish", Top(i).r, None)>>)
    /\ UNCHANGED <<mgr, rm, gc, ag, svc, cs>>

-----------------------------------------------------------------------------
(* gameCenter *)

SeatsOf(r, p) == {n \in DOMAIN gc[r].seats : gc[r].seats[n] = p}

\* roomAgent's enterRoom passes the outcome on to roomManager
Entering(i, ok) ==
    Call(i, IF ok THEN "entered" ELSE "back",
         <<Frame("mgr", IF ok THEN "enter" ELSE "notify", Top(i).r, None),
           Frame("room", "back", Top(i).r, None)>>)

\* Mutant of playerEnter: who is refused enters all the same
playerEnterAnyway(i) ==
    /\ On(i, "gc", "join")
    /\ LET r == Top(i).r
           ok == Len(gc[r].seats) < MaxSeats /\ gc[r].state = "waiting"
       IN  /\ gc' = IF ok THEN [gc EXCEPT ![r].seats = Append(@, req[i].p)] ELSE gc
           /\ Entering(i, TRUE)
    /\ UNCHANGED <<mgr, rm, ag, svc, cs>>

playerEnter(i) ==
    /\ On(i, "gc", "join")
    /\ LET r == Top(i).r
           ok == Len(gc[r].seats) < MaxSeats /\ gc[r].state = "waiting"
       IN  /\ gc' = IF ok THEN [gc EXCEPT ![r].seats = Append(@, req[i].p)] ELSE gc
           /\ Entering(i, ok)
    /\ UNCHANGED <<mgr, rm, ag, svc, cs>>

playerReEnter(i) ==
    /\ On(i, "gc", "rejoin")
    /\ Entering(i, SeatsOf(Top(i).r, req[i].p) # {})
    /\ UNCHANGED <<mgr, rm, gc, ag, svc, cs>>

\* Then all are told, or the one who came back; all, too, of a game that is over
entered(i) ==
    /\ On(i, "gc", "entered")
    /\ LET r == Top(i).r
       IN  Call(i, "back", IF Top(i).x = "join" \/ gc[r].state = "finish" THEN <<Multicast(r)>>
                           ELSE <<Frame("room", "notify", r, None)>>)
    /\ UNCHANGED <<mgr, rm, gc, ag, svc, cs>>

\* playerReady, and startPlay when all are
playerReady(i) ==
    /\ LET r == Top(i).r
           mine == SeatsOf(r, req[i].p)
           seat == CHOOSE n \in mine : \A m \in mine : n <= m
           all == gc[r].ready = 1..MaxSeats /\ gc[r].state # "playing"
       IN  \/ /\ On(i, "gc", "ready")
              /\ IF \/ gc[r].state \in {"playing", "finish"}
                    \/ mine # {} /\ seat \in gc[r].ready
                 THEN Return(i) /\ UNCHANGED gc
                 ELSE IF mine = {} THEN Goto(i, "count") /\ UNCHANGED gc
                 ELSE /\ gc' = [gc EXCEPT ![r].ready = @ \cup {seat}]
                      /\ Call(i, "count", <<Multicast(r)>>)
           \/ /\ On(i, "gc", "count")
              /\ gc' = IF all THEN [gc EXCEPT ![r].state = "playing"] ELSE gc
              /\ IF all THEN Call(i, "fork", <<Multicast(r)>>) ELSE Return(i)
           \/ /\ On(i, "gc", "fork") /\ UNCHANGED gc
              /\ req' = [req EXCEPT ![i].st = Tail(@),
                                    ![r].st = <<Frame("gc", "run", r, None)>>]
    /\ UNCHANGED <<mgr, rm, ag, svc, cs>>

\* playerChat tells all; playerPayCards, selectWufuBaojing and playerStartGame
\* only wake the game; masterCheckoutRoom tells all if the master asks
gameCommand(i) ==
    /\ LET r == Top(i).r
       IN  \/ On(i, "gc", "command") /\ (Call(i, "back", <<Multicast(r)>>) \/ Return(i))
           \/ /\ On(i, "gc", "master")
              /\ IF 1 \in SeatsOf(r, req[i].p) THEN Call(i, "back", <<Multicast(r)>>) ELSE Return(i)
    /\ UNCHANGED <<mgr, rm, gc, ag, svc, cs>>

\* gameFinish, which fails after the news if no game has had a result
gameFinish(i) ==
    /\ LET r == Top(i).r
       IN  \/ /\ On(i, "gc", "gameFinish")
              /\ gc' = [gc EXCEPT ![r].state = "finish"]
              /\ Call(i, "record", <<Multicast(r)>>) /\ UNCHANGED cs
           \/ On(i, "gc", "record") /\ Try(i, gc[r].result, Return(i)) /\ UNCHANGED gc
    /\ UNCHANGED <<mgr, rm, ag, svc>>

\* The coroutine of the game, with its news (see GameRun for the game), then
\* its result, gameFinish and destoryRoom
run(i) ==
    /\ LET r == Top(i).r
       IN  \/ On(i, "gc", "run") /\ Call(i, "ended", <<Multicast(r)>>) /\ UNCHANGED gc
           \/ /\ On(i, "gc", "ended")
              /\ gc' = [gc EXCEPT ![r].result = TRUE]
              /\ Call(i, "destory", <<Frame("gc", "gameFinish", r, None)>>)
           \/ /\ On(i, "gc", "destory") /\ UNCHANGED gc
              /\ Call(i, "back", <<Frame("room", "close", r, None)>>)
    /\ UNCHANGED <<mgr, rm, ag, svc, cs>>

-----------------------------------------------------------------------------
\* CMD.exit of a roomAgent or gameCenter
exit(x) ==
    /\ svc[x] = "exiting"
    /\ svc' = [svc EXCEPT ![x] = "gone"]
    /\ UNCHANGED <<mgr, rm, gc, ag, cs, req>>

NewRoom == [here |-> [p \in Pid |-> None], votes |-> [p \in Pid |-> None]]
NewGame == [seats |-> <<>>, ready |-> {}, state |-> "waiting", result |-> FALSE]
NewAgent == [conn |-> "free", pid |-> None, room |-> None, id |-> None]

Init ==
    /\ mgr = [rooms |-> {}, players |-> [p \in Pid |-> Unknown]]
    /\ rm = [r \in Room |-> NewRoom]
    /\ gc = [r \in Room |-> NewGame]
    /\ ag = [a \in Agent |-> NewAgent]
    /\ svc = [x \in Service |-> "off"]
    /\ cs = [x \in Section |-> <<>>] /\ woken = {}
    /\ req = [i \in Thread |-> [p |-> None, st |-> <<>>]]

Handler(i) ==
    \/ Dead(i) \/ answered(i) \/ roomAgentRelate(i) \/ agentExit(i)
    \/ playerOnline(i) \/ playerOffline(i) \/ playerMsg_notify(i) \/ enterRoom(i)
    \/ closeRoom(i) \/ unrelate(i) \/ createRoom(i) \/ joinRoom(i)
    \/ onlineChange(i) \/ notify(i) \/ roomClose(i) \/ section(i) \/ command(i)
    \/ agreeCheckoutRoom(i) \/ requestCheckoutRoom(i) \/ votePassed(i)
    \/ playerEnter(i) \/ playerReEnter(i) \/ entered(i) \/ playerReady(i)
    \/ gameCommand(i) \/ gameFinish(i) \/ run(i)

\* suspend at the end of such a step: a handler that fails wakes whoever is next
\* in its section, and any other in a room, or return to one, lets them go on
Failed(i) == req'[i].st = <<>> /\ ~ On(i, "room", "out")
PassedOn(i) == {r \in Room : cs[r] # <<>> /\ Head(cs[r])[1] = i /\ Len(cs[r]) > 1}
Visited(i) ==
    {req[i].st[k].r : k \in {k \in DOMAIN req[i].st :
        req[i].st[k].at = "room" /\ (k = 1 \/ k <= Len(req[i].st) - Len(req'[i].st))}}
suspend(i) == woken' = IF Failed(i) THEN woken \cup PassedOn(i) ELSE woken \ Visited(i)

Step(i) == Handler(i) /\ suspend(i)

ClientStep(a) == open(a) \/ totalPush(a) \/ createRequest(a) \/ request(a) \/ disconnect(a)

Next ==
    \/ \E a \in Agent : ClientStep(a) /\ UNCHANGED woken
    \/ \E i \in Thread : Step(i)
    \/ \E x \in Service : exit(x) /\ UNCHANGED woken

Spec == Init /\ [][Next]_vars

\* Messages are delivered and handlers run, except those that wait for another
\* message to come (woken).  Nothing is assumed of clients, nor that a game ends.
Requests == Thread \ Room
LoggedIn(a) == totalPush(a) /\ req[a].st # <<>> /\ UNCHANGED woken
Fairness ==
    /\ \A i \in Requests : WF_vars(Step(i))
    /\ \A a \in Agent : WF_vars(LoggedIn(a))
    /\ \A x \in Service : WF_vars(exit(x) /\ UNCHANGED woken)
FairSpec == Spec /\ Fairness

-----------------------------------------------------------------------------
TypeOK ==
    /\ mgr.rooms \subseteq Room /\ mgr.players \in [Pid -> Player]
    /\ rm \in [Room -> [here : [Pid -> Agent \cup {None}],
                        votes : [Pid -> {None, "asked", "yes", "no"}]]]
    /\ \A r \in Room : /\ gc[r].seats \in Seq(Pid) /\ Len(gc[r].seats) <= MaxSeats
                       /\ gc[r].ready \subseteq DOMAIN gc[r].seats
                       /\ gc[r].state \in {"waiting", "playing", "finish"}
                       /\ gc[r].result \in BOOLEAN
    /\ ag \in [Agent -> [conn : {"free", "up", "closing", "gone"}, pid : Pid \cup {None},
                         room : Room \cup {None}, id : Room \cup {None}]]
    /\ svc \in [Service -> {"off", "up", "exiting", "gone"}]
    /\ woken \subseteq Room

\* Only players with a seat hear what goes on in a room and can command it:
\* whoever gameCenter refuses (the room is full, or playing) is told to neither
\* roomAgent nor playerAgent, however logins, joins and disconnects interleave.
OnlySeatedHear ==
    /\ \A r \in Room : \A p \in Present(r) : SeatsOf(r, p) # {}
    /\ \A a \in Agent : ag[a].room # None => SeatsOf(ag[a].room, PidOf[a]) # {}

\* While it is being told that a vote was declined, roomAgent counts no other
\* vote, which it would then clear with the rest.
Declining(r) ==
    \E i \in Thread : \E k \in DOMAIN req[i].st :
        req[i].st[k].at = "room" /\ req[i].st[k].l = "clear" /\ req[i].st[k].r = r
DeclineEndsVote ==
    [][\A r \in Room : Declining(r) =>
            rm'[r].votes = rm[r].votes \/ rm'[r].votes = [p \in Pid |-> None]]_vars

\* Every request ends, answered or failed: the calls between the services
\* and the sections in which they are made never wait for each other in a
\* circle, also when a room closes under those that wait for it.  The one
\* exception is a request behind another that failed in the section of a room
\* that gets no further message.
Stranded(i) == \E r \in woken : \E k \in DOMAIN cs[r] : cs[r][k][1] = i
RequestsEnd == \A i \in Requests : []<>(req[i].st = <<>>) \/ <>[]Stranded(i)
=============================================================================
