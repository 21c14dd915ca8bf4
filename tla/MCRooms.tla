------------------------------ MODULE MCRooms ------------------------------
(***************************************************************************)
(* Rooms for TLC: the players a and b, of whom a may connect again.  The   *)
(* requests of Ops for a game of MaxSeats players; or the votes of two     *)
(* players who stay, of whom b has joined; or, of one connection each, the *)
(* requests that create a room, join it and close it.                      *)
(***************************************************************************)
EXTENDS Rooms

CONSTANTS a, b, a1, a2, b1, r1

MCPidOf == [x \in Agent |-> IF x = b1 THEN b ELSE a]

\* The rooms have been created, by a player who has left since
MCInit ==
    /\ mgr = [rooms |-> Room, players |-> [p \in Pid |-> Unknown]]
    /\ rm = [r \in Room |-> NewRoom]
    /\ gc = [r \in Room |-> NewGame]
    /\ ag = [x \in Agent |-> NewAgent]
    /\ svc = [x \in Service |-> "up"]
    /\ cs = [x \in Section |-> <<>>] /\ woken = {}
    /\ req = [i \in Thread |-> [p |-> None, st |-> <<>>]]

VARIABLE part
Votes == INSTANCE Rooms WITH MaxSeats <- 2, Leavers <- {},
                             Ops <- {"join", "ready", "request", "agree", "decline"}
Live == INSTANCE Rooms WITH Ops <- {"create", "join", "rejoin", "master", "command"}
RoomsPart == part = "rooms" /\ Next
VotesPart == part = "votes" /\ Votes!Next /\ ag'[a2] = ag[a2]
LivePart(step) == part = "live" /\ step /\ ag'[a2] = ag[a2]
MCNext == UNCHANGED part /\ (RoomsPart \/ VotesPart \/ LivePart(Live!Next))
VotesInit ==
    /\ mgr = [rooms |-> Room, players |-> [p \in Pid |->
                 IF p = b THEN [known |-> TRUE, agent |-> b1, room |-> r1] ELSE Unknown]]
    /\ rm = [r \in Room |-> [NewRoom EXCEPT !.here[b] = b1]]
    /\ gc = [r \in Room |-> [NewGame EXCEPT !.seats = <<b>>]]
    /\ ag = [x \in Agent |-> IF x = b1 THEN [conn |-> "up", pid |-> b, room |-> r1, id |-> None]
                             ELSE NewAgent]
    /\ svc = [x \in Service |-> "up"]
    /\ cs = [x \in Section |-> <<>>] /\ woken = {}
    /\ req = [i \in Thread |-> [p |-> IF i = b1 THEN b ELSE None, st |-> <<>>]]

\* Fairness, for the requests of LivePart
MCFairness ==
    /\ \A i \in Requests : WF_vars(LivePart(Live!Step(i)))
    /\ \A x \in Agent : WF_vars(LivePart(LoggedIn(x)))
    /\ \A x \in Service : WF_vars(LivePart(exit(x) /\ UNCHANGED woken))
MCSpec ==
    /\ \/ part = "rooms" /\ MCInit
       \/ part = "votes" /\ VotesInit
       \/ part = "live" /\ Init
    /\ [][MCNext]_<<vars, part>> /\ MCFairness

\* No more players are seated than there are seats (gameCenter's playerEnter),
\* and only who is seated hears the room.  (Nothing keeps a player who joins
\* twice from two seats, as b does in the votes.)
SeatsKept == OnlySeatedHear /\ IF part = "votes" THEN Votes!TypeOK ELSE TypeOK

\* RequestsEnd, where rooms are created and closed: the calls between the
\* services never wait in a circle
RequestsEndLive == part = "live" => RequestsEnd
=============================================================================
