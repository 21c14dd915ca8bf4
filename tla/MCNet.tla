-------------------------------- MODULE MCNet --------------------------------
(***************************************************************************)
(* Queues, sockets, the network and the heap of jemalloc for TLC, each on  *)
(* its own: a behaviour runs the one that part names, and the others stay  *)
(* as they start.                                                          *)
(***************************************************************************)
EXTENDS RingBuffer, SocketServer, Gate, NetPack, Harbor, Heap

VARIABLE part

\* Messages that are empty or share a piece with the next one, and a message
\* that is too long
MCStreams == <<{<< <<1>>, <<>>, <<0, 2>> >>, << <<2>>, <<1, 0, 2>> >>}, {<<>>}, {<<>>}>>
MCNetStream == << << <<1, 2>>, <<>>, <<0>>, <<>>, <<1>> >>, << <<2, 1, 0, 1, 0>> >>, <<>> >>

\* Sizes in words of a page of four: three small classes, three large ones (a
\* chunk has five pages for runs) and six huge ones, up to five chunks
MCSizes == <<2, 4, 6, 8, 12, 16, 24, 32, 48, 72, 96, 120>>
Base ==
    [overcommits |-> TRUE, munmap |-> FALSE, up |-> TRUE, purge |-> "ratio", lg_dirty_mult |-> 3,
     decay_time |-> 4, jitter |-> 1, times |-> {0}, faults |-> {}, nfaults |-> 0, tcache |-> FALSE,
     bind |-> <<1>>, quota |-> 4,
     calls |-> [malloc |-> {1, 4}, zero |-> {FALSE}, memalign |-> {}, realloc |-> {}]]
\* Two threads with caches in two arenas; two threads of one arena, with a mapping
\* refused; calloc, realloc and memalign with memory mapped downwards and
\* unmapped; the commits of a system that does not overcommit, with one call of it
\* refused; large objects aligned and resized there; huge objects resized, with
\* one call refused; a cached chunk that cannot be registered; purging by decay;
\* large objects resized; one thread and its cache, with calloc and a mapping
\* refused; a cache that is collected; purges of chunks that are not committed
MCHeapSettings ==
    {[Base EXCEPT !.tcache = TRUE, !.bind = <<1, 2>>, !.calls.malloc = {1}],
     [Base EXCEPT !.bind = <<1, 1>>, !.calls.malloc = {1, 6}, !.faults = {"mmap"}, !.nfaults = 1],
     [Base EXCEPT !.calls = [malloc |-> {4, 8}, zero |-> {TRUE, FALSE}, realloc |-> {5, 7},
                             memalign |-> {<<4, 2>>, <<7, 12>>}], !.up = FALSE, !.munmap = TRUE],
     [Base EXCEPT !.overcommits = FALSE, !.calls.malloc = {1, 4, 6}, !.nfaults = 1,
                  !.faults = {"commit", "decommit", "madvise", "mmap", "rtree", "node"}],
     [Base EXCEPT !.overcommits = FALSE, !.calls.malloc = {4}, !.calls.realloc = {5},
                  !.calls.memalign = {<<4, 2>>}, !.faults = {"commit"}, !.nfaults = 1],
     [Base EXCEPT !.calls.malloc = {7, 9}, !.calls.realloc = {7, 8, 9, 10}, !.quota = 3,
                  !.faults = {"madvise", "mmap", "rtree", "node"}, !.nfaults = 1],
     [Base EXCEPT !.calls.malloc = {6, 7}, !.faults = {"rtree"}, !.nfaults = 1],
     [Base EXCEPT !.purge = "decay", !.times = {0, 4}, !.calls.malloc = {1, 6}],
     [Base EXCEPT !.calls.malloc = {4, 5}, !.calls.realloc = {4, 5, 6},
                  !.calls.memalign = {<<4, 2>>}],
     [Base EXCEPT !.tcache = TRUE, !.calls.zero = {TRUE, FALSE}, !.faults = {"mmap"}, !.nfaults = 1],
     [Base EXCEPT !.tcache = TRUE, !.calls.malloc = {1}, !.quota = 10],
     [Base EXCEPT !.overcommits = FALSE, !.calls.malloc = {6}, !.quota = 8,
                  !.faults = {"commit"}, !.nfaults = 1]}

netAll == <<ringVars, socketVars, gateVars, netVars, harborVars>>
allVars == <<netAll, heapVars, part>>

MCInit ==
    /\ part \in {"ring", "tcp", "udp", "slots", "gate", "netpack", "harbor", "heap"}
    /\ HeapInit /\ (part # "heap" => heap.bind = <<1, 2>>)
    /\ RingInit /\ SocketInit /\ GateInit /\ NetInit /\ HarborInit
    /\ part # "gate" => stream = CHOOSE f \in [GateId -> UNION Range(MCStreams)] :
                                    \A id \in GateId : f[id] \in MCStreams[id]

RingPart == part = "ring" /\ RingNext /\ UNCHANGED <<socketVars, gateVars, netVars, harborVars>>

\* Stream sockets, datagram and bound ones, and slots that are used again
\* (which takes more requests)
OpsOf == [tcp |-> {"O", "L", "S", "K", "D", "P", "T", "X"},
          udp |-> {"U", "B", "C", "A", "K", "P"},
          slots |-> {"O", "K", "D"}]
SocketPart ==
    /\ part \in DOMAIN OpsOf /\ SocketNext /\ UNCHANGED <<ringVars, gateVars, netVars, harborVars>>
    /\ \A r \in Range(pipe') \cup reserving' : r.op \in OpsOf[part]
    /\ IF part = "slots" THEN Len(batch') <= 1 ELSE reqs' <= 3
\* Bound: only the client that sends is given an agent
GatePart ==
    /\ part = "gate" /\ GateNext /\ UNCHANGED <<ringVars, socketVars, netVars, harborVars>>
    /\ \A i \in DOMAIN conn' : conn'[i].agent => node'[i] = 1
NetPart == part = "netpack" /\ NetNext /\ UNCHANGED <<ringVars, socketVars, gateVars, harborVars>>
HarborPart == part = "harbor" /\ HarborNext /\ UNCHANGED <<ringVars, socketVars, gateVars, netVars>>

MCNext ==
    /\ UNCHANGED part
    /\ \/ (RingPart \/ SocketPart \/ GatePart \/ NetPart \/ HarborPart) /\ UNCHANGED heapVars
       \/ part = "heap" /\ HeapNext /\ UNCHANGED netAll
MCSpec == MCInit /\ [][MCNext]_allVars
=============================================================================
