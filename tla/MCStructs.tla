------------------------------ MODULE MCStructs ------------------------------
(***************************************************************************)
(* The data structures of the kernel and of a Lua service for TLC, each on *)
(* its own: a behaviour runs the one that part names, and the others stay  *)
(* as they start.                                                          *)
(***************************************************************************)
EXTENDS MessageQueue, Handles, TimerWheel, SocketBuffer, LuaGC, JeTrees

CONSTANTS MaxQueued      \* bounds the messages of a queue
VARIABLE part

\* Pieces that cut a line anywhere, the separator included
MCPiece == {<<0>>, <<1>>, <<0, 1>>, <<1, 0>>, <<0, 0, 1>>}
MCSep == <<0, 1>>

E0 == [k |-> Nil, v |-> Nil]
V(x) == [k |-> Nil, v |-> x]
KV(x, y) == [k |-> x, v |-> y]
Heap(kd, en, u, r, f) == [kind |-> kd, ent |-> en, up |-> u, root |-> r, fin |-> f, live |-> 1..3]
NoUp == <<Nil, Nil, Nil>>
\* Chains of tables; an ephemeron whose value holds its key; weak tables with
\* an object to finalize; a closure over the stack of a coroutine
Chain == <<"table", "table", "table">>
MCHeaps == {
    Heap(Chain, <<V(2), V(3), E0>>, NoUp, <<1, Nil>>, {}),
    Heap(<<"table", "ephemeron", "table">>, <<V(1), KV(3, 1), E0>>, NoUp, <<2, 3>>, {}),
    Heap(<<"udata", "weakvalue", "table">>, <<V(3), KV(3, 1), E0>>, NoUp, <<2, 1>>, {1}),
    Heap(<<"udata", "allweak", "table">>, <<V(2), KV(1, 3), E0>>, NoUp, <<2, 3>>, {1}),
    Heap(<<"thread", "lclosure", "table">>, <<V(3), E0, V(2)>>, <<Nil, 1, Nil>>, <<2, 1>>, {}),
    Heap(<<"thread", "lclosure", "udata">>, <<V(3), E0, V(1)>>, <<Nil, 1, Nil>>, <<2, Nil>>, {3})}

\* Two keys of the heap are equal; three keys of the table need a table of
\* eight buckets, and two share both buckets at every size
MCPhKey == <<1, 2, 2, 3, 4>>
MCCkhHash == << <<1, 1>>, <<1, 1>>, <<5, 5>>, <<1, 0>>, <<3, 2>>, <<0, 1>> >>

kernelVars == <<mqVars, handleVars, wheelVars, sockVars, gcVars>>
jeVars == <<treeVars, heapVars, bitVars, ckhVars, radixVars>>
allVars == <<kernelVars, jeVars, part>>

MCInit ==
    /\ part \in {"mq", "handles", "names", "timer", "buffer", "gc", "tree", "heap", "bits", "ckh", "radix"}
    /\ msgs = [h \in Service |-> <<>>] /\ Q = SetToSeq(Boot) /\ MqInit
    /\ HandlesInit /\ TimerInit /\ SockInit /\ GCInit
    /\ TreeInit /\ HeapInit /\ BitInit /\ CkhInit /\ RadixInit
    /\ part # "gc" => kind = Chain

MqPart ==
    /\ part = "mq" /\ MqNext /\ \A h \in Service : Len(msgs'[h]) <= MaxQueued
    /\ UNCHANGED <<handleVars, wheelVars, sockVars, gcVars>>
\* The table of handles without the names; and the names in a table that one
\* thread at a time adds to
HandlesPart ==
    /\ part = "handles" /\ HandlesNext /\ UNCHANGED names
    /\ UNCHANGED <<mqVars, wheelVars, sockVars, gcVars>>
NamesPart ==
    /\ part = "names" /\ HandlesNext /\ ~sweep'.on
    /\ Cardinality({l \in Launcher : reg'[l] # NoReg}) <= 1
    /\ UNCHANGED <<mqVars, wheelVars, sockVars, gcVars>>
TimerPart ==
    part = "timer" /\ TimerNext /\ UNCHANGED <<mqVars, handleVars, sockVars, gcVars>>
BufferPart ==
    part = "buffer" /\ SockNext /\ UNCHANGED <<mqVars, handleVars, wheelVars, gcVars>>
GCPart ==
    part = "gc" /\ GCNext /\ UNCHANGED <<mqVars, handleVars, wheelVars, sockVars>>
TreePart == part = "tree" /\ TreeNext /\ UNCHANGED <<heapVars, bitVars, ckhVars, radixVars>>
HeapPart == part = "heap" /\ HeapNext /\ UNCHANGED <<treeVars, bitVars, ckhVars, radixVars>>
BitsPart == part = "bits" /\ BitNext /\ UNCHANGED <<treeVars, heapVars, ckhVars, radixVars>>
CkhPart == part = "ckh" /\ CkhNext /\ UNCHANGED <<treeVars, heapVars, bitVars, radixVars>>
RadixPart == part = "radix" /\ RadixNext /\ UNCHANGED <<treeVars, heapVars, bitVars, ckhVars>>

MCNext ==
    /\ UNCHANGED part
    /\ \/ UNCHANGED jeVars /\ (MqPart \/ HandlesPart \/ NamesPart \/ TimerPart \/ BufferPart \/ GCPart)
       \/ UNCHANGED kernelVars /\ (TreePart \/ HeapPart \/ BitsPart \/ CkhPart \/ RadixPart)
MCSpec == MCInit /\ [][MCNext]_allVars
=============================================================================
