------------------------------ MODULE Mailbox ------------------------------
(***************************************************************************)
(* What skynet promises a service: its messages are handled one at a time, *)
(* in the order in which they were accepted, and an accepted message is    *)
(* dropped only once the service is closed.                                *)
(***************************************************************************)
EXTENDS Naturals, Sequences

CONSTANTS Service, Msg, NoMsg

VARIABLES box,       \* accepted and not yet handled
          running,   \* the message a service is handling, or NoMsg
          closed     \* the services that will handle nothing more

mailboxVars == <<box, running, closed>>

MailboxInit ==
    /\ box \in [Service -> Seq(Msg)]
    /\ running = [h \in Service |-> NoMsg]
    /\ closed = {}

Accept(h, m) ==
    /\ h \notin closed
    /\ box' = [box EXCEPT ![h] = Append(@, m)]
    /\ UNCHANGED <<running, closed>>

Begin(h) ==
    /\ h \notin closed /\ running[h] = NoMsg /\ box[h] # <<>>
    /\ running' = [running EXCEPT ![h] = Head(box[h])]
    /\ box' = [box EXCEPT ![h] = Tail(@)]
    /\ UNCHANGED closed

Finish(h) ==
    /\ running[h] # NoMsg
    /\ running' = [running EXCEPT ![h] = NoMsg]
    /\ UNCHANGED <<box, closed>>

Close(h) ==
    /\ h \notin closed /\ running[h] = NoMsg
    /\ closed' = closed \cup {h}
    /\ UNCHANGED <<box, running>>

Drop(h) ==
    /\ h \in closed /\ box[h] # <<>>
    /\ box' = [box EXCEPT ![h] = Tail(@)]
    /\ UNCHANGED <<running, closed>>

MailboxNext ==
    \E h \in Service :
        \/ Begin(h) \/ Finish(h) \/ Close(h) \/ Drop(h)
        \/ \E m \in Msg : Accept(h, m)
MailboxSpec == MailboxInit /\ [][MailboxNext]_mailboxVars
=============================================================================
