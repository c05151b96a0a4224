------------------------------ MODULE Mailbox ------------------------------
(***************************************************************************)
(* What a POP3 maildrop promises, without numbers, lists or accounts: a    *)
(* session sees the messages that were there when it entered, marks some   *)
(* of them, and only its commit takes them out, all at once.  A message    *)
(* that was taken out never comes back.                                    *)
(***************************************************************************)
EXTENDS Integers

CONSTANTS Users, Sessions

VARIABLES
    box,      \* per user, the messages in the maildrop
    ever,     \* how many messages were ever delivered; message m is the m-th
    stage,    \* per session: "out", "in", "committed" or "gone"
    owner,    \* per session, whose maildrop it entered
    view,     \* per session, what it saw when it entered
    marked    \* per session, what its commit will take out

mbvars == <<box, ever, stage, owner, view, marked>>

Deliver ==
    /\ ever' = ever + 1
    /\ \E u \in Users : box' = [box EXCEPT ![u] = @ \cup {ever + 1}]
    /\ UNCHANGED <<stage, owner, view, marked>>

Wipe ==
    /\ \E u \in Users : box' = [box EXCEPT ![u] = {}]
    /\ UNCHANGED <<ever, stage, owner, view, marked>>

Enter(s) ==
    /\ stage[s] = "out"
    /\ stage' = [stage EXCEPT ![s] = "in"]
    /\ \E u \in Users : /\ owner' = [owner EXCEPT ![s] = u]
                        /\ view' = [view EXCEPT ![s] = box[u]]
    /\ UNCHANGED <<box, ever, marked>>

Mark(s) ==
    /\ stage[s] = "in"
    /\ \E m \in view[s] \ marked[s] : marked' = [marked EXCEPT ![s] = @ \cup {m}]
    /\ UNCHANGED <<box, ever, stage, owner, view>>

Unmark(s) ==
    /\ stage[s] = "in"
    /\ marked' = [marked EXCEPT ![s] = {}]
    /\ UNCHANGED <<box, ever, stage, owner, view>>

Commit(s) ==
    /\ stage[s] = "in"
    /\ stage' = [stage EXCEPT ![s] = "committed"]
    /\ box' = [box EXCEPT ![owner[s]] = @ \ marked[s]]
    /\ UNCHANGED <<ever, owner, view, marked>>

Leave(s) ==
    /\ stage' = [stage EXCEPT ![s] = "gone"]
    /\ UNCHANGED <<box, ever, owner, view, marked>>

MailboxInit ==
    /\ box = [u \in Users |-> {}]
    /\ ever = 0
    /\ stage = [s \in Sessions |-> "out"]
    /\ owner \in [Sessions -> Users]
    /\ view = [s \in Sessions |-> {}]
    /\ marked = [s \in Sessions |-> {}]

MailboxNext ==
    \/ Deliver \/ Wipe
    \/ \E s \in Sessions : Enter(s) \/ Mark(s) \/ Unmark(s) \/ Commit(s) \/ Leave(s)

MailboxSpec == MailboxInit /\ [][MailboxNext]_mbvars
=============================================================================
