---------------------------- MODULE MessageThread ----------------------------
(* What the contact messages promise, without queries and transactions: a   *)
(* message that was created is never new again once it was dealt with; it   *)
(* becomes REPLIED only together with a reply, written by the one who is    *)
(* then named as the last to reply; replies are never lost.                 *)
CONSTANTS Requests, Admins, None

VARIABLES
    status,    \* of every message: None before it is created
    replies,   \* the replies of every message, as request and author
    lastBy     \* who replied last

tvars == <<status, replies, lastBy>>

Init ==
    /\ status  = [m \in Requests |-> None]
    /\ replies = [m \in Requests |-> {}]
    /\ lastBy  = [m \in Requests |-> None]

Create(m) ==
    /\ status[m] = None
    /\ status' = [status EXCEPT ![m] = "NEW"]
    /\ UNCHANGED <<replies, lastBy>>

\* Whatever its status was, which another administrator may have set meanwhile.
Mark(m) ==
    /\ status[m] # None
    /\ \E s \in {"READ", "ARCHIVED", "SPAM"} : status' = [status EXCEPT ![m] = s]
    /\ UNCHANGED <<replies, lastBy>>

Reply(m, r, a) ==
    /\ status[m] # None /\ \A x \in replies[m] : x.id # r
    /\ status'  = [status EXCEPT ![m] = "REPLIED"]
    /\ replies' = [replies EXCEPT ![m] = @ \cup {[id |-> r, author |-> a]}]
    /\ lastBy'  = [lastBy EXCEPT ![m] = a]

Next == \E m \in Requests : \/ Create(m) \/ Mark(m)
                            \/ \E r \in Requests, a \in Admins : Reply(m, r, a)

Spec == Init /\ [][Next]_tvars
=============================================================================
