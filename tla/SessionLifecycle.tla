-------------------------- MODULE SessionLifecycle --------------------------
(* What the session subsystem promises, without tokens, tables or clock.   *)
(* A session is opened once, may end, and stays ended. A request that      *)
(* presents a token of a session is accepted only if the session had not   *)
(* ended when the request arrived; one asked to end sessions is answered   *)
(* with success only when all of them have ended. A request that names a   *)
(* session and presents no token of it is not judged by that session.      *)
CONSTANTS Requests, None

VARIABLES
    status,    \* of every session: "none", "active" or "ended"
    phase,     \* of every request: "new", "arrived", "accepted" or "closed"
    on,        \* the session whose token an open request presents, or None
    dead,      \* whether that session had ended when the request arrived
    live       \* the sessions an open request must end

svars == <<status, phase, on, dead, live>>

Init ==
    /\ status = [s \in Requests |-> "none"]
    /\ phase = [r \in Requests |-> "new"]
    /\ on = [r \in Requests |-> None]
    /\ dead = [r \in Requests |-> FALSE]
    /\ live = [r \in Requests |-> {}]

requests == <<phase, on, dead, live>>

\* Sessions move forward only, any number of them in one step.
Forward ==
    /\ status' \in [Requests -> {"none", "active", "ended"}]
    /\ \A s \in Requests : \/ status'[s] = status[s]
                           \/ status[s] = "none"
                           \/ status'[s] = "ended"

Arrive(r) ==
    \E s \in Requests \cup {None},
       S \in SUBSET {t \in Requests : status[t] = "active"} :
        /\ phase[r] = "new"
        /\ s # None => status[s] # "none"
        /\ phase' = [phase EXCEPT ![r] = "arrived"]
        /\ on' = [on EXCEPT ![r] = s]
        /\ dead' = [dead EXCEPT ![r] = s # None /\ status[s] = "ended"]
        /\ live' = [live EXCEPT ![r] = S]

\* The last session may end in the very step that makes the answer.
Accept(r) ==
    /\ phase[r] = "arrived" /\ ~dead[r]
    /\ \A s \in live[r] : status'[s] = "ended"
    /\ phase' = [phase EXCEPT ![r] = "accepted"]
    /\ UNCHANGED <<on, dead, live>>

Close(r) ==
    /\ phase[r] \in {"arrived", "accepted"}
    /\ phase' = [phase EXCEPT ![r] = "closed"]
    /\ on' = [on EXCEPT ![r] = None]
    /\ dead' = [dead EXCEPT ![r] = FALSE]
    /\ live' = [live EXCEPT ![r] = {}]

Next ==
    /\ Forward
    /\ \/ UNCHANGED requests
       \/ \E r \in Requests : Arrive(r) \/ Accept(r) \/ Close(r)

Spec == Init /\ [][Next]_svars
=============================================================================
