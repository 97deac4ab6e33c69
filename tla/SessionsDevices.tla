-------------------------- MODULE SessionsDevices --------------------------
(* src/auth/services/sessions-devices.service.ts: the sessions of a user,  *)
(* at most MAX_ACTIVE_SESSIONS of them, and the ways to end them; with the *)
(* sweep of all sessions by which credentials-passwords.service.ts ends a  *)
(* password change or reset.                                               *)
EXTENDS TokenService

(* createSession: count, perhaps evict the oldest, insert -- as separate   *)
(* queries outside any transaction; `now` is read once, before the count   *)

\* Variant: the limit off by one.
CountSessionsOffByOne(r) ==
    /\ At(r, "count")
    /\ \/ /\ Cardinality(ActiveSessions(fr[r].user)) > MaxActiveSessions
          /\ Turn(r, "oldest", [fr[r] EXCEPT !.at = now])
       \/ /\ Cardinality(ActiveSessions(fr[r].user)) <= MaxActiveSessions
          /\ Goto(r, "create")
    /\ UNCHANGED <<now, store, held>>

CountSessions(r) ==
    /\ At(r, "count")
    /\ \/ /\ Cardinality(ActiveSessions(fr[r].user)) >= MaxActiveSessions
          /\ Turn(r, "oldest", [fr[r] EXCEPT !.at = now])
       \/ /\ Cardinality(ActiveSessions(fr[r].user)) < MaxActiveSessions
          /\ Goto(r, "create")
    /\ UNCHANGED <<now, store, held>>

\* createdAt ascending, first row.
IsOldest(s, S) == s \in S /\ sess[s].older \cap S = {}

FindOldest(r) ==
    /\ At(r, "oldest")
    /\ LET active == ActiveAt(fr[r].at, fr[r].user) IN
       \/ active = {} /\ Goto(r, "create")
       \/ \E s \in active :
            /\ IsOldest(s, active)
            /\ Turn(r, "inv", [fr[r] EXCEPT !.todo = {s}, !.at = 0])
    /\ UNCHANGED <<now, store, held>>

\* After the insert, a password login asks for the user's verified MFA factor
\* and with one answers mfaRequired and no tokens; a social login does not.
CreateSession(r) ==
    /\ At(r, "create")
    /\ sess' = Put(sess, r, [user |-> fr[r].user, dev |-> fr[r].dev,
                             exp |-> now + SessionTtl, revoked |-> FALSE,
                             older |-> DOMAIN sess])
    /\ Turn(r, IF fr[r].op = "login" /\ fr[r].user \in MfaUsers THEN "ok"
                                                              ELSE "issue",
            [fr[r] EXCEPT !.sid = r])
    /\ UNCHANGED <<now, refresh, jwt, blk, held>>

(* invalidateSession of this service: the token service's batch, then the  *)
(* same UPDATE once more, which fails if the row is gone                   *)

\* Variant: a loop that ends with its first session.
AfterInvalidationOnce(r) == IF fr[r].op \in LoginOps THEN "create" ELSE "ok"

AfterInvalidation(r) == IF fr[r].todo # {} THEN "inv"
                        ELSE IF fr[r].op \in LoginOps THEN "create" ELSE "ok"

InvAgain(r) ==
    /\ At(r, "invAgain")
    /\ ~SessionLocked(r, fr[r].sid)
    /\ \/ fr[r].sid \notin DOMAIN sess /\ sess' = sess /\ Fail(r)
       \/ /\ fr[r].sid \in DOMAIN sess
          /\ sess' = [sess EXCEPT ![fr[r].sid].revoked = TRUE]
          /\ Goto(r, AfterInvalidation(r))
    /\ UNCHANGED <<now, refresh, jwt, blk, held>>

\* logoutAllSessions: the sessions to end, in no particular order. They are
\* compared with the time before the JWT was blacklisted.
FindAll(r) ==
    /\ At(r, "findAll")
    /\ LET active == ActiveAt(fr[r].at, fr[r].user) IN
       Turn(r, IF active = {} THEN "ok" ELSE "inv",
            [fr[r] EXCEPT !.todo = active, !.at = 0])
    /\ UNCHANGED <<now, store, held>>

\* revokeSession: the target (fr[r].todo) must be an active session of the
\* user who asks.
FindOwn(r) ==
    /\ At(r, "findOwn")
    /\ \/ fr[r].todo \subseteq ActiveSessions(fr[r].user) /\ Goto(r, "blacklist")
       \/ ~(fr[r].todo \subseteq ActiveSessions(fr[r].user)) /\ Fail(r)
    /\ UNCHANGED <<now, store, held>>

(* changePassword and confirmPasswordReset: a batch transaction whose last *)
(* statement revokes every session of the user its snapshot shows. Their   *)
(* refresh tokens stay.                                                    *)

\* Variant: the session of the request itself is spared.
SweepOthers(r) ==
    /\ At(r, "sweep")
    /\ LET others == {s \in DOMAIN sess \ {fr[r].sid} :
                        sess[s].user = fr[r].user} IN
        /\ \A s \in others : ~SessionLocked(r, s)
        /\ Turn(r, "sweepCommit", [fr[r] EXCEPT !.todo = others])
    /\ UNCHANGED <<now, store, held>>

Sweep(r) ==
    /\ At(r, "sweep")
    /\ LET mine == {s \in DOMAIN sess : sess[s].user = fr[r].user} IN
        /\ \A s \in mine : ~SessionLocked(r, s)
        /\ Turn(r, "sweepCommit", [fr[r] EXCEPT !.todo = mine])
    /\ UNCHANGED <<now, store, held>>

SweepCommit(r) ==
    /\ At(r, "sweepCommit")
    /\ sess' = [s \in DOMAIN sess |->
                  IF s \in fr[r].todo THEN [sess[s] EXCEPT !.revoked = TRUE]
                                      ELSE sess[s]]
    /\ Turn(r, "ok", [fr[r] EXCEPT !.todo = {}])
    /\ UNCHANGED <<now, refresh, jwt, blk, held>>
=============================================================================
