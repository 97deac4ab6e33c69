---------------------------- MODULE TokenService ----------------------------
(* src/auth/token/token.service.ts: rotation of refresh tokens, the JWT    *)
(* blacklist, invalidation of a session, and cleanup of expired rows.      *)
(*                                                                         *)
(* rotateRefreshToken runs in an interactive transaction that holds one    *)
(* pool connection from its first query to its commit, but inserts the new *)
(* row through the service's own client: on a second connection, committed *)
(* at once, whatever becomes of the transaction.                           *)
EXTENDS AuthStore

\* The tokens this request mints, at the moment their expiry is computed.
NewRefresh(u, s, f, d) ==
    [user |-> u, sid |-> s, fam |-> f, dev |-> d, exp |-> now + RefreshTtl]
NewJwt(u, s, f) ==
    [user |-> u, sid |-> s, fam |-> f, exp |-> now + AccessTtl]

(* rotateRefreshToken *)

\* Opens the transaction and reads the token's row. The code compares the
\* device only: the row's own expiresAt and revokedAt are never looked at.
RotFind(r) ==
    /\ At(r, "rotFind")
    /\ LET g == fr[r].g IN
       \/ g \notin DOMAIN refresh /\ Fail(r)
       \/ /\ g \in DOMAIN refresh
          /\ Turn(r, IF refresh[g].dev = fr[r].dev THEN "rotSession"
                                                   ELSE "rotReject",
                  [fr[r] EXCEPT !.user = refresh[g].user,
                                !.sid = refresh[g].sid,
                                !.fam = refresh[g].fam])
    /\ UNCHANGED <<now, store, held>>

\* Variant: the deletion of a rejected family outside the transaction.
RotRejectCommits(r) ==
    /\ At(r, "rotReject")
    /\ refresh' = Without(refresh, FamilyRows(fr[r].fam))
    /\ Fail(r)
    /\ UNCHANGED <<now, sess, jwt, blk, held>>

\* Deletes the family (waiting for rows another rotation is deleting) and
\* throws inside the transaction, which rolls the deletion back.
RotReject(r) ==
    /\ At(r, "rotReject")
    /\ ~RowsLocked(r, FamilyRows(fr[r].fam))
    /\ Fail(r)
    /\ UNCHANGED <<now, store, held>>

RotSession(r) ==
    /\ At(r, "rotSession")
    /\ Goto(r, IF IsActive(fr[r].sid) THEN "rotDelete" ELSE "rotReject")
    /\ UNCHANGED <<now, store, held>>

\* Variant: a rotation that deletes the token presented and not its family.
RotDeleteOne(r) ==
    /\ At(r, "rotDelete")
    /\ Turn(r, "rotLock", [fr[r] EXCEPT !.snap = {fr[r].g}])
    /\ UNCHANGED <<now, store, held>>

\* deleteMany, first half: the statement's snapshot. A row inserted from
\* here on is not deleted, however long the statement waits for locks.
RotDelete(r) ==
    /\ At(r, "rotDelete")
    /\ Turn(r, "rotLock", [fr[r] EXCEPT !.snap = FamilyRows(fr[r].fam)])
    /\ UNCHANGED <<now, store, held>>

\* deleteMany, second half: the rows still there are deleted, and locked
\* until the transaction ends.
RotLock(r) ==
    /\ At(r, "rotLock")
    /\ ~RowsLocked(r, fr[r].snap)
    /\ Turn(r, "rotInsert",
            [fr[r] EXCEPT !.del = fr[r].snap \cap DOMAIN refresh, !.snap = {}])
    /\ UNCHANGED <<now, store, held>>

\* generateRefreshToken, which needs a connection besides the one held. The
\* foreign key refuses a row whose session is gone.
InsertRotated(r) ==
    refresh' = Put(refresh, r,
                   NewRefresh(fr[r].user, fr[r].sid, fr[r].fam, fr[r].dev))

RotInsert(r) ==
    /\ pc[r] = "rotInsert" /\ ConnFree
    /\ \/ fr[r].sid \in DOMAIN sess /\ InsertRotated(r) /\ Goto(r, "rotCommit")
       \/ fr[r].sid \notin DOMAIN sess /\ refresh' = refresh /\ Fail(r)
    /\ UNCHANGED <<now, sess, jwt, blk, held>>

\* Variant: a rotation that deletes the new row as well as the old ones.
RotCommitDropsNew(r) ==
    /\ At(r, "rotCommit")
    /\ refresh' = Without(refresh, FamilyRows(fr[r].fam))
    /\ Turn(r, "recheck", [fr[r] EXCEPT !.del = {}])
    /\ UNCHANGED <<now, sess, jwt, blk, held>>

RotCommit(r) ==
    /\ At(r, "rotCommit")
    /\ refresh' = Without(refresh, fr[r].del)
    /\ Turn(r, "recheck", [fr[r] EXCEPT !.del = {}])
    /\ UNCHANGED <<now, sess, jwt, blk, held>>

\* Variant: a timed-out transaction is tried again from its first query.
TxTimeoutRetries(r) ==
    /\ "timeout" \in Faults
    /\ pc[r] \in RotationSteps \cup {"rotFind"}
    /\ Turn(r, "rotFind", [fr[r] EXCEPT !.del = {}, !.snap = {}])
    /\ UNCHANGED <<now, store, held>>

\* Prisma gives up an interactive transaction that has no connection after
\* 2 s or has not committed after 5 s, and rolls it back. An insert already
\* issued on the other connection is not part of it.
TxTimeout(r) ==
    /\ "timeout" \in Faults
    /\ pc[r] \in RotationSteps \cup {"rotFind"}
    /\ IF pc[r] = "rotInsert"
       THEN Turn(r, "rotLate", [fr[r] EXCEPT !.del = {}])
       ELSE Fail(r)
    /\ UNCHANGED <<now, store, held>>

\* The late insert commits; the handler then finds its transaction closed.
RotLate(r) ==
    /\ At(r, "rotLate")
    /\ \/ fr[r].sid \in DOMAIN sess /\ InsertRotated(r)
       \/ fr[r].sid \notin DOMAIN sess /\ refresh' = refresh
    /\ Fail(r)
    /\ UNCHANGED <<now, sess, jwt, blk, held>>

(* Access tokens *)

\* blacklistAccessTokenFromJwt verifies the JWT again first and throws when
\* it has expired since the guard accepted it.
Blacklist(r) ==
    /\ At(r, "blacklist")
    /\ \/ jwt[fr[r].g].exp <= now /\ blk' = blk /\ Fail(r)
       \/ /\ jwt[fr[r].g].exp > now
          /\ blk' = blk \cup {fr[r].g}
          /\ \/ fr[r].op # "logoutAll" /\ Goto(r, "inv")
             \/ /\ fr[r].op = "logoutAll"
                /\ Turn(r, "findAll", [fr[r] EXCEPT !.at = now])
    /\ UNCHANGED <<now, sess, refresh, jwt, held>>

\* Variant: the comparison with the expiry the wrong way round.
IsBlacklistedSwapped(g) == g \in blk /\ jwt[g].exp < now

IsBlacklisted(g) == g \in blk /\ jwt[g].exp > now

(* invalidateSession: one batch transaction, an UPDATE and a DELETE *)

\* The UPDATE locks the session's row, and the DELETE takes its snapshot.
InvStart(r) ==
    /\ At(r, "inv")
    /\ \E s \in fr[r].todo :
        /\ ~SessionLocked(r, s)
        /\ \/ s \notin DOMAIN sess /\ Fail(r)
           \/ /\ s \in DOMAIN sess
              /\ Turn(r, "invCommit",
                      [fr[r] EXCEPT !.sid = s, !.todo = @ \ {s},
                                    !.snap = SessionRows(s)])
    /\ UNCHANGED <<now, store, held>>

\* The DELETE gets its locks, and the batch commits.
InvCommit(r) ==
    /\ At(r, "invCommit")
    /\ ~RowsLocked(r, fr[r].snap)
    /\ sess' = [sess EXCEPT ![fr[r].sid].revoked = TRUE]
    /\ refresh' = Without(refresh, fr[r].snap)
    /\ Turn(r, "invAgain", [fr[r] EXCEPT !.snap = {}])
    /\ UNCHANGED <<now, jwt, blk, held>>

(* cleanupExpiredAuthData: rows past their expiry, and by the cascade the  *)
(* refresh tokens of the sessions deleted. Nothing in the repository calls *)
(* it yet. It waits for row locks, so it runs when it meets none.          *)
Expired(f) == {x \in DOMAIN f : f[x].exp < now}

Cleanup ==
    LET gone == Expired(sess)
        dead == Expired(refresh) \cup UNION {SessionRows(s) : s \in gone}
    IN /\ "cleanup" \in Operations /\ ConnFree
       /\ \A q \in Requests : /\ fr[q].del \cap dead = {}
                              /\ LockedSessions(q) \cap gone = {}
       /\ refresh' = Without(refresh, dead)
       /\ sess' = Without(sess, gone)
       /\ blk' = blk \ {g \in blk : jwt[g].exp < now}
       /\ UNCHANGED <<now, jwt, held, pc, fr>>
=============================================================================
