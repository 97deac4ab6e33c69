------------------------ MODULE TokensOrchestration ------------------------
(* src/auth/services/tokens-orchestration.service.ts: the token pair a     *)
(* login, a completed MFA or a refresh hands out.                          *)
EXTENDS SessionsDevices

\* issueTokens: after the role is read, the JWT is signed and the refresh
\* token, first of a new family, is inserted. Nothing looks at the session;
\* only the foreign key needs its row.
Issue(r) ==
    LET s == fr[r].sid
        u == fr[r].user
    IN /\ At(r, "issue")
       /\ \/ /\ s \in DOMAIN sess
             /\ refresh' = Put(refresh, r, NewRefresh(u, s, r, fr[r].dev))
             /\ jwt' = Put(jwt, r, NewJwt(u, s, r))
             /\ Goto(r, "ok")
          \/ s \notin DOMAIN sess /\ UNCHANGED <<refresh, jwt>> /\ Fail(r)
       /\ UNCHANGED <<now, sess, blk, held>>

(* refreshTokens, once the rotation has committed *)

\* MFA is asked for when the session was opened on another device and the user
\* has a factor, verified or not. The code reads the factor in a query of its
\* own.
RequiresMfa(u, s, d) == u \in FactorUsers /\ sess[s].dev # d

\* The session is read again.
Recheck(r) ==
    LET s == fr[r].sid IN
    /\ At(r, "recheck")
    /\ \/ ~IsActive(s) /\ Fail(r)
       \/ /\ IsActive(s)
          /\ Goto(r, IF RequiresMfa(fr[r].user, s, fr[r].dev)
                     THEN "challenge" ELSE "mint")
    /\ UNCHANGED <<now, store, held>>

\* The upsert of an mfa_challenges row, which no code reads, and an answer
\* without tokens: the rotated refresh token reaches nobody.
Challenge(r) ==
    /\ At(r, "challenge")
    /\ \/ fr[r].sid \in DOMAIN sess /\ Goto(r, "ok")
       \/ fr[r].sid \notin DOMAIN sess /\ Fail(r)
    /\ UNCHANGED <<now, store, held>>

\* Variant: a refresh prolongs the session.
MintSliding(r) ==
    /\ At(r, "mint")
    /\ jwt' = Put(jwt, r, NewJwt(fr[r].user, fr[r].sid, fr[r].fam))
    /\ sess' = [s \in DOMAIN sess |->
                  IF s = fr[r].sid THEN [sess[s] EXCEPT !.exp = now + SessionTtl]
                                   ELSE sess[s]]
    /\ Goto(r, "ok")
    /\ UNCHANGED <<now, refresh, blk, held>>

\* Role, JWT and audit record; then the new pair is the answer.
Mint(r) ==
    /\ At(r, "mint")
    /\ jwt' = Put(jwt, r, NewJwt(fr[r].user, fr[r].sid, fr[r].fam))
    /\ Goto(r, "ok")
    /\ UNCHANGED <<now, sess, refresh, blk, held>>
=============================================================================
