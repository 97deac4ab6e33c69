-------------------------- MODULE RevocationProofs --------------------------
(* Revocations: what a successful logout, revocation or password change    *)
(* has ended, what a blacklisted JWT can still do, who ends a session, and *)
(* the refresh token a session keeps through every rotation.               *)
EXTENDS AuthSessionsProofs

USE DEF Opt, LoginOps, AuthedOps, AllOps, AllFaults, TypeOK
-----------------------------------------------------------------------------
(* Blacklisted JWTs.                                                        *)

\* Only cleanup removes a row of the blacklist, and only an expired one.
LEMMA BlkSteps ==
    ASSUME BasicInv, [Next]_vars, NEW g \in blk
    PROVE  g \in blk' \/ jwt[g].exp < now
<1> DEFINE Goal == g \in blk' \/ jwt[g].exp < now
<1>1. ASSUME NEW r \in Requests, Handle(r) PROVE Goal
    <2>1. CASE Blacklist(r)
        BY <2>1 DEF Blacklist
    <2>2. CASE Rotate(r) \/ AuthBlacklist(r) \/ AuthSession(r) \/ Deliver(r)
        BY <2>2 DEF Rotate, AuthBlacklist, AuthSession, Deliver, RotFind,
            RotReject, RotSession, RotDelete, RotLock, RotInsert, RotCommit,
            RotLate, store
    <2>3. CASE Open(r) \/ Reissue(r)
        BY <2>3 DEF Open, Reissue, CountSessions, FindOldest, CreateSession,
            Issue, Recheck, Challenge, Mint, store
    <2>4. CASE \/ FindAll(r) \/ FindOwn(r) \/ InvStart(r) \/ InvCommit(r)
               \/ InvAgain(r) \/ Sweep(r) \/ SweepCommit(r)
        BY <2>4 DEF FindAll, FindOwn, InvStart, InvCommit, InvAgain, Sweep,
            SweepCommit, store
    <2> QED
        BY <1>1, <2>1, <2>2, <2>3, <2>4 DEF Handle, End
<1>2. ASSUME NEW r \in Requests, Arrive(r) \/ TxTimeout(r) \/ Lose(r) \/ Throw(r)
      PROVE  Goal
    BY <1>2, ArriveSteps DEF TxTimeout, Lose, Throw, store
<1>3. CASE Cleanup
    BY <1>3 DEF Cleanup
<1>4. CASE Tick \/ UNCHANGED vars
    BY <1>4 DEF Tick, vars, store
<1> QED
    BY <1>1, <1>2, <1>3, <1>4 DEF Next, Finished

\* A request gets past the blacklist query only if the JWT is not blacklisted.
LEMMA BlacklistCheck ==
    ASSUME BasicInv, NEW q \in Requests, Handle(q) \/ Faulted(q),
           pc[q] = "authBlk", fr'[q] # Blank
    PROVE  ~IsBlacklisted(fr[q].g)
<1> USE DEF At, Fail, Leave, Turn, BasicInv
<1>1. CASE AuthBlacklist(q)
    BY <1>1 DEF AuthBlacklist
<1>2. CASE Faulted(q)
    BY <1>2 DEF Faulted, TxTimeout, Lose, Throw, RotationSteps
<1>3. ~(Rotate(q) \/ AuthSession(q) \/ Deliver(q))
    BY DEF Rotate, AuthSession, Deliver, RotFind, RotReject, RotSession,
        RotDelete, RotLock, RotInsert, RotCommit, RotLate
<1>4. ~(Open(q) \/ Reissue(q) \/ End(q))
    BY DEF Open, Reissue, CountSessions, FindOldest, CreateSession, Issue,
        Recheck, Challenge, Mint, End, Blacklist, FindAll, FindOwn, InvStart,
        InvCommit, InvAgain, Sweep, SweepCommit
<1> QED
    BY <1>1, <1>2, <1>3, <1>4 DEF Handle

\* A request that comes in with a blacklisted JWT meets the guard first.
LEMMA ArriveBlacklisted ==
    ASSUME BasicInv, NEW q \in Requests, Arrive(q), fr'[q].black
    PROVE  fr'[q].g \in blk /\ pc'[q] = "authBlk"
<1> USE DEF BasicInv, Begin, Turn, Blank
<1>1. ASSUME NEW op \in LoginOps, NEW u \in Users, NEW d \in Devices,
             BeginLogin(q, op, u, d)
      PROVE  ~fr'[q].black
    BY <1>1 DEF BeginLogin
<1>2. ASSUME NEW u \in Users, NEW s \in Opt(DOMAIN sess), NEW d \in Devices,
             BeginCompleteMfa(q, u, s, d)
      PROVE  ~fr'[q].black
    BY <1>2 DEF BeginCompleteMfa
<1>3. ASSUME NEW g \in held, NEW d \in Devices, BeginRefresh(q, g, d)
      PROVE  ~fr'[q].black
    BY <1>3 DEF BeginRefresh
<1>4. ASSUME NEW op, NEW g \in held, NEW s, BeginAuthed(q, op, g, s)
      PROVE  /\ fr'[q].g = g /\ fr'[q].black = (g \in blk)
             /\ pc'[q] = "authBlk"
    BY <1>4 DEF BeginAuthed
<1>5. ASSUME NEW u \in Users, BeginReset(q, u)
      PROVE  ~fr'[q].black
    BY <1>5 DEF BeginReset
<1> QED
    BY <1>1, <1>2, <1>3, <1>4, <1>5 DEF Arrive

LEMMA NextBlacklist ==
    BasicInv /\ ReferencesOK /\ BlacklistInv /\ [Next]_vars => BlacklistInv'
<1> SUFFICES ASSUME BasicInv, ReferencesOK, BlacklistInv, [Next]_vars,
                    NEW q \in Requests, fr'[q].black
             PROVE  /\ fr'[q].g \in DOMAIN jwt'
                    /\ fr'[q].g \in blk' \/ jwt'[fr'[q].g].exp < now'
                    /\ pc'[q] # "authBlk" => jwt'[fr'[q].g].exp <= now'
    BY DEF BlacklistInv
<1>n. /\ now \in Nat /\ now' \in Nat /\ now' >= now
      /\ \A g \in DOMAIN jwt : jwt[g].exp \in Nat
      /\ blk \subseteq DOMAIN jwt
    BY NextBasic, SessionSteps DEF BasicInv, TablesOK, Jwt
<1>1. ASSUME NEW g \in DOMAIN jwt, g \in blk \/ jwt[g].exp < now
      PROVE  /\ g \in DOMAIN jwt' /\ jwt'[g] = jwt[g]
             /\ g \in blk' \/ jwt'[g].exp < now'
    <2>1. pc[g] \in {"ok", "done"}
        BY DEF ReferencesOK
    <2>2. g \in DOMAIN jwt' /\ jwt'[g] = jwt[g]
        BY <2>1, JwtSteps
    <2> QED
        BY <1>1, <1>n, <2>2, BlkSteps
<1>2. CASE pc'[q] = pc[q] /\ fr'[q] = fr[q]
    BY <1>1, <1>2, <1>n DEF BlacklistInv
<1>3. CASE Arrive(q)
    BY <1>1, <1>3, <1>n, ArriveBlacklisted
<1>4. CASE (Handle(q) \/ Faulted(q)) /\ KeptOrBlank(q, pc'[q], fr'[q])
    <2>1. fr'[q] # Blank
        BY DEF Blank
    <2>2. fr'[q].g = fr[q].g /\ fr[q].black
        BY <1>4, <2>1 DEF KeptOrBlank, Kept
    <2> DEFINE g == fr[q].g
    <2>3. g \in DOMAIN jwt /\ (g \in blk \/ jwt[g].exp < now)
        BY <2>2 DEF BlacklistInv
    <2>4. jwt[g].exp <= now \/ pc'[q] = "authBlk"
        <3>1. CASE pc[q] # "authBlk"
            BY <2>2, <3>1 DEF BlacklistInv
        <3>2. CASE pc[q] = "authBlk"
            BY <1>4, <1>n, <2>1, <2>3, <3>2, BlacklistCheck DEF IsBlacklisted
        <3> QED
            BY <3>1, <3>2
    <2> QED
        BY <1>1, <1>n, <2>2, <2>3, <2>4
<1> QED
    BY <1>2, <1>3, <1>4, RequestSteps

\* A JWT that was blacklisted when its request came in is accepted only once
\* it has expired: BlacklistIsFinal, whatever logs out, expires or is cleaned
\* up meanwhile.
THEOREM BlacklistedStaysRefused == Spec => []BlacklistIsFinal
<1> DEFINE Inv == BasicInv /\ ReferencesOK /\ BlacklistInv
<1>1. Init => Inv
    BY InitBasic, InitReferences DEF Init, BlacklistInv, Blank
<1>2. Inv /\ [Next]_vars => Inv'
    BY NextBasic, NextReferences, NextBlacklist
<1>3. Inv => BlacklistIsFinal
    BY DEF BlacklistInv, BlacklistIsFinal, Accepted
<1> QED
    BY <1>1, <1>2, <1>3, PTL DEF Spec
-----------------------------------------------------------------------------
(* Answered revocations.                                                    *)

\* The sessions a request comes in to end are active, opened, and ahead of it.
LEMMA ArriveAhead ==
    ASSUME BasicInv, ReferencesOK, NEW q \in Requests, Arrive(q)
    PROVE  /\ fr'[q].at = 0
           /\ fr'[q].op \notin SweepOps \cup RevokeOps => fr'[q].live = {}
           /\ \A s \in fr'[q].live :
                /\ s \in Requests /\ Opened(s)
                /\ IsActive(s) /\ Ahead(pc'[q], fr'[q], sess[s].user, s)
<1> USE ConstantsAssumption
    DEF BasicInv, Begin, Turn, Blank, SweepOps, RevokeOps, InvalidateSteps
<1> DEFINE Goal ==
        /\ fr'[q].at = 0
        /\ fr'[q].op \notin SweepOps \cup RevokeOps => fr'[q].live = {}
        /\ \A s \in fr'[q].live :
             /\ s \in Requests /\ Opened(s)
             /\ IsActive(s) /\ Ahead(pc'[q], fr'[q], sess[s].user, s)
<1>a. ASSUME NEW s, IsActive(s)
      PROVE  s \in Requests /\ Opened(s)
    BY <1>a DEF IsActive, TablesOK, ReferencesOK
<1>1. ASSUME NEW op \in LoginOps, NEW u \in Users, NEW d \in Devices,
             BeginLogin(q, op, u, d)
      PROVE  Goal
    BY <1>1 DEF BeginLogin
<1>2. ASSUME NEW u \in Users, NEW s \in Opt(DOMAIN sess), NEW d \in Devices,
             BeginCompleteMfa(q, u, s, d)
      PROVE  Goal
    BY <1>2 DEF BeginCompleteMfa
<1>3. ASSUME NEW g \in held, NEW d \in Devices, BeginRefresh(q, g, d)
      PROVE  Goal
    BY <1>3 DEF BeginRefresh
<1>4. ASSUME NEW op \in AuthedOps, NEW g \in held, NEW s, BeginAuthed(q, op, g, s)
      PROVE  Goal
    <2> DEFINE T == Targets(op, g, s)
               live == {t \in T : IsActive(t)}
               todo == IF op \in {"logout", "revoke"} THEN T ELSE {}
    <2>1. /\ pc'[q] = "authBlk" /\ fr'[q].op = op /\ fr'[q].at = 0
          /\ fr'[q].user = jwt[g].user /\ fr'[q].live = live
          /\ fr'[q].todo = todo
        BY <1>4 DEF BeginAuthed
    <2>2. op = "read" => T = {}
        BY DEF Targets
    <2>3. ASSUME op \in {"logoutAll", "change"}, NEW t \in T
          PROVE  sess[t].user = jwt[g].user
        BY <2>3 DEF Targets, ActiveSessions, ActiveAt
    <2>4. \A t \in live : t \in T /\ IsActive(t)
        OBVIOUS
    <2> HIDE DEF T, live
    <2>5. \A t \in live : Ahead("authBlk", fr'[q], sess[t].user, t)
        BY <2>1, <2>2, <2>3, <2>4 DEF Ahead
    <2>6. op \notin SweepOps \cup RevokeOps => live = {}
        BY <2>2 DEF live
    <2> QED
        BY <1>a, <2>1, <2>4, <2>5, <2>6
<1>5. ASSUME NEW u \in Users, BeginReset(q, u)
      PROVE  Goal
    <2>1. /\ pc'[q] = "sweep" /\ fr'[q].op = "reset" /\ fr'[q].at = 0
          /\ fr'[q].user = u /\ fr'[q].live = ActiveSessions(u)
        BY <1>5 DEF BeginReset
    <2>2. \A t \in ActiveSessions(u) : IsActive(t) /\ sess[t].user = u
        BY DEF ActiveSessions, ActiveAt, IsActive
    <2>3. \A t \in fr'[q].live : Ahead("sweep", fr'[q], sess[t].user, t)
        BY <2>1, <2>2 DEF Ahead
    <2> QED
        BY <1>a, <2>1, <2>2, <2>3
<1> QED
    BY <1>1, <1>2, <1>3, <1>4, <1>5 DEF Arrive

\* A step of a handler leaves what was ahead of it ahead, or has ended it.
LEMMA HandleAhead ==
    ASSUME BasicInv, NEW q \in Requests, Handle(q), NEW s \in DOMAIN sess,
           Kept(fr[q], fr'[q]), fr[q].op \in SweepOps \cup RevokeOps,
           fr[q].at <= now, IsActive(s), Ahead(pc[q], fr[q], sess[s].user, s),
           ActiveIn(sess', now', s)
    PROVE  Ahead(pc'[q], fr'[q], sess[s].user, s)
<1> USE DEF BasicInv, SweepOps, RevokeOps
<1>f. /\ fr[q] \in Frame /\ FrameOK(pc[q], fr[q])
      /\ fr \in [Requests -> Frame] /\ pc \in [Requests -> Steps]
      /\ fr'[q].op = fr[q].op /\ fr'[q].user = fr[q].user
    BY DEF FramesOK, Kept
<1>g. ASSUME NEW p, Goto(q, p) PROVE pc'[q] = p /\ fr'[q] = fr[q]
    BY <1>f, <1>g DEF Goto
<1>t. ASSUME NEW p, NEW f, Turn(q, p, f) PROVE pc'[q] = p /\ fr'[q] = f
    BY <1>f, <1>t DEF Turn
<1>d. fr[q].op # None /\ fr'[q] # Blank
    BY <1>f, ConstantsAssumption DEF Blank
<1>l. ~Leave(q)
    BY <1>t, <1>d DEF Leave
<1>1. CASE AuthBlacklist(q)
    BY <1>1, <1>g, <1>l DEF AuthBlacklist, Fail, At, Ahead
<1>2. CASE AuthSession(q)
    <2>1. pc[q] = "authSession" /\ Goto(q, FirstStep(fr[q].op))
        BY <1>2, <1>l DEF AuthSession, Fail, At
    <2>2. pc'[q] = FirstStep(fr[q].op) /\ fr'[q] = fr[q]
        BY <1>g, <2>1
    <2>3. fr[q].op \in {"logout", "logoutAll", "revoke", "change"}
        BY <1>f, <2>1 DEF FrameOK, AuthedOps
    <2>4. pc'[q] \in {"blacklist", "findOwn", "sweep"}
        BY <2>2, <2>3 DEF FirstStep
    <2> QED
        BY <1>f, <2>1, <2>2, <2>4 DEF Ahead
<1>3. CASE Blacklist(q)
    <2>0. pc[q] = "blacklist" /\ fr[q].op \in RevokeOps
        BY <1>3, <1>f DEF Blacklist, At, FrameOK
    <2>1. CASE Goto(q, "inv") /\ fr[q].op # "logoutAll"
        <3>1. s \in fr[q].todo
            BY <2>0, <2>1 DEF Ahead
        <3>2. pc'[q] = "inv" /\ fr'[q] = fr[q]
            BY <1>g, <2>1
        <3> QED
            BY <2>0, <2>1, <3>1, <3>2 DEF Ahead
    <2>2. CASE fr[q].op = "logoutAll" /\ pc'[q] = "findAll"
        BY <1>f, <2>2 DEF Ahead
    <2> QED
        BY <1>3, <1>l, <1>t, <2>1, <2>2 DEF Blacklist, Fail
<1>4. CASE FindAll(q)
    <2> DEFINE active == ActiveAt(fr[q].at, fr[q].user)
    <2>1. sess[s].user = fr[q].user
        BY <1>4, <1>f DEF FindAll, At, FrameOK, Ahead
    <2>2. s \in active
        BY <1>f, <2>1 DEF ActiveAt, IsActive, Frame, TablesOK, SessionRow
    <2>3. pc'[q] = "inv" /\ fr'[q].todo = active
        BY <1>4, <1>f, <2>2 DEF FindAll, Turn, Frame
    <2> QED
        BY <1>f, <2>1, <2>2, <2>3 DEF Ahead
<1>5. CASE FindOwn(q)
    BY <1>5, <1>g, <1>l DEF FindOwn, Fail, At, Ahead
<1>6. CASE InvStart(q)
    <2>1. PICK x \in fr[q].todo :
            Turn(q, "invCommit",
                 [fr[q] EXCEPT !.sid = x, !.todo = @ \ {x},
                               !.snap = SessionRows(x)])
        BY <1>6, <1>l DEF InvStart, Fail
    <2>2. /\ pc'[q] = "invCommit" /\ fr'[q].sid = x
          /\ fr'[q].todo = fr[q].todo \ {x}
        BY <1>f, <2>1 DEF Turn, Frame
    <2>3. s \in fr[q].todo
        BY <1>6 DEF InvStart, At, Ahead
    <2> QED
        BY <1>f, <2>2, <2>3 DEF Ahead
<1>7. CASE InvCommit(q)
    <2>1. s # fr[q].sid
        BY <1>7 DEF InvCommit, ActiveIn, TablesOK, SessionRow
    <2>2. s \in fr[q].todo
        BY <1>7, <2>1 DEF InvCommit, At, Ahead
    <2>3. pc'[q] = "invAgain" /\ fr'[q].todo = fr[q].todo
        BY <1>7, <1>f DEF InvCommit, Turn, Frame
    <2> QED
        BY <1>7, <1>f, <2>2, <2>3 DEF Ahead, InvCommit, At
<1>8. CASE InvAgain(q)
    <2>1. s \in fr[q].todo
        BY <1>8 DEF InvAgain, At, Ahead
    <2>2. pc'[q] = "inv" /\ fr'[q] = fr[q]
        BY <1>8, <1>g, <1>l, <2>1 DEF InvAgain, Fail, AfterInvalidation
    <2> QED
        BY <1>8, <2>1, <2>2 DEF Ahead, InvAgain, At
<1>9. CASE Sweep(q)
    <2> DEFINE mine == {x \in DOMAIN sess : sess[x].user = fr[q].user}
    <2>1. sess[s].user = fr[q].user
        BY <1>9, <1>f DEF Sweep, At, FrameOK, Ahead
    <2>2. pc'[q] = "sweepCommit" /\ fr'[q].todo = mine
        BY <1>9, <1>f DEF Sweep, Turn, Frame
    <2> QED
        BY <1>f, <2>1, <2>2 DEF Ahead
<1>10. CASE SweepCommit(q)
    <2>1. s \in fr[q].todo
        BY <1>10 DEF SweepCommit, At, Ahead
    <2> QED
        BY <1>10, <2>1 DEF SweepCommit, ActiveIn, TablesOK, SessionRow
<1>11. CASE Rotate(q) \/ Reissue(q)
    <2>1. pc[q] \in AfterFind \cup {"rotFind"}
        BY <1>11 DEF Rotate, Reissue, RotFind, RotReject, RotSession, RotDelete,
            RotLock, RotInsert, RotCommit, RotLate, Recheck, Challenge, Mint, At,
            AfterFind, RotationSteps
    <2> QED
        BY <1>f, <2>1 DEF FrameOK
<1>12. CASE Open(q)
    <2>1. pc[q] \in {"count", "oldest", "create", "issue"}
        BY <1>12 DEF Open, CountSessions, FindOldest, CreateSession, Issue, At
    <2> QED
        BY <1>f, <2>1 DEF FrameOK, PasswordOps
<1>13. CASE Deliver(q)
    BY <1>13, <1>l DEF Deliver
<1> QED
    BY <1>1, <1>2, <1>3, <1>4, <1>5, <1>6, <1>7, <1>8, <1>9, <1>10, <1>11,
       <1>12, <1>13 DEF Handle, End

LEMMA NextRevocation ==
    BasicInv /\ ReferencesOK /\ RevocationInv /\ [Next]_vars => RevocationInv'
<1> SUFFICES ASSUME BasicInv, ReferencesOK, RevocationInv, [Next]_vars,
                    NEW q \in Requests
             PROVE  /\ fr'[q].at <= now'
                    /\ fr'[q].op \notin SweepOps \cup RevokeOps
                            => fr'[q].live = {}
                    /\ \A s \in fr'[q].live :
                         /\ ~NotYetOpened(pc'[s], fr'[s])
                         /\ ActiveIn(sess', now', s) =>
                                Ahead(pc'[q], fr'[q], sess'[s].user, s)
    BY DEF RevocationInv, IsActive, ActiveIn, Opened
<1>n. /\ now \in Nat /\ now' \in Nat /\ now' >= now
      /\ fr[q] \in Frame /\ fr[q].at \in Nat
    BY NextBasic, SessionSteps DEF BasicInv, TablesOK, Frame
<1>r. /\ fr[q].at <= now
      /\ fr[q].op \notin SweepOps \cup RevokeOps => fr[q].live = {}
      /\ \A s \in fr[q].live :
            /\ s \in Requests /\ Opened(s)
            /\ IsActive(s) => Ahead(pc[q], fr[q], sess[s].user, s)
    BY <1>n DEF RevocationInv, Frame
<1>o. ASSUME NEW s \in Requests, Opened(s)
      PROVE  ~NotYetOpened(pc'[s], fr'[s])
    BY <1>o, OpenedSteps DEF Opened
<1>a. ASSUME NEW s \in Requests, Opened(s), ActiveIn(sess', now', s)
      PROVE  IsActive(s) /\ s \in DOMAIN sess /\ sess'[s].user = sess[s].user
    <2>1. IsActive(s)
        BY <1>a, InactiveStays
    <2>2. pc[s] # "create"
        BY <1>a, ConstantsAssumption
        DEF Opened, NotYetOpened, BasicInv, FramesOK, FrameOK
    <2>3. s \in DOMAIN sess'
        BY <1>a DEF ActiveIn
    <2> QED
        BY <2>1, <2>2, <2>3, SessionSteps DEF IsActive
<1>1. CASE pc'[q] = pc[q] /\ fr'[q] = fr[q]
    BY <1>1, <1>n, <1>r, <1>o, <1>a
<1>2. CASE Arrive(q)
    <2>1. /\ fr'[q].at = 0
          /\ fr'[q].op \notin SweepOps \cup RevokeOps => fr'[q].live = {}
          /\ \A s \in fr'[q].live :
                /\ s \in Requests /\ Opened(s)
                /\ IsActive(s) /\ Ahead(pc'[q], fr'[q], sess[s].user, s)
        BY <1>2, ArriveAhead
    <2> QED
        BY <1>n, <1>o, <1>a, <2>1
<1>3. CASE fr'[q] = Blank
    BY <1>3, <1>n DEF Blank
<1>4. CASE (Handle(q) \/ Faulted(q)) /\ Kept(fr[q], fr'[q]) /\ fr'[q] # Blank
    <2>1. /\ fr'[q].op = fr[q].op /\ fr'[q].live = fr[q].live
          /\ fr'[q].at \in {fr[q].at, 0, now}
        BY <1>4 DEF Kept
    <2>2. fr'[q].at <= now'
        BY <1>n, <1>r, <2>1
    <2>3. ASSUME NEW s \in fr[q].live, ActiveIn(sess', now', s)
          PROVE  Ahead(pc'[q], fr'[q], sess'[s].user, s)
        <3>1. /\ s \in DOMAIN sess /\ IsActive(s) /\ sess'[s].user = sess[s].user
              /\ Ahead(pc[q], fr[q], sess[s].user, s)
            BY <1>r, <1>a, <2>3
        <3>2. fr[q].op \in SweepOps \cup RevokeOps
            BY <1>r, <2>3
        <3>3. CASE Handle(q)
            BY <1>4, <1>r, <2>3, <3>1, <3>2, <3>3, HandleAhead
        <3>4. CASE Faulted(q)
            <4>1. pc[q] \in AfterFind \cup {"rotFind"}
                BY <1>4, <3>4 DEF Faulted, TxTimeout, Lose, Throw, Fail, Leave,
                    Turn, BasicInv, RotationSteps, AfterFind
            <4>2. FrameOK(pc[q], fr[q])
                BY DEF BasicInv, FramesOK
            <4> QED
                BY <3>2, <4>1, <4>2 DEF FrameOK, SweepOps, RevokeOps
        <3> QED
            BY <1>4, <3>3, <3>4
    <2> QED
        BY <1>r, <1>o, <2>1, <2>2, <2>3
<1> QED
    BY <1>1, <1>2, <1>3, <1>4, RequestSteps DEF KeptOrBlank

LEMMA InitRevocation == Init => RevocationInv
BY DEF Init, RevocationInv, Blank

\* What is answered is true: when a logout, a revocation or a password change
\* or reset succeeds, no session it was asked to end is active, for any number
\* of sessions and whatever runs at the same time.
THEOREM RevocationsHold == Spec => []AnsweredRevocationHolds
<1> DEFINE Inv == BasicInv /\ ReferencesOK /\ RevocationInv
<1>1. Init => Inv
    BY InitBasic, InitReferences, InitRevocation
<1>2. Inv /\ [Next]_vars => Inv'
    BY NextBasic, NextReferences, NextRevocation
<1>3. Inv => AnsweredRevocationHolds
    BY DEF RevocationInv, AnsweredRevocationHolds, Accepted, Ahead
<1> QED
    BY <1>1, <1>2, <1>3, PTL DEF Spec
-----------------------------------------------------------------------------
(* Who ends a session.                                                      *)

\* A request of a guarded route arrives with the session of its JWT.
LEMMA ArriveOwner ==
    ASSUME BasicInv, NEW q \in Requests, Arrive(q)
    PROVE  /\ pc'[q] \in {"authBlk", "authSession"} =>
                /\ fr'[q].g \in held
                /\ fr'[q].user = jwt[fr'[q].g].user
                /\ fr'[q].op = "logout" => fr'[q].todo = {jwt[fr'[q].g].sid}
                /\ fr'[q].op \notin {"logout", "revoke"} => fr'[q].todo = {}
           /\ Ending(pc'[q], fr'[q]) = {}
<1> USE DEF BasicInv, Begin, Turn, Blank, Ending
<1> DEFINE Goal ==
        /\ pc'[q] \in {"authBlk", "authSession"} =>
             /\ fr'[q].g \in held
             /\ fr'[q].user = jwt[fr'[q].g].user
             /\ fr'[q].op = "logout" => fr'[q].todo = {jwt[fr'[q].g].sid}
             /\ fr'[q].op \notin {"logout", "revoke"} => fr'[q].todo = {}
        /\ Ending(pc'[q], fr'[q]) = {}
<1>1. CASE pc'[q] \in {"count", "issue", "rotFind", "sweep"}
    BY <1>1
<1>2. ASSUME NEW op \in AuthedOps, NEW g \in held, NEW s, BeginAuthed(q, op, g, s)
      PROVE  Goal
    <2>1. /\ pc'[q] = "authBlk" /\ fr'[q].op = op /\ fr'[q].g = g
          /\ fr'[q].user = jwt[g].user
          /\ fr'[q].todo = IF op \in {"logout", "revoke"} THEN Targets(op, g, s)
                                                          ELSE {}
        BY <1>2 DEF BeginAuthed
    <2> QED
        BY <2>1 DEF Targets
<1>3. ASSUME pc'[q] = "authBlk"
      PROVE  \E op \in AuthedOps, g \in held : \E s : BeginAuthed(q, op, g, s)
    BY <1>3 DEF Arrive, BeginLogin, BeginCompleteMfa, BeginRefresh, BeginReset
<1> QED
    BY <1>1, <1>2, <1>3, ArriveSteps

\* What a request of user u is about to end after a step of its handler, it was
\* about to end before, or it has just looked it up among u's sessions, or it
\* is the session the guard has just compared with u.
LEMMA EndingSteps ==
    ASSUME BasicInv, ReferencesOK, OwnerInv, NEW q \in Requests, Handle(q),
           Kept(fr[q], fr'[q]), NEW s \in Ending(pc'[q], fr'[q])
    PROVE  /\ s \in Requests /\ Opened(s)
           /\ OwnedIn(sess, fr[q].user, s)
           /\ fr'[q].user = fr[q].user
<1> USE DEF BasicInv
<1> DEFINE Goal == s \in Requests /\ Opened(s) /\ OwnedIn(sess, fr[q].user, s)
<1>f. /\ fr[q] \in Frame /\ FrameOK(pc[q], fr[q])
      /\ fr \in [Requests -> Frame] /\ pc \in [Requests -> Steps]
      /\ fr'[q].op = fr[q].op
      /\ fr[q].op # "refresh" => fr'[q].user = fr[q].user
    BY DEF FramesOK, Kept
<1>g. ASSUME NEW p, Goto(q, p) PROVE pc'[q] = p /\ fr'[q] = fr[q]
    BY <1>f, <1>g DEF Goto
<1>t. ASSUME NEW p, NEW f, Turn(q, p, f) PROVE pc'[q] = p /\ fr'[q] = f
    BY <1>f, <1>t DEF Turn
<1>l. ~Leave(q)
    BY <1>t DEF Leave, Ending
<1>e. s \in Ending(pc[q], fr[q]) => Goal
    BY DEF OwnerInv
<1>a. ASSUME NEW t \in DOMAIN sess, sess[t].user = fr[q].user
      PROVE  t \in Requests /\ Opened(t) /\ OwnedIn(sess, fr[q].user, t)
    BY <1>a DEF OwnedIn, ReferencesOK, TablesOK
<1>p. pc'[q] \in {"invCommit", "invAgain", "blacklist", "inv", "sweepCommit"}
    BY DEF Ending
<1>q. fr'[q].user = fr[q].user
    <2>1. FrameOK(pc'[q], fr'[q])
        BY NextBasic DEF FramesOK, Next
    <2> QED
        BY <1>f, <1>p, <2>1
        DEF FrameOK, InvalidateSteps, RevokeOps, SweepOps
<1>1. CASE AuthSession(q)
    <2>1. /\ pc[q] = "authSession" /\ Goto(q, FirstStep(fr[q].op))
          /\ jwt[fr[q].g].sid \in DOMAIN sess
          /\ sess[jwt[fr[q].g].sid].user = jwt[fr[q].g].user
        BY <1>1, <1>l DEF AuthSession, Fail, At, IsActive
    <2>2. pc'[q] = FirstStep(fr[q].op) /\ fr'[q] = fr[q]
        BY <1>g, <2>1
    <2>3. fr[q].op \in {"logout", "logoutAll"} /\ s \in fr[q].todo
        BY <1>p, <2>2 DEF FirstStep, Ending
    <2>4. s = jwt[fr[q].g].sid /\ fr[q].user = jwt[fr[q].g].user
        BY <2>1, <2>3 DEF OwnerInv
    <2> QED
        BY <1>a, <1>q, <2>1, <2>4
<1>2. CASE Blacklist(q)
    BY <1>2, <1>e, <1>g, <1>l, <1>p, <1>q, <1>t DEF Blacklist, Fail, At, Ending
<1>3. CASE FindAll(q)
    <2> DEFINE active == ActiveAt(fr[q].at, fr[q].user)
    <2>1. pc'[q] = "inv" /\ fr'[q].todo = active
        BY <1>3, <1>f, <1>p DEF FindAll, Turn, Frame
    <2>2. s \in DOMAIN sess /\ sess[s].user = fr[q].user
        BY <2>1 DEF Ending, ActiveAt
    <2> QED
        BY <1>a, <1>q, <2>2
<1>4. CASE FindOwn(q)
    <2>1. /\ pc'[q] = "blacklist" /\ fr'[q] = fr[q]
          /\ fr[q].todo \subseteq ActiveSessions(fr[q].user)
        BY <1>4, <1>g, <1>l DEF FindOwn, Fail
    <2>2. s \in DOMAIN sess /\ sess[s].user = fr[q].user
        BY <2>1 DEF Ending, ActiveSessions, ActiveAt
    <2> QED
        BY <1>a, <1>q, <2>2
<1>5. CASE InvStart(q)
    <2>1. PICK x \in fr[q].todo :
            Turn(q, "invCommit",
                 [fr[q] EXCEPT !.sid = x, !.todo = @ \ {x},
                               !.snap = SessionRows(x)])
        BY <1>5, <1>l DEF InvStart, Fail
    <2>2. /\ pc'[q] = "invCommit" /\ fr'[q].sid = x
          /\ fr'[q].todo = fr[q].todo \ {x}
        BY <1>f, <2>1 DEF Turn, Frame
    <2>3. s \in fr[q].todo /\ pc[q] = "inv"
        BY <1>5, <2>1, <2>2 DEF Ending, InvStart, At
    <2> QED
        BY <1>e, <1>q, <2>3 DEF Ending
<1>6. CASE InvCommit(q)
    <2>1. /\ pc[q] = "invCommit" /\ pc'[q] = "invAgain"
          /\ fr'[q].todo = fr[q].todo /\ fr'[q].sid = fr[q].sid
        BY <1>6, <1>f DEF InvCommit, Turn, Frame, At
    <2> QED
        BY <1>e, <1>q, <2>1 DEF Ending
<1>7. CASE InvAgain(q)
    <2>1. pc[q] = "invAgain" /\ pc'[q] = "inv" /\ fr'[q] = fr[q]
        BY <1>7, <1>g, <1>l, <1>p DEF InvAgain, Fail, AfterInvalidation, At
    <2> QED
        BY <1>e, <1>q, <2>1 DEF Ending
<1>8. CASE Sweep(q)
    <2> DEFINE mine == {x \in DOMAIN sess : sess[x].user = fr[q].user}
    <2>1. pc'[q] = "sweepCommit" /\ fr'[q].todo = mine
        BY <1>8, <1>f DEF Sweep, Turn, Frame
    <2>2. s \in DOMAIN sess /\ sess[s].user = fr[q].user
        BY <2>1 DEF Ending
    <2> QED
        BY <1>a, <1>q, <2>2
<1>9. CASE FindOldest(q)
    <2>1. PICK x \in ActiveAt(fr[q].at, fr[q].user) :
             Turn(q, "inv", [fr[q] EXCEPT !.todo = {x}, !.at = 0])
        <3>1. ~Goto(q, "create")
            BY <1>g, <1>p
        <3> QED
            BY ONLY <1>9, <3>1, Zenon DEF FindOldest
    <2> DEFINE S == {x}
    <2>2. pc'[q] = "inv" /\ fr'[q].todo = S
        <3> HIDE DEF S
        <3>1. Turn(q, "inv", [fr[q] EXCEPT !.todo = S, !.at = 0])
            BY <2>1 DEF S
        <3> QED
            BY <1>f, <3>1 DEF Turn, Frame
    <2>3. s \in DOMAIN sess /\ sess[s].user = fr[q].user
        BY <2>1, <2>2 DEF Ending, ActiveAt
    <2> QED
        BY <1>a, <1>q, <2>3
<1>10. ~(Rotate(q) \/ Reissue(q))
    BY <1>l, <1>p DEF Rotate, Reissue, RotFind, RotReject, RotSession, RotDelete,
       RotLock, RotInsert, RotCommit, RotLate, Recheck, Challenge, Mint, Turn,
       Goto, Fail
<1>11. ~(AuthBlacklist(q) \/ Deliver(q) \/ SweepCommit(q))
    BY <1>l, <1>p DEF AuthBlacklist, Deliver, SweepCommit, Turn, Goto, Fail
<1>12. ~(CountSessions(q) \/ CreateSession(q) \/ Issue(q))
    BY <1>l, <1>p DEF CountSessions, CreateSession, Issue, Turn, Goto, Fail
<1> QED
    BY <1>1, <1>2, <1>3, <1>4, <1>5, <1>6, <1>7, <1>8, <1>9, <1>10, <1>11,
       <1>12 DEF Handle, Open, End

LEMMA NextOwner == BasicInv /\ ReferencesOK /\ OwnerInv /\ [Next]_vars => OwnerInv'
<1> SUFFICES ASSUME BasicInv, ReferencesOK, OwnerInv, [Next]_vars,
                    NEW q \in Requests
             PROVE  /\ pc'[q] \in {"authBlk", "authSession"} =>
                         /\ fr'[q].user = jwt'[fr'[q].g].user
                         /\ fr'[q].op = "logout"
                                => fr'[q].todo = {jwt'[fr'[q].g].sid}
                         /\ fr'[q].op \notin {"logout", "revoke"}
                                => fr'[q].todo = {}
                    /\ \A s \in Ending(pc'[q], fr'[q]) :
                         /\ s \in Requests /\ ~NotYetOpened(pc'[s], fr'[s])
                         /\ OwnedIn(sess', fr'[q].user, s)
    BY DEF OwnerInv, Opened
<1>j. ASSUME NEW g \in DOMAIN jwt
      PROVE  jwt'[g] = jwt[g]
    BY JwtSteps DEF ReferencesOK
<1>o. ASSUME NEW s \in Requests, Opened(s), NEW u, OwnedIn(sess, u, s)
      PROVE  ~NotYetOpened(pc'[s], fr'[s]) /\ OwnedIn(sess', u, s)
    <2>1. pc[s] # "create"
        BY <1>o, ConstantsAssumption
        DEF Opened, NotYetOpened, BasicInv, FramesOK, FrameOK
    <2> QED
        BY <1>o, <2>1, OpenedSteps, SessionSteps DEF Opened, OwnedIn
<1>1. CASE pc'[q] = pc[q] /\ fr'[q] = fr[q]
    <2>1. pc[q] \in {"authBlk", "authSession"} => jwt'[fr[q].g] = jwt[fr[q].g]
        BY <1>j DEF BasicInv, FramesOK, FrameOK, PresentsKnown
    <2> QED
        BY <1>1, <1>o, <2>1 DEF OwnerInv
<1>2. CASE Arrive(q)
    BY <1>2, <1>j, ArriveOwner DEF BasicInv, TablesOK
<1>3. CASE fr'[q] = Blank /\ pc'[q] = "done"
    BY <1>3 DEF Ending
<1>4. CASE Handle(q) /\ Kept(fr[q], fr'[q])
    <2>1. ASSUME pc'[q] \in {"authBlk", "authSession"}
          PROVE  pc[q] = "authBlk" /\ fr'[q] = fr[q]
        <3> USE DEF BasicInv, Fail, Leave, Turn, Goto
        <3>1. CASE AuthBlacklist(q)
            BY <2>1, <3>1 DEF AuthBlacklist, At
        <3>2. ~(AuthSession(q) \/ Deliver(q) \/ Open(q))
            BY <2>1 DEF AuthSession, FirstStep, Deliver, Open, CountSessions,
               FindOldest, CreateSession, Issue
        <3>3. ~(Rotate(q) \/ Reissue(q))
            BY <2>1 DEF Rotate, Reissue, RotFind, RotReject, RotSession, RotDelete,
               RotLock, RotInsert, RotCommit, RotLate, Recheck, Challenge, Mint
        <3>4. ~End(q)
            BY <2>1 DEF End, Blacklist, FindAll, FindOwn, InvStart, InvCommit,
               InvAgain, AfterInvalidation, Sweep, SweepCommit
        <3> QED
            BY <1>4, <3>1, <3>2, <3>3, <3>4 DEF Handle
    <2>2. pc[q] = "authBlk" => jwt'[fr[q].g] = jwt[fr[q].g]
        BY <1>j DEF BasicInv, FramesOK, FrameOK, PresentsKnown
    <2>3. pc'[q] \in {"authBlk", "authSession"} =>
                         /\ fr'[q].user = jwt'[fr'[q].g].user
                         /\ fr'[q].op = "logout"
                                => fr'[q].todo = {jwt'[fr'[q].g].sid}
                         /\ fr'[q].op \notin {"logout", "revoke"}
                                => fr'[q].todo = {}
        BY <2>1, <2>2 DEF OwnerInv
    <2> QED
        BY <1>4, <1>o, <2>3, EndingSteps
<1>5. CASE Faulted(q) /\ Kept(fr[q], fr'[q])
    <2>1. pc'[q] \in {"done", "rotLate"}
        BY <1>5 DEF Faulted, TxTimeout, Lose, Throw, Fail, Leave, Turn, BasicInv
    <2> QED
        BY <2>1 DEF Ending
<1> QED
    BY <1>1, <1>2, <1>3, <1>4, <1>5, RequestSteps DEF KeptOrBlank

\* A session row is revoked only by a step of a request that was about to end
\* that session.
LEMMA RevokeSteps ==
    ASSUME BasicInv, [Next]_vars, NEW s \in DOMAIN sess, s \in DOMAIN sess',
           sess'[s].revoked, ~sess[s].revoked
    PROVE  \E r \in InFlight : pc'[r] # pc[r] /\ s \in Ending(pc[r], fr[r])
<1> DEFINE Goal == \E r \in InFlight : pc'[r] # pc[r] /\ s \in Ending(pc[r], fr[r])
<1> USE DEF BasicInv, InFlight
<1>u. sess' # sess
    OBVIOUS
<1>1. ASSUME NEW r \in Requests, Handle(r) PROVE Goal
    <2>1. CASE CreateSession(r)
        BY <2>1 DEF CreateSession, Put
    <2>2. CASE InvCommit(r)
        <3>1. s = fr[r].sid
            BY <2>2 DEF InvCommit
        <3> QED
            BY <2>2, <3>1 DEF InvCommit, At, Turn, Ending
    <2>3. CASE InvAgain(r)
        <3>1. s = fr[r].sid
            BY <2>3 DEF InvAgain
        <3>2. pc[r] = "invAgain" /\ pc'[r] # "invAgain"
            BY <2>3 DEF InvAgain, At, Turn, Goto, Fail, Leave, AfterInvalidation
        <3> QED
            BY <3>1, <3>2 DEF Ending
    <2>4. CASE SweepCommit(r)
        <3>1. s \in fr[r].todo
            BY <2>4 DEF SweepCommit
        <3> QED
            BY <2>4, <3>1 DEF SweepCommit, At, Turn, Ending
    <2>5. ~(Rotate(r) \/ Reissue(r) \/ AuthBlacklist(r) \/ AuthSession(r) \/ Deliver(r))
        BY <1>u
        DEF Rotate, Reissue, AuthBlacklist, AuthSession, Deliver, RotFind, RotReject,
            RotSession, RotDelete, RotLock, RotInsert, RotCommit, RotLate, Recheck,
            Challenge, Mint, store
    <2>6. ~(\/ CountSessions(r) \/ FindOldest(r) \/ Issue(r) \/ Blacklist(r)
            \/ FindAll(r) \/ FindOwn(r) \/ InvStart(r) \/ Sweep(r))
        BY <1>u
        DEF CountSessions, FindOldest, Issue, Blacklist, FindAll, FindOwn, InvStart,
            Sweep, store
    <2> QED
        BY <1>1, <2>1, <2>2, <2>3, <2>4, <2>5, <2>6 DEF Handle, Open, End
<1>2. ASSUME NEW r \in Requests, Arrive(r) \/ TxTimeout(r) \/ Lose(r) \/ Throw(r)
      PROVE  Goal
    BY <1>2, <1>u, ArriveSteps DEF TxTimeout, Lose, Throw, store
<1>3. CASE Cleanup
    BY <1>3 DEF Cleanup, Without
<1>4. CASE Tick
    BY <1>4, <1>u DEF Tick, store
<1>5. CASE UNCHANGED vars
    BY <1>u, <1>5 DEF vars
<1> QED
    BY <1>1, <1>2, <1>3, <1>4, <1>5 DEF Next, Finished

LEMMA InitOwner == Init => OwnerInv
BY DEF Init, OwnerInv, Ending

\* No step ends a session before its time but a step of a request of the
\* session's own user: OnlyOwnerEndsSession, for any number of users and
\* sessions, whatever is evicted, logged out and swept at the same time.
THEOREM OwnersEndSessions == Spec => OnlyOwnerEndsSession
<1> DEFINE Inv == BasicInv /\ ReferencesOK /\ OwnerInv
           Owned == \A s \in DOMAIN sess \cap DOMAIN sess' :
                      sess'[s].revoked /\ ~sess[s].revoked =>
                          \E r \in InFlight :
                              pc'[r] # pc[r] /\ fr[r].user = sess[s].user
<1>1. Init => Inv
    BY InitBasic, InitReferences, InitOwner
<1>2. Inv /\ [Next]_vars => Inv'
    BY NextBasic, NextReferences, NextOwner
<1>3. Inv /\ [Next]_vars => [Owned]_vars
    <2> SUFFICES ASSUME Inv, [Next]_vars, NEW s \in DOMAIN sess \cap DOMAIN sess',
                        sess'[s].revoked, ~sess[s].revoked
                 PROVE  \E r \in InFlight :
                              pc'[r] # pc[r] /\ fr[r].user = sess[s].user
        OBVIOUS
    <2>1. PICK r \in InFlight : pc'[r] # pc[r] /\ s \in Ending(pc[r], fr[r])
        BY RevokeSteps
    <2> QED
        BY <2>1 DEF OwnerInv, OwnedIn, InFlight
<1> QED
    BY <1>1, <1>2, <1>3, PTL DEF Spec, OnlyOwnerEndsSession
-----------------------------------------------------------------------------
(* The refresh token of an active session.                                  *)

\* The request that inserts a refresh token, and what it inserts: a token of
\* the request's session, with a full life ahead of it.
LEMMA InsertSteps ==
    ASSUME BasicInv, [Next]_vars, NEW x \in DOMAIN refresh'
    PROVE  \/ x \in DOMAIN refresh /\ refresh'[x] = refresh[x]
           \/ /\ x \in Requests /\ ~Minted(pc[x]) /\ Minted(pc'[x])
              /\ refresh'[x].sid = fr[x].sid /\ fr[x].sid \in DOMAIN sess
              /\ refresh'[x].exp = now + RefreshTtl
              /\ UNCHANGED <<now, sess>>
              /\ DOMAIN refresh \subseteq DOMAIN refresh'
              /\ \/ /\ pc[x] = "issue" /\ refresh'[x].fam = x
                    /\ x \in DOMAIN jwt' /\ jwt'[x].sid = fr[x].sid
                 \/ pc[x] \in AfterFind /\ refresh'[x].fam = fr[x].fam
<1> DEFINE Goal ==
           \/ x \in DOMAIN refresh /\ refresh'[x] = refresh[x]
           \/ /\ x \in Requests /\ ~Minted(pc[x]) /\ Minted(pc'[x])
              /\ refresh'[x].sid = fr[x].sid /\ fr[x].sid \in DOMAIN sess
              /\ refresh'[x].exp = now + RefreshTtl
              /\ UNCHANGED <<now, sess>>
              /\ DOMAIN refresh \subseteq DOMAIN refresh'
              /\ \/ /\ pc[x] = "issue" /\ refresh'[x].fam = x
                    /\ x \in DOMAIN jwt' /\ jwt'[x].sid = fr[x].sid
                 \/ pc[x] \in AfterFind /\ refresh'[x].fam = fr[x].fam
<1> USE DEF BasicInv, TablesOK
<1>u. ASSUME refresh' = refresh PROVE Goal
    BY <1>u
<1>w. ASSUME NEW S, refresh' = Without(refresh, S) PROVE Goal
    BY <1>w DEF Without
<1>1. ASSUME NEW r \in Requests, Handle(r) PROVE Goal
    <2>1. CASE Issue(r)
        BY <1>u, <2>1 DEF Issue, At, Put, Goto, NewRefresh, NewJwt, Minted
    <2>2. CASE RotInsert(r)
        BY <1>u, <2>2 DEF RotInsert, InsertRotated, Put, Goto, NewRefresh, Minted,
            AfterFind, RotationSteps
    <2>3. CASE RotLate(r)
        BY <1>u, <2>3
        DEF RotLate, At, InsertRotated, Put, Fail, Leave, Turn, NewRefresh, Minted,
            AfterFind
    <2>4. CASE RotCommit(r) \/ InvCommit(r)
        BY <1>w, <2>4 DEF RotCommit, InvCommit
    <2>5. CASE \/ AuthBlacklist(r) \/ AuthSession(r) \/ Deliver(r) \/ Reissue(r)
               \/ RotFind(r) \/ RotReject(r) \/ RotSession(r) \/ RotDelete(r)
               \/ RotLock(r)
        BY <1>u, <2>5
        DEF AuthBlacklist, AuthSession, Deliver, Reissue, RotFind, RotReject,
            RotSession, RotDelete, RotLock, Recheck, Challenge, Mint, store
    <2>6. CASE \/ CountSessions(r) \/ FindOldest(r) \/ CreateSession(r)
               \/ Blacklist(r) \/ FindAll(r) \/ FindOwn(r) \/ InvStart(r)
               \/ InvAgain(r) \/ Sweep(r) \/ SweepCommit(r)
        BY <1>u, <2>6
        DEF CountSessions, FindOldest, CreateSession, Blacklist, FindAll,
            FindOwn, InvStart, InvAgain, Sweep, SweepCommit, store
    <2> QED
        BY <1>1, <2>1, <2>2, <2>3, <2>4, <2>5, <2>6 DEF Handle, Rotate, Open, End
<1>2. ASSUME NEW r \in Requests, Arrive(r) \/ TxTimeout(r) \/ Lose(r) \/ Throw(r)
      PROVE  Goal
    BY <1>2, <1>u, ArriveSteps DEF TxTimeout, Lose, Throw, store
<1>3. CASE Cleanup
    BY <1>3, <1>w DEF Cleanup
<1>4. CASE Tick \/ UNCHANGED vars
    BY <1>u, <1>4 DEF Tick, vars, store
<1> QED
    BY <1>1, <1>2, <1>3, <1>4 DEF Next, Finished

\* A stored refresh token is deleted by the rotation that commits, with the
\* session that ends, or by the cleanup of what has expired.
LEMMA DeleteSteps ==
    ASSUME BasicInv, [Next]_vars, NEW x \in DOMAIN refresh, x \notin DOMAIN refresh'
    PROVE  \/ \E r \in Requests : pc[r] = "rotCommit" /\ x \in fr[r].del
           \/ \E r \in Requests : /\ pc[r] = "invCommit" /\ x \in fr[r].snap
                                  /\ ~ActiveIn(sess', now', fr[r].sid)
           \/ refresh[x].exp < now
           \/ refresh[x].sid \notin DOMAIN sess'
<1> DEFINE Goal ==
           \/ \E r \in Requests : pc[r] = "rotCommit" /\ x \in fr[r].del
           \/ \E r \in Requests : /\ pc[r] = "invCommit" /\ x \in fr[r].snap
                                  /\ ~ActiveIn(sess', now', fr[r].sid)
           \/ refresh[x].exp < now
           \/ refresh[x].sid \notin DOMAIN sess'
<1> USE DEF BasicInv, TablesOK
<1>u. refresh' # refresh
    OBVIOUS
<1>p. ASSUME NEW r, NEW v PROVE refresh' # Put(refresh, r, v)
    BY DEF Put
<1>1. ASSUME NEW r \in Requests, Handle(r) PROVE Goal
    <2>1. ~(Issue(r) \/ RotInsert(r) \/ RotLate(r))
        BY <1>u, <1>p DEF Issue, RotInsert, RotLate, InsertRotated
    <2>4. CASE RotCommit(r)
        BY <2>4 DEF RotCommit, At, Without
    <2>3. CASE InvCommit(r)
        BY <2>3 DEF InvCommit, At, Without, ActiveIn, SessionRow
    <2>5. ~(\/ AuthBlacklist(r) \/ AuthSession(r) \/ Deliver(r) \/ Reissue(r)
            \/ RotFind(r) \/ RotReject(r) \/ RotSession(r) \/ RotDelete(r)
            \/ RotLock(r))
        BY <1>u
        DEF AuthBlacklist, AuthSession, Deliver, Reissue, RotFind, RotReject,
            RotSession, RotDelete, RotLock, Recheck, Challenge, Mint, store
    <2>6. ~(\/ CountSessions(r) \/ FindOldest(r) \/ CreateSession(r)
            \/ Blacklist(r) \/ FindAll(r) \/ FindOwn(r) \/ InvStart(r)
            \/ InvAgain(r) \/ Sweep(r) \/ SweepCommit(r))
        BY <1>u
        DEF CountSessions, FindOldest, CreateSession, Blacklist, FindAll,
            FindOwn, InvStart, InvAgain, Sweep, SweepCommit, store
    <2> QED
        BY <1>1, <2>1, <2>3, <2>4, <2>5, <2>6 DEF Handle, Rotate, Open, End
<1>2. ASSUME NEW r \in Requests, Arrive(r) \/ TxTimeout(r) \/ Lose(r) \/ Throw(r)
      PROVE  FALSE
    BY <1>2, <1>u, ArriveSteps DEF TxTimeout, Lose, Throw, store
<1>3. CASE Cleanup
    BY <1>3 DEF Cleanup, Without, Expired, SessionRows
<1>4. CASE Tick \/ UNCHANGED vars
    BY <1>u, <1>4 DEF Tick, vars, store
<1> QED
    BY <1>1, <1>2, <1>3, <1>4 DEF Next, Finished

\* Once a request inserts no refresh token any more, it never does.
LEMMA MintedStays ==
    ASSUME BasicInv, [Next]_vars, NEW q \in Requests, Minted(pc[q])
    PROVE  Minted(pc'[q])
<1> USE DEF BasicInv, Minted
<1>1. CASE Arrive(q)
    BY <1>1, ArriveSteps
<1>2. CASE Handle(q)
    <2> USE DEF At, Turn, Goto, Fail, Leave
    <2>1. CASE RotCommit(q) \/ Reissue(q) \/ Deliver(q)
        BY <2>1 DEF RotCommit, Reissue, Recheck, Challenge, Mint, Deliver
    <2>2. ~(AuthBlacklist(q) \/ AuthSession(q) \/ Open(q))
        BY DEF AuthBlacklist, AuthSession, Open, CountSessions, FindOldest,
           CreateSession, Issue
    <2>3. ~(RotFind(q) \/ RotReject(q) \/ RotSession(q) \/ RotDelete(q)
            \/ RotLock(q) \/ RotInsert(q) \/ RotLate(q))
        BY DEF RotFind, RotReject, RotSession, RotDelete, RotLock, RotInsert, RotLate
    <2>4. ~End(q)
        BY DEF End, Blacklist, FindAll, FindOwn, InvStart, InvCommit, InvAgain, Sweep,
           SweepCommit
    <2> QED
        BY <1>2, <2>1, <2>2, <2>3, <2>4 DEF Handle, Rotate
<1>3. CASE Faulted(q)
    BY <1>3 DEF Faulted, TxTimeout, Lose, Throw, Fail, Leave, Turn
<1> QED
    BY <1>1, <1>2, <1>3, RequestSteps

\* A request past the lookup of its refresh token has the session and the
\* family of the row it found.
LEMMA FamilySteps ==
    ASSUME BasicInv, [Next]_vars, NEW q \in Requests, pc'[q] \in AfterFind
    PROVE  \/ /\ fr[q].g \in DOMAIN refresh
              /\ fr'[q].sid = refresh[fr[q].g].sid
              /\ fr'[q].fam = refresh[fr[q].g].fam
           \/ /\ pc[q] \in AfterFind
              /\ fr'[q].sid = fr[q].sid /\ fr'[q].fam = fr[q].fam
<1> DEFINE Goal ==
           \/ /\ fr[q].g \in DOMAIN refresh
              /\ fr'[q].sid = refresh[fr[q].g].sid
              /\ fr'[q].fam = refresh[fr[q].g].fam
           \/ /\ pc[q] \in AfterFind
              /\ fr'[q].sid = fr[q].sid /\ fr'[q].fam = fr[q].fam
<1> USE DEF BasicInv, AfterFind, RotationSteps
<1>f. fr[q] \in Frame
    OBVIOUS
<1>1. CASE pc'[q] = pc[q] /\ fr'[q] = fr[q]
    BY <1>1
<1>2. CASE Arrive(q)
    BY <1>2, ArriveSteps
<1>3. CASE Rotate(q)
    <2>1. CASE RotFind(q)
        <3>1. CASE Fail(q)
            BY <3>1 DEF Fail, Leave, Turn
        <3>2. CASE fr[q].g \in DOMAIN refresh
            <4> DEFINE row == refresh[fr[q].g]
                       f == [fr[q] EXCEPT !.user = row.user, !.sid = row.sid,
                                          !.fam = row.fam]
            <4>1. f.fam = row.fam /\ f.sid = row.sid
                BY <1>f DEF Frame
            <4>2. fr'[q] = f
                BY <2>1, <3>2 DEF RotFind, Turn
            <4> QED
                BY <3>2, <4>1, <4>2
        <3> QED
            BY <2>1, <3>1, <3>2 DEF RotFind
    <2>2. CASE RotInsert(q) \/ RotReject(q) \/ RotSession(q) \/ RotLate(q)
        BY <2>2
        DEF RotInsert, RotReject, RotSession, RotLate, At, Fail, Leave, Turn, Goto
    <2>4. CASE RotDelete(q)
        BY <1>f, <2>4 DEF RotDelete, At, Turn, Frame
    <2>5. CASE RotLock(q)
        BY <1>f, <2>5 DEF RotLock, At, Turn, Frame
    <2>6. CASE RotCommit(q)
        BY <1>f, <2>6 DEF RotCommit, At, Turn, Frame
    <2> QED
        BY <1>3, <2>1, <2>2, <2>4, <2>5, <2>6 DEF Rotate
<1>4. CASE Reissue(q)
    BY <1>4 DEF Reissue, Recheck, Challenge, Mint, At, Goto, Fail, Leave, Turn
<1>5. CASE \/ AuthBlacklist(q) \/ AuthSession(q) \/ Deliver(q) \/ Open(q)
    BY <1>5 DEF AuthBlacklist, AuthSession, Deliver, Open, CountSessions, FindOldest,
       CreateSession, Issue, At, Goto, Fail, Leave, Turn, FirstStep
<1>6. CASE End(q)
    BY <1>6 DEF End, Blacklist, FindAll, FindOwn, InvStart, InvCommit, InvAgain, Sweep,
       SweepCommit, AfterInvalidation, At, Goto, Fail, Leave, Turn
<1>7. CASE Faulted(q)
    BY <1>f, <1>7 DEF Faulted, TxTimeout, Lose, Throw, Fail, Leave, Turn, Frame
<1> QED
    BY <1>1, <1>2, <1>3, <1>4, <1>5, <1>6, <1>7, RequestSteps DEF Handle

LEMMA InitFamilies == Init => FamiliesOK
BY DEF Init, FamiliesOK, NoRows, AfterFind, RotationSteps

LEMMA NextFamilies ==
    BasicInv /\ ReferencesOK /\ FamiliesOK /\ [Next]_vars => FamiliesOK'
<1> SUFFICES ASSUME BasicInv, ReferencesOK, FamiliesOK, [Next]_vars
             PROVE  FamiliesOK'
    OBVIOUS
<1>j. ASSUME NEW g \in DOMAIN jwt
      PROVE  g \in DOMAIN jwt' /\ jwt'[g] = jwt[g]
    BY JwtSteps DEF ReferencesOK
<1>r. DOMAIN refresh \subseteq Requests
    BY DEF BasicInv, TablesOK
<1>0. ASSUME NEW g \in DOMAIN jwt'
      PROVE  jwt'[g].fam \in DOMAIN jwt' /\ jwt'[g].sid = jwt'[jwt'[g].fam].sid
    <2>1. CASE g \in DOMAIN jwt /\ jwt'[g] = jwt[g]
        BY <1>j, <2>1 DEF FamiliesOK
    <2>2. CASE pc[g] = "issue" /\ jwt'[g].fam = g
        BY <2>2
    <2>3. CASE pc[g] = "mint" /\ jwt'[g].sid = fr[g].sid /\ jwt'[g].fam = fr[g].fam
        <3>1. g \in Requests
            BY NextBasic DEF BasicInv, TablesOK
        <3>2. fr[g].fam \in DOMAIN jwt /\ fr[g].sid = jwt[fr[g].fam].sid
            BY <2>3, <3>1 DEF FamiliesOK, AfterFind
        <3> QED
            BY <1>j, <2>3, <3>2
    <2> QED
        BY <2>1, <2>2, <2>3, JwtSteps
<1>1. ASSUME NEW x \in DOMAIN refresh'
      PROVE  /\ Minted(pc'[x])
             /\ refresh'[x].fam \in DOMAIN jwt'
             /\ refresh'[x].sid = jwt'[refresh'[x].fam].sid
    <2>1. CASE x \in DOMAIN refresh /\ refresh'[x] = refresh[x]
        BY <1>j, <1>r, <2>1, MintedStays DEF FamiliesOK
    <2>2. CASE /\ x \in Requests /\ Minted(pc'[x]) /\ refresh'[x].sid = fr[x].sid
               /\ \/ /\ refresh'[x].fam = x
                     /\ x \in DOMAIN jwt' /\ jwt'[x].sid = fr[x].sid
                  \/ pc[x] \in AfterFind /\ refresh'[x].fam = fr[x].fam
        <3>1. CASE refresh'[x].fam = x /\ x \in DOMAIN jwt' /\ jwt'[x].sid = fr[x].sid
            BY <2>2, <3>1
        <3>2. CASE pc[x] \in AfterFind /\ refresh'[x].fam = fr[x].fam
            BY <1>j, <2>2, <3>2 DEF FamiliesOK
        <3> QED
            BY <2>2, <3>1, <3>2
    <2> QED
        BY <2>1, <2>2, InsertSteps
<1>2. ASSUME NEW q \in Requests, pc'[q] \in AfterFind
      PROVE  fr'[q].fam \in DOMAIN jwt' /\ fr'[q].sid = jwt'[fr'[q].fam].sid
    BY <1>2, <1>j, FamilySteps DEF FamiliesOK
<1> QED
    BY <1>0, <1>1, <1>2 DEF FamiliesOK

\* What a request is about to delete after a step it was about to delete
\* before, for the same session and family, or it has just found among its
\* tokens.
LEMMA DeletingSteps ==
    ASSUME BasicInv, FamiliesOK, [Next]_vars, NEW q \in Requests,
           NEW x \in Deleting(pc'[q], fr'[q])
    PROVE  \/ /\ x \in Deleting(pc[q], fr[q])
              /\ fr'[q].sid = fr[q].sid /\ fr'[q].fam = fr[q].fam
              /\ pc'[q] # "invCommit" => pc[q] # "invCommit"
           \/ /\ x \in DOMAIN refresh /\ refresh' = refresh
              /\ refresh[x].sid = fr'[q].sid
              /\ pc'[q] # "invCommit" => refresh[x].fam = fr'[q].fam
<1> DEFINE Goal ==
           \/ /\ x \in Deleting(pc[q], fr[q])
              /\ fr'[q].sid = fr[q].sid /\ fr'[q].fam = fr[q].fam
              /\ pc'[q] # "invCommit" => pc[q] # "invCommit"
           \/ /\ x \in DOMAIN refresh /\ refresh' = refresh
              /\ refresh[x].sid = fr'[q].sid
              /\ pc'[q] # "invCommit" => refresh[x].fam = fr'[q].fam
<1> USE DEF BasicInv
<1>f. /\ fr[q] \in Frame /\ fr \in [Requests -> Frame]
      /\ pc \in [Requests -> Steps]
    OBVIOUS
<1>p. pc'[q] \in {"rotLock", "invCommit", "rotInsert", "rotCommit"}
    BY DEF Deleting
<1>1. CASE pc'[q] = pc[q] /\ fr'[q] = fr[q]
    BY <1>1
<1>2. ~Arrive(q)
    BY <1>p, ArriveSteps
<1>3. CASE RotDelete(q)
    <2>1. /\ pc[q] = "rotDelete" /\ pc'[q] = "rotLock"
          /\ fr'[q].snap = FamilyRows(fr[q].fam) /\ fr'[q].sid = fr[q].sid
          /\ refresh' = refresh /\ fr'[q].fam = fr[q].fam
        BY <1>3, <1>f DEF RotDelete, At, Turn, Frame, store
    <2>2. x \in DOMAIN refresh /\ refresh[x].fam = fr[q].fam
        BY <2>1 DEF Deleting, FamilyRows
    <2> QED
        BY <2>1, <2>2 DEF FamiliesOK, AfterFind, RotationSteps
<1>4. CASE RotLock(q)
    <2>1. /\ pc[q] = "rotLock" /\ pc'[q] = "rotInsert"
          /\ fr'[q].del = fr[q].snap \cap DOMAIN refresh
          /\ fr'[q].sid = fr[q].sid /\ fr'[q].fam = fr[q].fam
        BY <1>4, <1>f DEF RotLock, At, Turn, Frame
    <2> QED
        BY <2>1 DEF Deleting
<1>5. CASE RotInsert(q)
    <2>1. pc[q] = "rotInsert" /\ pc'[q] = "rotCommit" /\ fr'[q] = fr[q]
        BY <1>5, <1>f, <1>p DEF RotInsert, Goto, Turn, Fail, Leave
    <2> QED
        BY <2>1 DEF Deleting
<1>6. CASE InvStart(q)
    <2>1. PICK s \in fr[q].todo :
            Turn(q, "invCommit",
                 [fr[q] EXCEPT !.sid = s, !.todo = @ \ {s},
                               !.snap = SessionRows(s)])
        BY <1>6, <1>p DEF InvStart, Fail, Leave, Turn
    <2>2. /\ pc'[q] = "invCommit" /\ fr'[q].sid = s
          /\ fr'[q].snap = SessionRows(s) /\ refresh' = refresh
        BY <1>6, <1>f, <2>1 DEF InvStart, Turn, Frame, store
    <2> QED
        BY <2>2 DEF Deleting, SessionRows
<1>7. ~(\/ RotFind(q) \/ RotReject(q) \/ RotSession(q) \/ RotCommit(q) \/ RotLate(q)
        \/ Reissue(q))
    BY <1>p DEF Reissue, RotFind, RotReject, RotSession, RotCommit, RotLate, Recheck,
       Challenge, Mint, Turn, Goto, Fail, Leave
<1>8. ~(AuthBlacklist(q) \/ AuthSession(q) \/ Deliver(q) \/ Open(q))
    BY <1>p DEF AuthBlacklist, AuthSession, FirstStep, Deliver, Open, CountSessions,
       FindOldest, CreateSession, Issue, Turn, Goto, Fail, Leave
<1>9. ~(\/ Blacklist(q) \/ FindAll(q) \/ FindOwn(q) \/ InvCommit(q) \/ InvAgain(q)
        \/ Sweep(q) \/ SweepCommit(q))
    BY <1>p DEF Blacklist, FindAll, FindOwn, InvCommit, InvAgain, AfterInvalidation,
       Sweep, SweepCommit, Turn, Goto, Fail, Leave
<1>10. ~Faulted(q)
    BY <1>p DEF Faulted, TxTimeout, Lose, Throw, Fail, Leave, Turn
<1> QED
    BY <1>1, <1>2, <1>3, <1>4, <1>5, <1>6, <1>7, <1>8, <1>9, <1>10, RequestSteps
    DEF Handle, Rotate, End

LEMMA InitDeletes == Init => DeletesOK
BY DEF Init, DeletesOK, Deleting

LEMMA NextDeletes ==
    BasicInv /\ FamiliesOK /\ DeletesOK /\ [Next]_vars => DeletesOK'
<1> SUFFICES ASSUME BasicInv, FamiliesOK, DeletesOK, [Next]_vars,
                    NEW q \in Requests, NEW x \in Deleting(pc'[q], fr'[q])
             PROVE  /\ x \in Requests /\ Minted(pc'[x])
                    /\ x \in DOMAIN refresh' =>
                          /\ refresh'[x].sid = fr'[q].sid
                          /\ pc'[q] # "invCommit" => refresh'[x].fam = fr'[q].fam
    BY DEF DeletesOK
<1>1. x \in Requests /\ Minted(pc[x])
    BY DeletingSteps DEF DeletesOK, FamiliesOK, BasicInv, TablesOK
<1>2. Minted(pc'[x])
    BY <1>1, MintedStays
<1>3. x \in DOMAIN refresh' => x \in DOMAIN refresh /\ refresh'[x] = refresh[x]
    BY <1>1, InsertSteps
<1> QED
    BY <1>1, <1>2, <1>3, DeletingSteps DEF DeletesOK

\* A request reaches the commit of its rotation by inserting the new token.
LEMMA CommitSteps ==
    ASSUME BasicInv, [Next]_vars, NEW q \in Requests, pc'[q] = "rotCommit"
    PROVE  /\ fr'[q] = fr[q]
           /\ \/ pc[q] = "rotCommit"
              \/ /\ pc[q] = "rotInsert" /\ q \in DOMAIN refresh'
                 /\ refresh'[q].sid = fr[q].sid /\ refresh'[q].fam = fr[q].fam
<1> USE DEF BasicInv
<1>1. CASE pc'[q] = pc[q] /\ fr'[q] = fr[q]
    BY <1>1
<1>2. ~Arrive(q)
    BY ArriveSteps
<1>3. CASE RotInsert(q)
    <2>1. /\ pc[q] = "rotInsert" /\ fr'[q] = fr[q] /\ InsertRotated(q)
        BY <1>3 DEF RotInsert, Goto, Turn, Fail, Leave
    <2> QED
        BY <2>1 DEF InsertRotated, Put, NewRefresh
<1>4. ~(\/ RotFind(q) \/ RotReject(q) \/ RotSession(q) \/ RotDelete(q) \/ RotLock(q)
        \/ RotCommit(q) \/ RotLate(q) \/ Reissue(q))
    BY DEF Reissue, RotFind, RotReject, RotSession, RotDelete, RotLock, RotCommit,
       RotLate, Recheck, Challenge, Mint, Turn, Goto, Fail, Leave
<1>5. ~(AuthBlacklist(q) \/ AuthSession(q) \/ Deliver(q) \/ Open(q))
    BY DEF AuthBlacklist, AuthSession, FirstStep, Deliver, Open, CountSessions,
       FindOldest, CreateSession, Issue, Turn, Goto, Fail, Leave
<1>6. ~End(q)
    BY DEF End, Blacklist, FindAll, FindOwn, InvStart, InvCommit, InvAgain,
       AfterInvalidation, Sweep, SweepCommit, Turn, Goto, Fail, Leave
<1>7. ~Faulted(q)
    BY DEF Faulted, TxTimeout, Lose, Throw, Fail, Leave, Turn
<1> QED
    BY <1>1, <1>2, <1>3, <1>4, <1>5, <1>6, <1>7, RequestSteps DEF Handle, Rotate

\* A session lives SessionTtl from the step that opens it.
LEMMA LifeSteps ==
    ASSUME BasicInv, [Next]_vars, NEW s \in DOMAIN sess'
    PROVE  \/ s \in DOMAIN sess /\ sess'[s].exp = sess[s].exp
           \/ pc[s] = "create" /\ sess'[s].exp = now + SessionTtl /\ now' = now
<1> DEFINE Goal ==
           \/ s \in DOMAIN sess /\ sess'[s].exp = sess[s].exp
           \/ pc[s] = "create" /\ sess'[s].exp = now + SessionTtl /\ now' = now
<1> USE DEF BasicInv, TablesOK, SessionRow
<1>u. ASSUME sess' = sess PROVE Goal
    BY <1>u
<1>1. ASSUME NEW r \in Requests, Handle(r) PROVE Goal
    <2>1. CASE CreateSession(r)
        BY <2>1 DEF CreateSession, At, Put
    <2>2. CASE InvCommit(r)
        BY <2>2 DEF InvCommit
    <2>3. CASE InvAgain(r)
        BY <2>3 DEF InvAgain
    <2>4. CASE SweepCommit(r)
        BY <2>4 DEF SweepCommit
    <2>5. CASE \/ Rotate(r) \/ Reissue(r) \/ AuthBlacklist(r) \/ AuthSession(r)
               \/ Deliver(r)
        BY <1>u, <2>5
        DEF Rotate, Reissue, AuthBlacklist, AuthSession, Deliver, RotFind, RotReject,
            RotSession, RotDelete, RotLock, RotInsert, RotCommit, RotLate, Recheck,
            Challenge, Mint, store
    <2>6. CASE \/ CountSessions(r) \/ FindOldest(r) \/ Issue(r) \/ Blacklist(r)
               \/ FindAll(r) \/ FindOwn(r) \/ InvStart(r) \/ Sweep(r)
        BY <1>u, <2>6
        DEF CountSessions, FindOldest, Issue, Blacklist, FindAll, FindOwn, InvStart,
            Sweep, store
    <2> QED
        BY <1>1, <2>1, <2>2, <2>3, <2>4, <2>5, <2>6 DEF Handle, Open, End
<1>2. ASSUME NEW r \in Requests, Arrive(r) \/ TxTimeout(r) \/ Lose(r) \/ Throw(r)
      PROVE  Goal
    BY <1>2, <1>u, ArriveSteps DEF TxTimeout, Lose, Throw, store
<1>3. CASE Cleanup
    BY <1>3 DEF Cleanup, Without
<1>4. CASE Tick \/ UNCHANGED vars
    BY <1>4, <1>u DEF Tick, vars, store
<1> QED
    BY <1>1, <1>2, <1>3, <1>4 DEF Next, Finished

LEMMA InitExpiries == Init => ExpiriesOK
BY DEF Init, ExpiriesOK, NoRows

LEMMA NextExpiries ==
    BasicInv /\ ReferencesOK /\ FamiliesOK /\ ExpiriesOK /\ [Next]_vars
        => ExpiriesOK'
<1> SUFFICES ASSUME BasicInv, ReferencesOK, FamiliesOK, ExpiriesOK, [Next]_vars
             PROVE  ExpiriesOK'
    OBVIOUS
<1>n. /\ now \in Nat /\ now' \in Nat /\ now' >= now
      /\ SessionTtl \in Nat /\ RefreshTtl \in Nat
      /\ \A s \in DOMAIN sess : s \in Requests /\ sess[s].exp \in Nat
    BY NextBasic, SessionSteps, ConstantsAssumption
    DEF BasicInv, TablesOK, SessionRow
<1>1. ASSUME NEW s \in DOMAIN sess'
      PROVE  sess'[s].exp <= now' + SessionTtl
    <2>1. s \in DOMAIN sess => sess[s].exp <= now + SessionTtl
        BY DEF ExpiriesOK
    <2> QED
        BY <1>n, <2>1, LifeSteps
<1>2. ASSUME LongRefresh, NEW x \in DOMAIN refresh', refresh'[x].sid \in DOMAIN sess'
      PROVE  sess'[refresh'[x].sid].exp <= refresh'[x].exp
    <2> DEFINE s == refresh'[x].sid
    <2>1. CASE x \in DOMAIN refresh /\ refresh'[x] = refresh[x]
        <3>1. s \in Requests /\ Opened(s)
            BY <2>1 DEF FamiliesOK, ReferencesOK, BasicInv, TablesOK, Jwt
        <3>2. pc[s] # "create"
            BY <3>1, ConstantsAssumption
            DEF Opened, NotYetOpened, BasicInv, FramesOK, FrameOK
        <3> HIDE DEF s
        <3>3. s \in DOMAIN sess /\ sess'[s].exp = sess[s].exp
            BY <1>2, <3>2, LifeSteps DEF s
        <3> QED
            BY <1>2, <2>1, <3>3 DEF ExpiriesOK, s
    <2>2. CASE /\ s \in DOMAIN sess /\ refresh'[x].exp = now + RefreshTtl
               /\ UNCHANGED <<now, sess>>
        <3> HIDE DEF s
        <3>1. sess'[s].exp <= now + SessionTtl /\ sess'[s].exp \in Nat
            BY <1>n, <2>2 DEF ExpiriesOK
        <3> QED
            BY <1>2, <1>n, <2>2, <3>1 DEF LongRefresh, s
    <2> QED
        BY <2>1, <2>2, InsertSteps
<1> QED
    BY <1>1, <1>2 DEF ExpiriesOK

\* The request that signs the first JWT of a family inserts its first refresh
\* token in the same step.
LEMMA IssueInserts ==
    ASSUME BasicInv, [Next]_vars, NEW g \in DOMAIN jwt', g \notin DOMAIN jwt,
           pc[g] = "issue"
    PROVE  g \in DOMAIN refresh' /\ refresh'[g].fam = jwt'[g].fam
<1> USE DEF BasicInv
<1>u. jwt' # jwt
    OBVIOUS
<1>1. ASSUME NEW r \in Requests, Handle(r)
      PROVE  g \in DOMAIN refresh' /\ refresh'[g].fam = jwt'[g].fam
    <2>1. CASE Issue(r)
        BY <2>1 DEF Issue, Put, NewRefresh, NewJwt
    <2>2. CASE Mint(r)
        BY <2>2 DEF Mint, At, Put
    <2>3. ~(\/ Rotate(r) \/ AuthBlacklist(r) \/ AuthSession(r) \/ Deliver(r)
            \/ Recheck(r) \/ Challenge(r))
        BY <1>u
        DEF Rotate, AuthBlacklist, AuthSession, Deliver, RotFind, RotReject,
            RotSession, RotDelete, RotLock, RotInsert, RotCommit, RotLate, Recheck,
            Challenge, store
    <2>4. ~(End(r) \/ CountSessions(r) \/ FindOldest(r) \/ CreateSession(r))
        BY <1>u
        DEF End, CountSessions, FindOldest, CreateSession, Blacklist, FindAll,
            FindOwn, InvStart, InvCommit, InvAgain, Sweep, SweepCommit, store
    <2> QED
        BY <1>1, <2>1, <2>2, <2>3, <2>4 DEF Handle, Open, Reissue
<1>2. ASSUME NEW r \in Requests, Arrive(r) \/ TxTimeout(r) \/ Lose(r) \/ Throw(r)
      PROVE  FALSE
    BY <1>2, <1>u, ArriveSteps DEF TxTimeout, Lose, Throw, store
<1>3. ~(Cleanup \/ Tick \/ UNCHANGED vars)
    BY <1>u DEF Cleanup, Tick, vars, store
<1> QED
    BY <1>1, <1>2, <1>3 DEF Next, Finished

\* A token just inserted is on nobody's list of tokens to delete.
LEMMA NewIsSafe ==
    ASSUME BasicInv, FamiliesOK, DeletesOK, [Next]_vars,
           NEW x \in Requests, ~Minted(pc[x]), NEW q \in Requests
    PROVE  pc'[q] = "rotCommit" => x \notin fr'[q].del
<1>1. x \notin Deleting(pc'[q], fr'[q])
    BY DeletingSteps DEF DeletesOK, FamiliesOK
<1> QED
    BY <1>1 DEF Deleting

\* A safe token of a family whose session stays active stays, and stays safe,
\* unless a rotation of the family has just put another in its place.
LEMMA SafeSteps ==
    ASSUME BasicInv, FamiliesOK, DeletesOK, ExpiriesOK, LongRefresh, [Next]_vars,
           NEW s, IsActive(s), ActiveIn(sess', now', s),
           NEW f, NEW x \in FamilyRows(f), refresh[x].sid = s, Safe(x)
    PROVE  \E y \in DOMAIN refresh' :
               /\ refresh'[y].fam = f
               /\ \A r \in Requests : pc'[r] = "rotCommit" => y \notin fr'[r].del
<1>x. /\ x \in DOMAIN refresh /\ refresh[x].sid = s /\ x \in Requests
      /\ Minted(pc[x]) /\ refresh[x].fam = f
    BY DEF FamilyRows, FamiliesOK, BasicInv, TablesOK
<1>n. /\ now \in Nat /\ sess[s].exp \in Nat /\ sess[s].exp > now
      /\ s \in DOMAIN sess /\ refresh[x].exp \in Nat
    BY <1>x DEF IsActive, BasicInv, TablesOK, SessionRow, RefreshRow
<1>1. x \in DOMAIN refresh'
    <2> SUFFICES ASSUME x \notin DOMAIN refresh' PROVE FALSE
        OBVIOUS
    <2>1. ~(\E r \in Requests : pc[r] = "rotCommit" /\ x \in fr[r].del)
        BY DEF Safe
    <2>2. ASSUME NEW r \in Requests, pc[r] = "invCommit", x \in fr[r].snap
          PROVE  fr[r].sid = s
        <3>1. x \in Deleting(pc[r], fr[r])
            BY <2>2 DEF Deleting
        <3> QED
            BY <1>x, <3>1 DEF DeletesOK
    <2>3. ~(refresh[x].exp < now)
        <3>1. sess[s].exp <= refresh[x].exp
            BY <1>x, <1>n DEF ExpiriesOK
        <3> QED
            BY <1>n, <3>1
    <2>4. refresh[x].sid \in DOMAIN sess'
        BY <1>x DEF ActiveIn
    <2>5. PICK r \in Requests : /\ pc[r] = "invCommit" /\ x \in fr[r].snap
                                /\ ~ActiveIn(sess', now', fr[r].sid)
        BY <1>x, <2>1, <2>3, <2>4, DeleteSteps
    <2>6. fr[r].sid = s
        BY <2>2, <2>5
    <2> QED
        BY <2>5, <2>6
<1>2. refresh'[x] = refresh[x]
    BY <1>1, <1>x, InsertSteps
<1>3. CASE \A r \in Requests : pc'[r] = "rotCommit" => x \notin fr'[r].del
    BY <1>1, <1>2, <1>3, <1>x
<1>4. ASSUME NEW r \in Requests, pc'[r] = "rotCommit", x \in fr'[r].del
      PROVE  r \in DOMAIN refresh' /\ refresh'[r].fam = f /\ ~Minted(pc[r])
    <2>1. /\ fr'[r] = fr[r] /\ pc[r] = "rotInsert" /\ r \in DOMAIN refresh'
          /\ refresh'[r].fam = fr[r].fam
        BY <1>4, CommitSteps DEF Safe
    <2>2. x \in Deleting(pc[r], fr[r])
        BY <1>4, <2>1 DEF Deleting
    <2>3. fr[r].fam = f
        BY <1>x, <2>1, <2>2 DEF DeletesOK
    <2> QED
        BY <2>1, <2>3 DEF Minted
<1> QED
    BY <1>3, <1>4, NewIsSafe

LEMMA NextKept ==
    BasicInv /\ ReferencesOK /\ TokenInv /\ [Next]_vars => KeptOK'
<1> SUFFICES ASSUME BasicInv, ReferencesOK, TokenInv, [Next]_vars, LongRefresh,
                    NEW g \in DOMAIN jwt', ActiveIn(sess', now', jwt'[g].sid)
             PROVE  \E y \in DOMAIN refresh' :
                        /\ refresh'[y].fam = jwt'[g].fam
                        /\ \A r \in Requests :
                               pc'[r] = "rotCommit" => y \notin fr'[r].del
    BY DEF KeptOK, FamilyRows, Safe, IsActive, ActiveIn, LongRefresh
<1> DEFINE s == jwt'[g].sid
           f == jwt'[g].fam
           Goal == \E y \in DOMAIN refresh' :
                        /\ refresh'[y].fam = f
                        /\ \A r \in Requests :
                               pc'[r] = "rotCommit" => y \notin fr'[r].del
<1>1. ASSUME NEW h \in DOMAIN jwt, jwt[h].sid = s, jwt[h].fam = f
      PROVE  Goal
    <2>1. s \in Requests /\ Opened(s)
        BY <1>1 DEF ReferencesOK, BasicInv, TablesOK, Jwt
    <2> HIDE DEF s, f
    <2>2. IsActive(s)
        BY <2>1, InactiveStays DEF s
    <2>3. PICK x \in FamilyRows(f) : Safe(x)
        BY <1>1, <2>2 DEF TokenInv, KeptOK
    <2>4. refresh[x].sid = s
        BY <1>1, <2>3 DEF FamilyRows, TokenInv, FamiliesOK
    <2> QED
        BY <2>2, <2>3, <2>4, SafeSteps DEF TokenInv, s
<1>2. ASSUME pc[g] = "mint", s = fr[g].sid, f = fr[g].fam, g \in Requests
      PROVE  Goal
    <2>1. /\ fr[g].g \in DOMAIN jwt /\ fr[g].sid = jwt[fr[g].g].sid
          /\ fr[g].fam = jwt[fr[g].g].fam
        BY <1>2 DEF ReferencesOK, BasicInv, FramesOK, FrameOK, AfterFind, PresentsKnown
    <2> QED
        BY <1>1, <1>2, <2>1
<1>3. ASSUME pc[g] = "issue", g \in Requests, g \notin DOMAIN jwt
      PROVE  Goal
    <2>1. g \in DOMAIN refresh' /\ refresh'[g].fam = f
        BY <1>3, IssueInserts
    <2> QED
        BY <1>3, <2>1, NewIsSafe DEF TokenInv, Minted
<1>4. g \in Requests
    BY NextBasic DEF BasicInv, TablesOK
<1>5. pc[g] = "issue" => g \notin DOMAIN jwt
    BY DEF ReferencesOK
<1>6. \/ g \in DOMAIN jwt /\ jwt[g].sid = s /\ jwt[g].fam = f
      \/ pc[g] = "issue"
      \/ pc[g] = "mint" /\ s = fr[g].sid /\ f = fr[g].fam
    BY JwtSteps
<1> HIDE DEF s, f, Goal
<1>7. Goal
    BY <1>1, <1>2, <1>3, <1>4, <1>5, <1>6
<1> QED
    BY <1>7 DEF s, f, Goal

\* While a session lives, a client that holds tokens of it finds a refresh
\* token of their family stored, in the midst of any rotation, failed, timed
\* out or overtaken: SessionKeepsToken, for every number of requests.
THEOREM SessionsKeepTokens == Spec => []SessionKeepsToken
<1> DEFINE Inv == BasicInv /\ ReferencesOK /\ TokenInv
<1>1. Init => Inv
    <2>1. Init => KeptOK
        BY DEF Init, KeptOK, NoRows
    <2> QED
        BY <2>1, InitBasic, InitReferences, InitFamilies, InitDeletes, InitExpiries
        DEF TokenInv
<1>2. Inv /\ [Next]_vars => Inv'
    BY NextBasic, NextReferences, NextFamilies, NextDeletes, NextExpiries, NextKept
    DEF TokenInv
<1>3. Inv => SessionKeepsToken
    BY DEF TokenInv, KeptOK, SessionKeepsToken, LongRefresh, BasicInv, TablesOK
<1> QED
    BY <1>1, <1>2, <1>3, PTL DEF Spec
-----------------------------------------------------------------------------
(* A rotation replaces the tokens of its family.                            *)

\* A refresh comes in with the stored tokens of its family as `old`; no other
\* request has any.
LEMMA ArriveOld ==
    ASSUME BasicInv, NEW q \in Requests, Arrive(q)
    PROVE  /\ fr'[q].op # "refresh" => fr'[q].old = {}
           /\ fr'[q].op = "refresh" =>
                 /\ fr'[q].g \in DOMAIN jwt
                 /\ fr'[q].old = FamilyRows(jwt[fr'[q].g].fam)
<1> USE DEF BasicInv, Begin, Turn, Blank
<1>1. ASSUME NEW op, NEW u, NEW d, BeginLogin(q, op, u, d)
      PROVE  fr'[q].op # "refresh" /\ fr'[q].old = {}
    BY <1>1 DEF BeginLogin
<1>2. ASSUME NEW u, NEW s, NEW d, BeginCompleteMfa(q, u, s, d)
      PROVE  fr'[q].op # "refresh" /\ fr'[q].old = {}
    BY <1>2 DEF BeginCompleteMfa
<1>3. ASSUME NEW g \in held, NEW d, BeginRefresh(q, g, d)
      PROVE  /\ fr'[q].g \in DOMAIN jwt /\ fr'[q].op = "refresh"
             /\ fr'[q].old = FamilyRows(jwt[fr'[q].g].fam)
    <2> DEFINE old == FamilyRows(jwt[g].fam)
               dead == ~IsActive(jwt[g].sid)
    <2>1. fr' = [fr EXCEPT ![q] = [Blank EXCEPT !.op = "refresh", !.dev = d, !.g = g,
                                                !.dead = dead, !.old = old]]
        BY <1>3 DEF BeginRefresh
    <2> HIDE DEF old, dead
    <2>2. fr'[q].g = g /\ fr'[q].op = "refresh" /\ fr'[q].old = old
        BY <2>1
    <2> QED
        BY <2>2 DEF old, TablesOK
<1>4. ASSUME NEW op \in AuthedOps, NEW g, NEW s, BeginAuthed(q, op, g, s)
      PROVE  fr'[q].op # "refresh" /\ fr'[q].old = {}
    BY <1>4 DEF BeginAuthed
<1>5. ASSUME NEW u, BeginReset(q, u)
      PROVE  fr'[q].op # "refresh" /\ fr'[q].old = {}
    BY <1>5 DEF BeginReset
<1> HIDE DEF BasicInv, Begin, Turn, Blank
<1> QED
    BY <1>1, <1>2, <1>3, <1>4, <1>5 DEF Arrive

\* What a rotation reads, locks and deletes, from its DELETE to its answer.
LEMMA ReplaceSteps ==
    ASSUME BasicInv, NEW q \in Requests, fr[q].op = "refresh",
           Handle(q) \/ Faulted(q),
           pc'[q] \in {"rotLock", "rotInsert", "rotCommit", "recheck", "challenge",
                       "mint", "ok"}
    PROVE  \/ /\ pc[q] = "rotDelete" /\ pc'[q] = "rotLock" /\ refresh' = refresh
              /\ Deleting(pc'[q], fr'[q]) = FamilyRows(fr[q].fam)
           \/ /\ pc[q] = "rotLock" /\ pc'[q] = "rotInsert"
              /\ Deleting(pc'[q], fr'[q]) = fr[q].snap \cap DOMAIN refresh
              /\ refresh' = refresh
           \/ /\ pc[q] = "rotInsert" /\ pc'[q] = "rotCommit"
              /\ Deleting(pc'[q], fr'[q]) = fr[q].del
           \/ /\ pc[q] = "rotCommit" /\ pc'[q] = "recheck"
              /\ refresh' = Without(refresh, fr[q].del)
           \/ pc[q] \in {"recheck", "challenge", "mint"}
              /\ pc'[q] \in {"challenge", "mint", "ok"}
<1> USE DEF BasicInv
<1>f. fr[q] \in Frame /\ FrameOK(pc[q], fr[q])
    BY DEF FramesOK
<1>1. CASE RotDelete(q)
    <2>1. /\ pc[q] = "rotDelete" /\ pc'[q] = "rotLock" /\ refresh' = refresh
          /\ fr'[q].snap = FamilyRows(fr[q].fam)
        BY <1>1, <1>f DEF RotDelete, At, Turn, Frame, store
    <2> QED
        BY <2>1 DEF Deleting
<1>2. CASE RotLock(q)
    <2>1. /\ pc[q] = "rotLock" /\ pc'[q] = "rotInsert" /\ refresh' = refresh
          /\ fr'[q].del = fr[q].snap \cap DOMAIN refresh
        BY <1>2, <1>f DEF RotLock, At, Turn, Frame, store
    <2> QED
        BY <2>1 DEF Deleting
<1>3. CASE RotInsert(q)
    <2>1. pc[q] = "rotInsert" /\ pc'[q] = "rotCommit" /\ fr'[q] = fr[q]
        BY <1>3 DEF RotInsert, Goto, Fail, Leave, Turn
    <2> QED
        BY <2>1 DEF Deleting
<1>4. CASE RotCommit(q)
    BY <1>4 DEF RotCommit, At, Turn
<1>5. CASE Reissue(q)
    BY <1>5 DEF Reissue, Recheck, Challenge, Mint, At, Goto, Fail, Leave, Turn
<1>6. ~(RotFind(q) \/ RotReject(q) \/ RotSession(q) \/ RotLate(q) \/ Deliver(q))
    BY DEF RotFind, RotReject, RotSession, RotLate, Deliver, Goto, Fail, Leave, Turn
<1>7. ~(AuthBlacklist(q) \/ AuthSession(q) \/ Open(q))
    BY <1>f DEF FrameOK, PasswordOps, AuthBlacklist, AuthSession, Open, CountSessions,
       FindOldest, CreateSession, Issue, At
<1>8. ~End(q)
    BY <1>f DEF FrameOK, RevokeOps, SweepOps, InvalidateSteps, End, Blacklist, FindAll,
       FindOwn, InvStart, InvCommit, InvAgain, Sweep, SweepCommit, At
<1>9. ~Faulted(q)
    BY DEF Faulted, TxTimeout, Lose, Throw, Fail, Leave, Turn
<1> QED
    BY <1>1, <1>2, <1>3, <1>4, <1>5, <1>6, <1>7, <1>8, <1>9 DEF Handle, Rotate

LEMMA NextReplace ==
    BasicInv /\ ReferencesOK /\ FamiliesOK /\ ReplaceInv /\ [Next]_vars => ReplaceInv'
<1> SUFFICES ASSUME BasicInv, ReferencesOK, FamiliesOK, ReplaceInv, [Next]_vars,
                    NEW q \in Requests
             PROVE  /\ \A x \in fr'[q].old :
                          /\ x \in Requests /\ Minted(pc'[x])
                          /\ x \in DOMAIN refresh' =>
                                /\ fr'[q].g \in DOMAIN jwt'
                                /\ refresh'[x].fam = jwt'[fr'[q].g].fam
                    /\ fr'[q].op # "refresh" => fr'[q].old = {}
                    /\ Replacing(pc[q], fr[q])'
    BY DEF ReplaceInv
<1> DEFINE Good(x) == /\ x \in Requests /\ Minted(pc'[x])
                      /\ x \in DOMAIN refresh' =>
                            /\ x \in DOMAIN refresh /\ refresh'[x] = refresh[x]
                            /\ fr[q].g \in DOMAIN jwt
                            /\ fr[q].g \in DOMAIN jwt'
                            /\ refresh'[x].fam = jwt[fr[q].g].fam
                            /\ refresh'[x].fam = jwt'[fr[q].g].fam
<1>j. ASSUME NEW g \in DOMAIN jwt
      PROVE  g \in DOMAIN jwt' /\ jwt'[g] = jwt[g]
    BY JwtSteps DEF ReferencesOK
<1>g. ASSUME NEW x \in fr[q].old PROVE Good(x)
    <2>1. x \in Requests /\ Minted(pc[x])
        BY DEF ReplaceInv
    <2>2. x \in DOMAIN refresh' => x \in DOMAIN refresh /\ refresh'[x] = refresh[x]
        BY <2>1, InsertSteps
    <2> QED
        BY <1>j, <2>1, <2>2, MintedStays DEF ReplaceInv
<1>1. CASE pc'[q] = pc[q] /\ fr'[q] = fr[q]
    <2>1. Replacing(pc[q], fr[q])'
        <3>1. fr[q].old \cap DOMAIN refresh' \subseteq fr[q].old \cap DOMAIN refresh
            BY <1>g
        <3> QED
            BY <1>1, <3>1 DEF ReplaceInv, Replacing, Deleting
    <2> QED
        BY <1>1, <1>g, <2>1 DEF ReplaceInv
<1>2. CASE Arrive(q)
    <2>1. pc'[q] \in {"count", "issue", "rotFind", "authBlk", "sweep"}
          /\ refresh' = refresh /\ jwt' = jwt
        BY <1>2, ArriveSteps DEF store
    <2>2. Replacing(pc[q], fr[q])'
        BY <2>1 DEF Replacing
    <2>3. ASSUME NEW x \in DOMAIN refresh PROVE x \in Requests /\ Minted(pc'[x])
        BY MintedStays DEF FamiliesOK, BasicInv, TablesOK
    <2> QED
        BY <1>2, <2>1, <2>2, <2>3, ArriveOld DEF FamilyRows
<1>3. CASE /\ Handle(q) \/ Faulted(q)
           /\ KeptOrBlank(q, pc'[q], fr'[q])
    <2>1. CASE pc'[q] = "done" /\ fr'[q] = Blank
        BY <2>1 DEF Blank, Replacing
    <2>2. CASE Kept(fr[q], fr'[q])
        <3>1. /\ fr'[q].g = fr[q].g /\ fr'[q].op = fr[q].op /\ fr'[q].old = fr[q].old
            BY <2>2 DEF Kept
        <3>2. fr[q].op # "refresh" => fr[q].old = {}
            BY DEF ReplaceInv
        <3>3. Replacing(pc[q], fr[q])'
            <4> SUFFICES ASSUME fr[q].op = "refresh",
                                pc'[q] \in {"rotLock", "rotInsert", "rotCommit",
                                            "recheck", "challenge", "mint", "ok"},
                                NEW x \in fr[q].old, x \in DOMAIN refresh'
                         PROVE  /\ pc'[q] \in {"rotLock", "rotInsert", "rotCommit"}
                                /\ x \in Deleting(pc'[q], fr'[q])
                BY <3>1, <3>2 DEF Replacing
            <4>1. Good(x) /\ x \in DOMAIN refresh
                BY <1>g
            <4>2. Replacing(pc[q], fr[q])
                BY DEF ReplaceInv
            <4>3. CASE pc[q] = "rotDelete" /\ pc'[q] = "rotLock"
                       /\ Deleting(pc'[q], fr'[q]) = FamilyRows(fr[q].fam)
                <5>1. fr[q].fam = jwt[fr[q].g].fam
                    BY <4>3 DEF ReferencesOK, AfterFind, RotationSteps
                <5> QED
                    BY <4>1, <4>3, <5>1 DEF FamilyRows
            <4>4. CASE /\ pc[q] = "rotLock" /\ pc'[q] = "rotInsert"
                       /\ Deleting(pc'[q], fr'[q]) = fr[q].snap \cap DOMAIN refresh
                BY <4>1, <4>2, <4>4 DEF Replacing, Deleting
            <4>5. CASE pc[q] = "rotInsert" /\ pc'[q] = "rotCommit"
                       /\ Deleting(pc'[q], fr'[q]) = fr[q].del
                BY <4>1, <4>2, <4>5 DEF Replacing, Deleting
            <4>6. ~(/\ pc[q] = "rotCommit" /\ pc'[q] = "recheck"
                    /\ refresh' = Without(refresh, fr[q].del))
                BY <4>1, <4>2 DEF Replacing, Deleting, Without
            <4>7. pc[q] \notin {"recheck", "challenge", "mint"}
                BY <4>1, <4>2 DEF Replacing
            <4> QED
                BY <1>3, <4>3, <4>4, <4>5, <4>6, <4>7, ReplaceSteps
        <3> QED
            BY <1>g, <3>1, <3>2, <3>3
    <2> QED
        BY <1>3, <2>1, <2>2 DEF KeptOrBlank
<1> QED
    BY <1>1, <1>2, <1>3, RequestSteps

\* An answered refresh has replaced every token of its family that was stored
\* when it came in: RotationReplaces, for every number of requests, overlapping
\* rotations, rollbacks, time-outs and late inserts included.
THEOREM RotationsReplace == Spec => []RotationReplaces
<1> DEFINE Inv == BasicInv /\ ReferencesOK /\ FamiliesOK /\ ReplaceInv
<1>1. Init => Inv
    <2>1. Init => ReplaceInv
        BY DEF Init, ReplaceInv, Replacing, Blank
    <2> QED
        BY <2>1, InitBasic, InitReferences, InitFamilies
<1>2. Inv /\ [Next]_vars => Inv'
    BY NextBasic, NextReferences, NextFamilies, NextReplace
<1>3. Inv => RotationReplaces
    BY DEF ReplaceInv, Replacing, RotationReplaces, Accepted
<1> QED
    BY <1>1, <1>2, <1>3, PTL DEF Spec
=============================================================================
