---------------------------- MODULE AuthSessions ----------------------------
(* The session subsystem as a whole: requests arrive at the controller,    *)
(* pass the JWT guard where the route has one, run the services of the     *)
(* modules below one database call at a time, interleaved with one another *)
(* and with the clock, and are answered. Their order of arrival, the       *)
(* tokens they present and the faults they meet are arbitrary.             *)
EXTENDS TokensOrchestration

Init ==
    /\ now = 0
    /\ sess = NoRows /\ refresh = NoRows /\ jwt = NoRows
    /\ blk = {} /\ held = {}
    /\ pc = [r \in Requests |-> "new"]
    /\ fr = [r \in Requests |-> Blank]

(* Arrival (auth.controller.ts, auth.service.ts) *)

InFlight == {r \in Requests : pc[r] \notin {"new", "done"}}

Begin(r, op, step, frame) ==
    /\ pc[r] = "new" /\ op \in Operations
    /\ Cardinality(InFlight) < MaxInFlight
    /\ Turn(r, step, frame)
    /\ UNCHANGED <<now, store, held>>

\* The password (or the social profile) has been accepted.
BeginLogin(r, op, u, d) ==
    /\ op \in LoginOps
    /\ Begin(r, op, "count", [Blank EXCEPT !.op = op, !.user = u, !.dev = d])

\* The body names a user, with a valid code of that user's factor, and a
\* session. verifyMfaCode looks at the factor only: the session may be another
\* user's, may have ended, or may be none (s = None).
BeginCompleteMfa(r, u, s, d) ==
    /\ u \in MfaUsers
    /\ Begin(r, "completeMfa", "issue",
             [Blank EXCEPT !.op = "completeMfa", !.user = u, !.dev = d,
                           !.sid = s])

BeginRefresh(r, g, d) ==
    Begin(r, "refresh", "rotFind",
          [Blank EXCEPT !.op = "refresh", !.dev = d, !.g = g,
                        !.dead = ~IsActive(jwt[g].sid),
                        !.old = FamilyRows(jwt[g].fam)])

\* What the operation promises to end: its own session, the one it names, or
\* every active session of the user.
Targets(op, g, s) == CASE op = "logout" -> {jwt[g].sid}
                       [] op = "revoke" -> {s}
                       [] op \in {"logoutAll", "change"} ->
                              ActiveSessions(jwt[g].user)
                       [] OTHER -> {}

\* passport-jwt has verified signature and expiry of the access token.
BeginAuthed(r, op, g, s) ==
    /\ op \in AuthedOps
    /\ jwt[g].exp > now
    /\ Begin(r, op, "authBlk",
             [Blank EXCEPT
                !.op = op, !.user = jwt[g].user, !.g = g, !.sid = jwt[g].sid,
                !.todo = IF op \in {"logout", "revoke"} THEN Targets(op, g, s)
                                                        ELSE {},
                !.dead = ~IsActive(jwt[g].sid),
                !.black = g \in blk,
                !.live = {t \in Targets(op, g, s) : IsActive(t)}])

\* confirmPasswordReset, its token found valid.
BeginReset(r, u) ==
    Begin(r, "reset", "sweep",
          [Blank EXCEPT !.op = "reset", !.user = u, !.live = ActiveSessions(u)])

Arrive(r) ==
    \/ \E op \in LoginOps, u \in Users, d \in Devices : BeginLogin(r, op, u, d)
    \/ \E u \in Users, s \in Opt(DOMAIN sess), d \in Devices :
          BeginCompleteMfa(r, u, s, d)
    \/ \E g \in held, d \in Devices : BeginRefresh(r, g, d)
    \/ \E op \in AuthedOps, g \in held :
          \E s \in IF op = "revoke" THEN DOMAIN sess ELSE {None} :
              BeginAuthed(r, op, g, s)
    \/ \E u \in Users : BeginReset(r, u)

(* The JWT guard: JwtStrategy.validate *)

AuthBlacklist(r) ==
    /\ At(r, "authBlk")
    /\ \/ IsBlacklisted(fr[r].g) /\ Fail(r)
       \/ ~IsBlacklisted(fr[r].g) /\ Goto(r, "authSession")
    /\ UNCHANGED <<now, store, held>>

FirstStep(op) == CASE op \in {"logout", "logoutAll"} -> "blacklist"
                   [] op = "revoke" -> "findOwn"
                   [] op = "change" -> "sweep"
                   [] OTHER -> "ok"

\* Variants: a guard that trusts the signature alone, and one that asks for an
\* active session, whosever it is.
AuthSessionUnchecked(r) ==
    /\ At(r, "authSession")
    /\ Goto(r, FirstStep(fr[r].op))
    /\ UNCHANGED <<now, store, held>>

AuthSessionAnyUser(r) ==
    LET s == jwt[fr[r].g].sid
    IN /\ At(r, "authSession")
       /\ \/ ~IsActive(s) /\ Fail(r)
          \/ IsActive(s) /\ Goto(r, FirstStep(fr[r].op))
       /\ UNCHANGED <<now, store, held>>

AuthSession(r) ==
    LET s == jwt[fr[r].g].sid
        authentic == IsActive(s) /\ sess[s].user = jwt[fr[r].g].user
    IN /\ At(r, "authSession")
       /\ \/ ~authentic /\ Fail(r)
          \/ authentic /\ Goto(r, FirstStep(fr[r].op))
       /\ UNCHANGED <<now, store, held>>

(* Answers and faults *)

\* Variant: every answer carries tokens.
DeliverTokens(r) ==
    /\ pc[r] = "ok"
    /\ held' = held \cup {r}
    /\ Leave(r)
    /\ UNCHANGED <<now, store>>

\* The answer reaches the client, with the token pair if there is one.
Deliver(r) ==
    /\ pc[r] = "ok"
    /\ held' = held \cup ({r} \cap DOMAIN jwt)
    /\ Leave(r)
    /\ UNCHANGED <<now, store>>

\* The connection to the client breaks before the answer arrives.
Lose(r) ==
    /\ "lost" \in Faults /\ pc[r] = "ok"
    /\ Leave(r)
    /\ UNCHANGED <<now, store, held>>

\* A query fails: the database or the pool refuses it. What was committed
\* stays.
Throw(r) ==
    /\ "throw" \in Faults /\ r \in InFlight /\ pc[r] # "ok"
    /\ Fail(r)
    /\ UNCHANGED <<now, store, held>>

Tick ==
    /\ now < MaxTime
    /\ now' = now + 1
    /\ UNCHANGED <<store, held, pc, fr>>

(* The system *)

Rotate(r) == RotFind(r) \/ RotReject(r) \/ RotSession(r) \/ RotDelete(r)
             \/ RotLock(r) \/ RotInsert(r) \/ RotCommit(r) \/ RotLate(r)
Open(r)   == CountSessions(r) \/ FindOldest(r) \/ CreateSession(r) \/ Issue(r)
Reissue(r) == Recheck(r) \/ Challenge(r) \/ Mint(r)
End(r)    == Blacklist(r) \/ FindAll(r) \/ FindOwn(r) \/ InvStart(r)
             \/ InvCommit(r) \/ InvAgain(r) \/ Sweep(r) \/ SweepCommit(r)
Handle(r) == AuthBlacklist(r) \/ AuthSession(r) \/ Rotate(r) \/ Open(r)
             \/ Reissue(r) \/ End(r) \/ Deliver(r)

\* All requests are answered: nothing is left to happen.
Finished == (\A r \in Requests : pc[r] = "done") /\ UNCHANGED vars

Next ==
    \/ \E r \in Requests : Arrive(r) \/ Handle(r) \/ TxTimeout(r) \/ Lose(r)
                           \/ Throw(r)
    \/ Cleanup \/ Tick \/ Finished

Spec == Init /\ [][Next]_vars

\* The event loop and PostgreSQL serve every pending call, and Prisma's timer
\* fires for a transaction that stays open.
Fairness == \A r \in Requests : WF_vars(Handle(r)) /\ WF_vars(TxTimeout(r))

FairSpec == Spec /\ Fairness
-----------------------------------------------------------------------------
(* Properties *)

TablesOK ==
    /\ now \in Nat
    /\ DOMAIN sess \subseteq Requests
    /\ \A s \in DOMAIN sess : sess[s] \in SessionRow
    /\ DOMAIN refresh \subseteq Requests
    /\ \A g \in DOMAIN refresh : refresh[g] \in RefreshRow
    /\ DOMAIN jwt \subseteq Requests
    /\ \A g \in DOMAIN jwt : jwt[g] \in Jwt
    /\ blk \subseteq DOMAIN jwt
    /\ held \subseteq DOMAIN jwt

TypeOK ==
    TablesOK /\ pc \in [Requests -> Steps] /\ fr \in [Requests -> Frame]

Accepted(r) == pc[r] = "ok"

\* A request that presents a token, access or refresh, of a session that had
\* ended when it came in is never answered with success, whatever was in flight
\* when the session ended: neither the guard nor the rotation trusts a token row
\* or a read that predates the end. That includes the tokens signed after the
\* end: a completeMfa names a session without presenting a token of it, and is
\* answered with a pair on an ended session, or on somebody else's.
EndedTokensRefused == \A r \in Requests : Accepted(r) => ~fr[r].dead

\* When a logout, a revocation, a logout of all devices or a password change
\* or reset succeeds, every session it was asked to end, as they stood when
\* it came in, has ended -- although other requests rotate tokens, open and
\* end sessions meanwhile, and the loop ends one session at a time.
AnsweredRevocationHolds ==
    \A r \in Requests : Accepted(r) => \A s \in fr[r].live : ~IsActive(s)

\* A JWT blacklisted before a request came in is accepted only in the window
\* between passport's expiry check and the blacklist query: it has expired.
BlacklistIsFinal ==
    \A r \in Requests : Accepted(r) /\ fr[r].black => jwt[fr[r].g].exp <= now

\* While a session is active, a client that was given tokens for it finds a
\* refresh token of their family stored: no fault between the steps of a
\* rotation -- a throw, a timed-out transaction, a rejected device -- and no
\* other rotation of the family deletes the old row without a new one in place.
\* (Refresh tokens must outlive sessions.)
SessionKeepsToken ==
    RefreshTtl >= SessionTtl =>
        \A g \in held : IsActive(jwt[g].sid) => FamilyRows(jwt[g].fam) # {}

\* Rotation replaces: when a refresh is answered, no token of its family that
\* was stored when it came in is stored any more, neither the one presented nor
\* those that rolled back, timed out or late rotations have left behind, and
\* whichever other rotations of the family overlap. What is still stored comes
\* from this refresh or from one that was at work with it.
RotationReplaces ==
    \A r \in Requests :
        Accepted(r) /\ fr[r].op = "refresh" => fr[r].old \cap DOMAIN refresh = {}

\* MAX_ACTIVE_SESSIONS bounds the active sessions of a user.
WithinCap(u) == Cardinality(ActiveSessions(u)) <= MaxActiveSessions
SessionCap   == \A u \in Users : WithinCap(u)

\* No two logins of a user are between their count and their insert at once.
Opening(r) == fr[r].op \in LoginOps /\ pc[r] \notin {"issue", "ok"}
LoginsApart(u) ==
    \A q, r \in Requests :
        Opening(q) /\ Opening(r) /\ fr[q].user = u /\ fr[r].user = u => q = r

\* The race of the run capRace is the only way past the limit: a user whose
\* logins have never overlapped has no more than MAX_ACTIVE_SESSIONS active
\* sessions, whatever other requests end, expire or fail between the count, the
\* eviction and the insert of a login.
CapOnlyRaced == \A u \in Users : []LoginsApart(u) => []WithinCap(u)

\* No two rotations of a family are at work at once, a late insert included.
Rotating(r) == pc[r] \in RotationSteps \cup {"rotLate"}
RotationsApart ==
    \A q, r \in Requests :
        Rotating(q) /\ Rotating(r) /\ fr[q].fam = fr[r].fam => q = r

\* A token pair just answered is good for a refresh: its row is stored as long
\* as its session is active.
FreshTokenUsable ==
    \A r \in Requests :
        Accepted(r) /\ r \in DOMAIN jwt /\ IsActive(jwt[r].sid)
            => r \in DOMAIN refresh

\* A row just handed out is lost to an overlapping rotation of its family and to
\* nothing else: not to what a rolled back or timed out rotation has left, a
\* logout of another session, a rejected device or cleanup. (Refresh tokens must
\* outlive sessions.)
LossOnlyRaced ==
    RefreshTtl >= SessionTtl =>
        ([]RotationsApart => []FreshTokenUsable)

\* Only a request of its own user ends a session before its time: no eviction,
\* loop or sweep of one user's request, interleaved with another's, touches
\* the other's sessions.
OnlyOwnerEndsSession ==
    [][\A s \in DOMAIN sess \cap DOMAIN sess' :
          sess'[s].revoked /\ ~sess[s].revoked =>
              \E r \in InFlight : pc'[r] # pc[r] /\ fr[r].user = sess[s].user]_vars

\* All requests in flight are eventually answered, even when rotations, each
\* holding a connection and waiting for another, have drained the pool, and
\* others wait for the rows they lock. (A request is handled once, so none
\* can be overtaken forever by new ones.)
EveryRequestAnswered == InFlight # {} ~> InFlight = {}

\* The refinement mapping. A session has ended once its row is revoked, past
\* its expiry or gone; the identifier of a request that is past the point of
\* opening one counts as ended too. A request is accepted when its answer is
\* made, and presents the session of its JWT or refresh token.
NotYetOpened(p, f) ==
    p = "new" \/ (f.op \in LoginOps /\ p \notin {"issue", "ok"})

Status(s) == CASE IsActive(s)                  -> "active"
               [] NotYetOpened(pc[s], fr[s]) -> "none"
               [] OTHER                        -> "ended"
Phase(r)  == CASE pc[r] = "new"  -> "new"
               [] pc[r] = "ok"   -> "accepted"
               [] pc[r] = "done" -> "closed"
               [] OTHER          -> "arrived"
Presents(r) == IF fr[r].g = None THEN None ELSE jwt[fr[r].g].sid

Lifecycle == INSTANCE SessionLifecycle WITH
                 status <- [s \in Requests |-> Status(s)],
                 phase  <- [r \in Requests |-> Phase(r)],
                 on     <- [r \in Requests |-> Presents(r)],
                 dead   <- [r \in Requests |-> fr[r].dead],
                 live   <- [r \in Requests |-> fr[r].live]

\* The subsystem implements the abstract SessionLifecycle: through any step of
\* any handler, fault or clock tick, no ended session comes back and no
\* request is accepted that the abstract specification would refuse.
ImplementsLifecycle == Lifecycle!Spec
=============================================================================
