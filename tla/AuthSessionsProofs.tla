------------------------- MODULE AuthSessionsProofs -------------------------
(* Proofs about AuthSessions for every value of its constants.             *)
EXTENDS AuthInvariants, TLAPS

USE DEF Opt, LoginOps, AuthedOps, AllOps, AllFaults, TypeOK

\* The blank frame is a frame.
LEMMA BlankType == Blank \in Frame
BY DEF Blank, Frame

\* What most steps do to the control state: r alone moves, to a step and a
\* frame that fit each other.
Moves(r, p, f) == /\ p \in Steps \ {"new"} /\ f \in Frame /\ FrameOK(p, f)
                  /\ Turn(r, p, f)

LEMMA MovesType ==
    ASSUME NEW r \in Requests, NEW p, NEW f, TypeOK, FramesOK, Moves(r, p, f)
    PROVE  /\ pc' \in [Requests -> Steps] /\ fr' \in [Requests -> Frame]
           /\ FramesOK'
           /\ pc'[r] = p /\ fr'[r] = f
           /\ \A q \in Requests \ {r} : pc'[q] = pc[q] /\ fr'[q] = fr[q]
BY DEF Moves, FramesOK, Turn

LEMMA LeaveMoves ==
    ASSUME NEW r \in Requests, Leave(r)
    PROVE  Moves(r, "done", Blank)
BY BlankType, ConstantsAssumption
   DEF Leave, Moves, FrameOK, Steps, Blank, AfterFind, RotationSteps,
       InvalidateSteps, PasswordOps

\* Init establishes the type invariant and the frames' invariants.
LEMMA InitBasic == Init => BasicInv
<1> SUFFICES ASSUME Init PROVE BasicInv
    OBVIOUS
<1>1. TypeOK
    BY BlankType DEF Init, TablesOK, NoRows, Steps
<1>2. FramesOK
    BY ConstantsAssumption
    DEF Init, FramesOK, FrameOK, Blank, AfterFind, RotationSteps,
           InvalidateSteps, PasswordOps
<1>3. PresentsKnown
    BY ConstantsAssumption DEF Init, PresentsKnown, Blank
<1> QED
    BY <1>1, <1>2, <1>3 DEF BasicInv

\* Every action of a handler moves its request, and only it, to a step and a
\* frame that fit each other, and changes nothing of what the request came in
\* with: the control flow of the code.
Kept(e, f) ==
    /\ f.op = e.op /\ f.g = e.g /\ f.dead = e.dead /\ f.black = e.black
    /\ f.live = e.live /\ f.old = e.old /\ (e.op # "refresh" => f.user = e.user)
    /\ f.at \in {e.at, 0, now}

KeptOrBlank(r, p, f) == (p = "done" /\ f = Blank) \/ Kept(fr[r], f)

CtlMoves(r) == \E p, f : Moves(r, p, f) /\ KeptOrBlank(r, p, f)

LEMMA HandleMoves ==
    ASSUME NEW r \in Requests, BasicInv, Handle(r)
    PROVE  CtlMoves(r)
<1> USE ConstantsAssumption
    DEF BasicInv, Steps, RotationSteps, BatchSteps, AfterFind, InvalidateSteps,
        PasswordOps, RevokeOps, SweepOps
<1>f. pc[r] \in Steps /\ fr[r] \in Frame /\ FrameOK(pc[r], fr[r])
    BY DEF FramesOK
<1>l. Leave(r) => CtlMoves(r)
    BY LeaveMoves DEF CtlMoves, KeptOrBlank
<1>t. ASSUME NEW p \in Steps \ {"new"}, NEW f \in Frame, Turn(r, p, f), FrameOK(p, f),
             Kept(fr[r], f)
      PROVE  CtlMoves(r)
    BY <1>t DEF Moves, CtlMoves, KeptOrBlank
<1>g. ASSUME NEW p \in Steps \ {"new"}, Goto(r, p), FrameOK(p, fr[r])
      PROVE  CtlMoves(r)
    <2>1. Turn(r, p, fr[r]) /\ Kept(fr[r], fr[r])
        BY <1>g DEF Goto, Turn, Kept
    <2> QED
        BY <1>f, <1>t, <1>g, <2>1
<1>1. CASE AuthBlacklist(r)
    BY <1>f, <1>l, <1>g, <1>1 DEF AuthBlacklist, Fail, At, FrameOK
<1>2. CASE AuthSession(r)
    BY <1>f, <1>l, <1>g, <1>2 DEF AuthSession, Fail, FirstStep, At, FrameOK
<1>3. CASE RotReject(r)
    BY <1>f, <1>l, <1>g, <1>3 DEF RotReject, Fail, At, FrameOK
<1>4. CASE RotSession(r)
    BY <1>f, <1>l, <1>g, <1>4 DEF RotSession, At, FrameOK
<1>5. CASE RotInsert(r)
    BY <1>f, <1>l, <1>g, <1>5 DEF RotInsert, Fail, At, FrameOK
<1>6. CASE CountSessions(r)
    <2> DEFINE f == [fr[r] EXCEPT !.at = now]
    <2>1. f \in Frame /\ Kept(fr[r], f)
        BY <1>f DEF Frame, Kept, TablesOK
    <2>2. FrameOK("oldest", f) /\ FrameOK("create", fr[r])
        BY <1>f, <1>6 DEF CountSessions, At, FrameOK, Frame
    <2>3. Turn(r, "oldest", f) \/ Goto(r, "create")
        BY <1>6 DEF CountSessions
    <2> HIDE DEF f
    <2> QED
        BY <1>t, <1>g, <2>1, <2>2, <2>3
<1>7. CASE Issue(r)
    BY <1>f, <1>l, <1>g, <1>7 DEF Issue, Fail, At, FrameOK
<1>8. CASE Recheck(r)
    BY <1>f, <1>l, <1>g, <1>8 DEF Recheck, Fail, At, FrameOK
<1>9. CASE Challenge(r)
    BY <1>f, <1>l, <1>g, <1>9 DEF Challenge, Fail, At, FrameOK
<1>10. CASE Mint(r)
    BY <1>f, <1>l, <1>g, <1>10 DEF Mint, At, FrameOK
<1>11. CASE Blacklist(r)
    <2> DEFINE f == [fr[r] EXCEPT !.at = now]
    <2>1. f \in Frame /\ Kept(fr[r], f)
        BY <1>f DEF Frame, Kept, TablesOK
    <2>2. /\ fr[r].op = "logoutAll" => FrameOK("findAll", f)
          /\ FrameOK("inv", fr[r])
        BY <1>f, <1>11 DEF Blacklist, At, FrameOK, Frame
    <2>3. \/ Leave(r) \/ Goto(r, "inv")
          \/ fr[r].op = "logoutAll" /\ Turn(r, "findAll", f)
        BY <1>11 DEF Blacklist, Fail
    <2> HIDE DEF f
    <2> QED
        BY <1>t, <1>g, <1>l, <2>1, <2>2, <2>3
<1>12. CASE FindOwn(r)
    BY <1>f, <1>l, <1>g, <1>12 DEF FindOwn, Fail, At, FrameOK
<1>13. CASE InvAgain(r)
    BY <1>f, <1>l, <1>g, <1>13 DEF InvAgain, Fail, AfterInvalidation, At, FrameOK
<1>14. CASE RotLate(r)
    BY <1>f, <1>l, <1>g, <1>14 DEF RotLate, Fail, At, FrameOK
<1>15. CASE Deliver(r)
    BY <1>f, <1>l, <1>g, <1>15 DEF Deliver, At, FrameOK
<1>16. CASE RotDelete(r)
    <2> DEFINE f == [fr[r] EXCEPT !.snap = FamilyRows(fr[r].fam)]
    <2>1. f \in Frame /\ Kept(fr[r], f)
        BY <1>f DEF Frame, Kept, TablesOK, FamilyRows
    <2>2. FrameOK("rotLock", f)
        BY <1>f, <1>16 DEF RotDelete, At, FrameOK, Frame
    <2>3. Turn(r, "rotLock", f)
        BY <1>16 DEF RotDelete
    <2> HIDE DEF f
    <2> QED
        BY <1>t, <2>1, <2>2, <2>3
<1>17. CASE RotLock(r)
    <2> DEFINE f == [fr[r] EXCEPT !.del = fr[r].snap \cap DOMAIN refresh,
                             !.snap = {}]
    <2>1. f \in Frame /\ Kept(fr[r], f)
        BY ZenonT(40), <1>f DEF Frame, Kept, TablesOK
    <2>2. FrameOK("rotInsert", f)
        BY <1>f, <1>17 DEF RotLock, At, FrameOK, Frame
    <2>3. Turn(r, "rotInsert", f)
        BY <1>17 DEF RotLock
    <2> HIDE DEF f
    <2> QED
        BY <1>t, <2>1, <2>2, <2>3
<1>18. CASE RotCommit(r)
    <2> DEFINE f == [fr[r] EXCEPT !.del = {}]
    <2>1. f \in Frame /\ Kept(fr[r], f)
        BY <1>f DEF Frame, Kept, TablesOK
    <2>2. FrameOK("recheck", f)
        BY <1>f, <1>18 DEF RotCommit, At, FrameOK, Frame
    <2>3. Turn(r, "recheck", f)
        BY <1>18 DEF RotCommit
    <2> HIDE DEF f
    <2> QED
        BY <1>t, <2>1, <2>2, <2>3
<1>19. CASE InvCommit(r)
    <2> DEFINE f == [fr[r] EXCEPT !.snap = {}]
    <2>1. f \in Frame /\ Kept(fr[r], f)
        BY <1>f DEF Frame, Kept, TablesOK
    <2>2. FrameOK("invAgain", f)
        BY <1>f, <1>19 DEF InvCommit, At, FrameOK, Frame
    <2>3. Turn(r, "invAgain", f)
        BY <1>19 DEF InvCommit
    <2> HIDE DEF f
    <2> QED
        BY <1>t, <2>1, <2>2, <2>3
<1>20. CASE SweepCommit(r)
    <2> DEFINE f == [fr[r] EXCEPT !.todo = {}]
    <2>1. f \in Frame /\ Kept(fr[r], f)
        BY <1>f DEF Frame, Kept, TablesOK
    <2>2. FrameOK("ok", f)
        BY <1>f, <1>20 DEF SweepCommit, At, FrameOK, Frame
    <2>3. Turn(r, "ok", f)
        BY <1>20 DEF SweepCommit
    <2> HIDE DEF f
    <2> QED
        BY <1>t, <2>1, <2>2, <2>3
<1>21. CASE Sweep(r)
    <2> DEFINE f == [fr[r] EXCEPT
                    !.todo = {s \in DOMAIN sess : sess[s].user = fr[r].user}]
    <2>1. f \in Frame /\ Kept(fr[r], f)
        BY <1>f DEF Frame, Kept, TablesOK
    <2>2. FrameOK("sweepCommit", f)
        BY <1>f, <1>21 DEF Sweep, At, FrameOK, Frame
    <2>3. Turn(r, "sweepCommit", f)
        BY <1>21 DEF Sweep
    <2> HIDE DEF f
    <2> QED
        BY <1>t, <2>1, <2>2, <2>3
<1>22. CASE FindAll(r)
    <2> DEFINE f == [fr[r] EXCEPT !.todo = ActiveAt(fr[r].at, fr[r].user),
                                  !.at = 0]
               p == IF ActiveAt(fr[r].at, fr[r].user) = {} THEN "ok" ELSE "inv"
    <2>1. f \in Frame /\ Kept(fr[r], f)
        BY ZenonT(40), <1>f DEF Frame, Kept, TablesOK, ActiveSessions, ActiveAt
    <2>2. FrameOK(p, f)
        BY <1>f, <1>22 DEF FindAll, At, FrameOK, Frame
    <2>3. Turn(r, p, f)
        BY <1>22 DEF FindAll
    <2>4. p \in Steps \ {"new"}
        OBVIOUS
    <2> HIDE DEF f, p
    <2> QED
        BY <1>t, <2>1, <2>2, <2>3, <2>4
<1>23. CASE CreateSession(r)
    <2> DEFINE f == [fr[r] EXCEPT !.sid = r]
               p == IF fr[r].op = "login" /\ fr[r].user \in MfaUsers
                    THEN "ok" ELSE "issue"
    <2>1. f \in Frame /\ Kept(fr[r], f)
        BY <1>f DEF Frame, Kept
    <2>2. FrameOK(p, f)
        BY <1>f, <1>23 DEF CreateSession, At, FrameOK, Frame
    <2>3. Turn(r, p, f)
        BY <1>23 DEF CreateSession
    <2>4. p \in Steps \ {"new"}
        OBVIOUS
    <2> HIDE DEF f, p
    <2> QED
        BY <1>t, <2>1, <2>2, <2>3, <2>4
<1>24. CASE RotFind(r)
    <2>1. CASE fr[r].g \notin DOMAIN refresh
        BY <1>l, <1>24, <2>1 DEF RotFind, Fail
    <2>2. CASE fr[r].g \in DOMAIN refresh
        <3> DEFINE row == refresh[fr[r].g]
                   f == [fr[r] EXCEPT !.user = row.user, !.sid = row.sid,
                                      !.fam = row.fam]
                   p == IF row.dev = fr[r].dev THEN "rotSession"
                                               ELSE "rotReject"
        <3>1. row \in RefreshRow
            BY <2>2 DEF TablesOK
        <3>2. f \in Frame /\ Kept(fr[r], f)
            BY <1>f, <1>24, <3>1
            DEF Frame, RefreshRow, Kept, RotFind, At, FrameOK
        <3>3. FrameOK(p, f)
            BY <1>f, <1>24, <3>1 DEF RotFind, At, RefreshRow, Frame, FrameOK
        <3>4. Turn(r, p, f)
            BY <1>24, <2>2 DEF RotFind
        <3>5. p \in Steps \ {"new"}
            OBVIOUS
        <3> HIDE DEF f, p
        <3> QED
            BY <1>t, <3>2, <3>3, <3>4, <3>5
    <2> QED
        BY <2>1, <2>2
<1>25. CASE FindOldest(r)
    <2>1. CASE Goto(r, "create")
        BY <1>f, <1>g, <1>25, <2>1 DEF FindOldest, At, FrameOK
    <2>2. ASSUME NEW s \in ActiveAt(fr[r].at, fr[r].user),
                 Turn(r, "inv", [fr[r] EXCEPT !.todo = {s}, !.at = 0])
          PROVE  CtlMoves(r)
        <3> DEFINE S == {s}
                   f == [fr[r] EXCEPT !.todo = S, !.at = 0]
        <3>0. S \in SUBSET Requests
            BY <2>2 DEF TablesOK, ActiveAt
        <3>1. f \in Frame /\ Kept(fr[r], f)
            <4> HIDE DEF S
            <4> QED
                BY ZenonT(40), <1>f, <3>0 DEF Frame, Kept
        <3>2. FrameOK("inv", f)
            BY <1>f, <1>25 DEF FindOldest, At, FrameOK, Frame
        <3>3. Turn(r, "inv", f)
            BY <2>2
        <3> HIDE DEF f
        <3> QED
            BY <1>t, <3>1, <3>2, <3>3
    <2> QED
        BY <1>25, <2>1, <2>2 DEF FindOldest
<1>26. CASE InvStart(r)
    <2>1. ASSUME NEW s \in fr[r].todo,
                 Turn(r, "invCommit",
                      [fr[r] EXCEPT !.sid = s, !.todo = @ \ {s},
                                    !.snap = SessionRows(s)])
          PROVE  CtlMoves(r)
        <3> DEFINE f == [fr[r] EXCEPT !.sid = s, !.todo = @ \ {s},
                                      !.snap = SessionRows(s)]
        <3>1. f \in Frame /\ Kept(fr[r], f)
            BY ZenonT(40), <1>f DEF Frame, Kept, TablesOK, SessionRows
        <3>2. FrameOK("invCommit", f)
            BY <1>f, <1>26 DEF InvStart, At, FrameOK, Frame
        <3>3. Turn(r, "invCommit", f)
            BY <2>1
        <3> HIDE DEF f
        <3> QED
            BY <1>t, <3>1, <3>2, <3>3
    <2> QED
        BY <1>l, <1>26, <2>1 DEF InvStart, Fail
<1> QED
    BY <1>1, <1>2, <1>3, <1>4, <1>5, <1>6, <1>7, <1>8, <1>9, <1>10,
       <1>11, <1>12, <1>13, <1>14, <1>15, <1>16, <1>17, <1>18, <1>19, <1>20,
       <1>21, <1>22, <1>23, <1>24, <1>25, <1>26
    DEF Handle, Rotate, Open, Reissue, End

\* So does every fault.
LEMMA FaultMoves ==
    ASSUME NEW r \in Requests, BasicInv, TxTimeout(r) \/ Lose(r) \/ Throw(r)
    PROVE  CtlMoves(r)
<1>l. Leave(r) => CtlMoves(r)
    BY LeaveMoves DEF CtlMoves, KeptOrBlank
<1>1. CASE Leave(r)
    BY <1>l, <1>1
<1>2. CASE pc[r] = "rotInsert"
           /\ Turn(r, "rotLate", [fr[r] EXCEPT !.del = {}])
    <2> DEFINE f == [fr[r] EXCEPT !.del = {}]
    <2>1. fr[r] \in Frame /\ FrameOK("rotInsert", fr[r])
        BY <1>2 DEF BasicInv, TablesOK, FramesOK
    <2>2. f \in Frame /\ Kept(fr[r], f)
        BY <2>1 DEF Frame, Kept
    <2>3. FrameOK("rotLate", f)
        BY <2>1 DEF Frame, FrameOK, AfterFind, RotationSteps, InvalidateSteps
    <2> QED
        BY <1>2, <2>2, <2>3 DEF CtlMoves, KeptOrBlank, Moves, Steps
<1> QED
    BY <1>1, <1>2 DEF TxTimeout, Lose, Throw, Fail

\* A request that arrives gets a frame that fits its first step, and presents
\* a token pair its client was given.
LEMMA ArriveMoves ==
    ASSUME NEW r \in Requests, BasicInv, Arrive(r)
    PROVE  \E p, f : /\ Moves(r, p, f)
                     /\ f.op \in AuthedOps \cup {"refresh"} => f.g \in held
<1> USE ConstantsAssumption DEF BasicInv, Begin, Moves
<1> DEFINE Goal == \E p, f : /\ Moves(r, p, f)
                             /\ f.op \in AuthedOps \cup {"refresh"} => f.g \in held
<1>1. ASSUME NEW op \in LoginOps, NEW u \in Users, NEW d \in Devices,
             BeginLogin(r, op, u, d)
      PROVE  Goal
    <2> DEFINE f == [Blank EXCEPT !.op = op, !.user = u, !.dev = d]
    <2>1. f \in Frame /\ f.op = op
        BY BlankType DEF Frame, Blank
    <2>2. FrameOK("count", f)
        BY DEF FrameOK, Blank, AfterFind, RotationSteps, InvalidateSteps
    <2> QED
        BY <1>1, <2>1, <2>2 DEF BeginLogin, Steps
<1>2. ASSUME NEW u \in Users, NEW s \in Opt(DOMAIN sess), NEW d \in Devices,
             BeginCompleteMfa(r, u, s, d)
      PROVE  Goal
    <2> DEFINE f == [Blank EXCEPT !.op = "completeMfa", !.user = u,
                                  !.dev = d, !.sid = s]
    <2>0. s \in Opt(Requests)
        BY DEF TablesOK
    <2>1. f \in Frame /\ f.op = "completeMfa"
        BY <2>0, BlankType DEF Frame, Blank
    <2>2. FrameOK("issue", f)
        BY <2>0 DEF FrameOK, Blank, AfterFind, RotationSteps, InvalidateSteps,
                    PasswordOps
    <2> QED
        BY <1>2, <2>1, <2>2 DEF BeginCompleteMfa, Steps
<1>3. ASSUME NEW g \in held, NEW d \in Devices, BeginRefresh(r, g, d)
      PROVE  Goal
    <2> DEFINE f == [Blank EXCEPT !.op = "refresh", !.dev = d, !.g = g,
                                  !.dead = ~IsActive(jwt[g].sid),
                                  !.old = FamilyRows(jwt[g].fam)]
    <2>0. g \in Requests /\ FamilyRows(jwt[g].fam) \in SUBSET Requests
        BY DEF TablesOK, FamilyRows
    <2>1. f \in Frame /\ f.op = "refresh" /\ f.g = g
        BY <2>0, BlankType DEF Frame, Blank
    <2>2. FrameOK("rotFind", f)
        BY DEF FrameOK, Blank, AfterFind, RotationSteps, InvalidateSteps,
               PasswordOps
    <2>3. Turn(r, "rotFind", f) /\ "rotFind" \in Steps
        BY <1>3 DEF BeginRefresh, Steps
    <2>4. f.op \in AuthedOps \cup {"refresh"} => f.g \in held
        BY <2>1
    <2> HIDE DEF f
    <2> QED
        BY <2>1, <2>2, <2>3, <2>4
<1>4. ASSUME NEW op \in AuthedOps, NEW g \in held,
             NEW s \in DOMAIN sess \cup {None}, op = "revoke" => s \in DOMAIN sess,
             BeginAuthed(r, op, g, s)
      PROVE  Goal
    <2> DEFINE T == Targets(op, g, s)
               f == [Blank EXCEPT
                !.op = op, !.user = jwt[g].user, !.g = g, !.sid = jwt[g].sid,
                !.todo = IF op \in {"logout", "revoke"} THEN T ELSE {},
                !.dead = ~IsActive(jwt[g].sid),
                !.black = g \in blk,
                !.live = {t \in T : IsActive(t)}]
    <2>0. g \in Requests /\ jwt[g] \in Jwt
        BY DEF TablesOK
    <2>1. T \subseteq Requests
        BY <1>4, <2>0 DEF Targets, TablesOK, ActiveSessions, ActiveAt, Jwt
    <2>2. f \in Frame /\ f.op = op /\ f.g = g
        <3> DEFINE todo == IF op \in {"logout", "revoke"} THEN T ELSE {}
                   live == {t \in T : IsActive(t)}
                   dead == ~IsActive(jwt[g].sid)
                   black == g \in blk
        <3>1. todo \in SUBSET Requests /\ live \in SUBSET Requests
            BY <2>1
        <3>2. dead \in BOOLEAN /\ black \in BOOLEAN
            OBVIOUS
        <3>3. jwt[g].user \in Users /\ jwt[g].sid \in Requests
            BY <2>0 DEF Jwt
        <3>4. f = [Blank EXCEPT
                     !.op = op, !.user = jwt[g].user, !.g = g,
                     !.sid = jwt[g].sid, !.todo = todo, !.dead = dead,
                     !.black = black, !.live = live]
            OBVIOUS
        <3> HIDE DEF todo, live, dead, black, T, f
        <3> QED
            BY ZenonT(40), <2>0, <3>1, <3>2, <3>3, <3>4 DEF Frame, Blank
    <2>3. FrameOK("authBlk", f)
        <3> HIDE DEF T
        <3> QED
            BY DEF FrameOK, Blank, AfterFind, RotationSteps, InvalidateSteps,
                   PasswordOps
    <2>4. Turn(r, "authBlk", f)
        BY <1>4 DEF BeginAuthed
    <2> HIDE DEF f
    <2> QED
        BY <2>2, <2>3, <2>4 DEF Steps
<1>5. ASSUME NEW u \in Users, BeginReset(r, u)
      PROVE  Goal
    <2> DEFINE f == [Blank EXCEPT !.op = "reset", !.user = u,
                                  !.live = ActiveSessions(u)]
    <2>1. f \in Frame /\ f.op = "reset"
        BY BlankType DEF Frame, Blank, ActiveSessions, ActiveAt, TablesOK
    <2>2. FrameOK("sweep", f)
        BY DEF FrameOK, Blank, AfterFind, RotationSteps, InvalidateSteps,
               PasswordOps, SweepOps
    <2> QED
        BY <1>5, <2>1, <2>2 DEF BeginReset, Steps
<1> QED
    BY <1>1, <1>2, <1>3, <1>4, <1>5 DEF Arrive
\* Every step of a handler keeps the tables well formed and forgets no JWT.
LEMMA HandleTables ==
    ASSUME NEW r \in Requests, BasicInv, Handle(r)
    PROVE  TablesOK' /\ DOMAIN jwt \subseteq DOMAIN jwt'
<1> USE ConstantsAssumption DEF BasicInv
<1> DEFINE Goal == TablesOK' /\ DOMAIN jwt \subseteq DOMAIN jwt'
<1>f. fr[r] \in Frame /\ FrameOK(pc[r], fr[r]) /\ TablesOK
    BY DEF FramesOK
<1>u. ASSUME UNCHANGED <<now, store, held>>
      PROVE  Goal
    BY <1>f, <1>u DEF TablesOK, store
<1>n. ASSUME NEW v \in RefreshRow, refresh' = Put(refresh, r, v),
             UNCHANGED <<now, sess, jwt, blk, held>>
      PROVE  Goal
    BY <1>f, <1>n DEF TablesOK, Put
<1>d. ASSUME NEW S, refresh' = Without(refresh, S),
             UNCHANGED <<now, sess, jwt, blk, held>>
      PROVE  Goal
    BY <1>f, <1>d DEF TablesOK, Without
<1>v. ASSUME NEW s, sess' = [sess EXCEPT ![s].revoked = TRUE]
      PROVE  DOMAIN sess' = DOMAIN sess /\ \A t \in DOMAIN sess' : sess'[t] \in SessionRow
    BY ZenonT(40), <1>f, <1>v DEF TablesOK, SessionRow
<1>r. pc[r] \in AfterFind =>
          NewRefresh(fr[r].user, fr[r].sid, fr[r].fam, fr[r].dev) \in RefreshRow
    BY <1>f DEF FrameOK, NewRefresh, RefreshRow, TablesOK
<1>1. CASE RotInsert(r)
    BY <1>n, <1>r, <1>u, <1>1 DEF RotInsert, InsertRotated, AfterFind, RotationSteps, store
<1>2. CASE RotLate(r)
    BY <1>n, <1>r, <1>u, <1>2 DEF RotLate, InsertRotated, AfterFind, At, store
<1>3. CASE RotCommit(r)
    BY <1>d, <1>3 DEF RotCommit
<1>4. CASE Blacklist(r)
    BY <1>f, <1>4 DEF Blacklist, TablesOK, PresentsKnown, At, FrameOK, RevokeOps
<1>5. CASE InvCommit(r)
    <2>1. DOMAIN sess' = DOMAIN sess /\ \A t \in DOMAIN sess' : sess'[t] \in SessionRow
        BY <1>v, <1>5 DEF InvCommit
    <2> QED
        BY <1>f, <1>5, <2>1 DEF InvCommit, TablesOK, Without
<1>6. CASE InvAgain(r)
    <2>1. CASE sess' = sess
        BY <1>u, <1>6, <2>1 DEF InvAgain, store
    <2>2. CASE sess' = [sess EXCEPT ![fr[r].sid].revoked = TRUE]
        <3>1. DOMAIN sess' = DOMAIN sess /\ \A t \in DOMAIN sess' : sess'[t] \in SessionRow
            BY <1>v, <2>2
        <3> QED
            BY <1>f, <1>6, <3>1 DEF InvAgain, TablesOK
    <2> QED
        BY <1>6, <2>1, <2>2 DEF InvAgain
<1>7. CASE CreateSession(r)
    <2> DEFINE row == [user |-> fr[r].user, dev |-> fr[r].dev,
                       exp |-> now + SessionTtl, revoked |-> FALSE,
                       older |-> DOMAIN sess]
    <2>1. row \in SessionRow
        BY <1>f, <1>7 DEF SessionRow, CreateSession, At, FrameOK, TablesOK, PasswordOps
    <2>2. sess' = Put(sess, r, row)
        BY <1>7 DEF CreateSession
    <2> HIDE DEF row
    <2> QED
        BY <1>f, <1>7, <2>1, <2>2 DEF CreateSession, TablesOK, Put
<1>8. CASE SweepCommit(r)
    <2>1. DOMAIN sess' = DOMAIN sess /\ \A t \in DOMAIN sess' : sess'[t] \in SessionRow
        BY ZenonT(40), <1>f, <1>8 DEF SweepCommit, TablesOK, SessionRow
    <2> QED
        BY <1>f, <1>8, <2>1 DEF SweepCommit, TablesOK
<1>9. CASE Issue(r)
    <2>1. CASE UNCHANGED <<refresh, jwt>>
        BY <1>u, <1>9, <2>1 DEF Issue, store
    <2>2. CASE /\ refresh' = Put(refresh, r, NewRefresh(fr[r].user, fr[r].sid, r, fr[r].dev))
               /\ jwt' = Put(jwt, r, NewJwt(fr[r].user, fr[r].sid, r))
               /\ fr[r].sid \in DOMAIN sess
        <3>1. NewRefresh(fr[r].user, fr[r].sid, r, fr[r].dev) \in RefreshRow
            BY <1>f, <1>9, <2>2
            DEF Issue, At, FrameOK, NewRefresh, RefreshRow, TablesOK, PasswordOps
        <3>2. NewJwt(fr[r].user, fr[r].sid, r) \in Jwt
            BY <1>f, <1>9, <2>2 DEF Issue, At, FrameOK, NewJwt, Jwt, TablesOK, PasswordOps
        <3> QED
            BY <1>f, <1>9, <2>2, <3>1, <3>2 DEF Issue, TablesOK, Put
    <2> QED
        BY <1>9, <2>1, <2>2 DEF Issue
<1>10. CASE Mint(r)
    <2>1. NewJwt(fr[r].user, fr[r].sid, fr[r].fam) \in Jwt
        BY <1>f, <1>10 DEF Mint, At, FrameOK, NewJwt, Jwt, TablesOK, AfterFind
    <2> QED
        BY <1>f, <1>10, <2>1 DEF Mint, TablesOK, Put
<1>11. CASE Deliver(r)
    BY <1>f, <1>11 DEF Deliver, TablesOK, store
<1>12. CASE AuthBlacklist(r) \/ AuthSession(r) \/ RotFind(r) \/ RotReject(r)
            \/ RotSession(r) \/ RotDelete(r) \/ RotLock(r)
    BY <1>u, <1>12 DEF AuthBlacklist, AuthSession, RotFind, RotReject, RotSession,
                       RotDelete, RotLock
<1>13. CASE CountSessions(r) \/ FindOldest(r) \/ Recheck(r) \/ Challenge(r)
            \/ FindAll(r) \/ FindOwn(r) \/ InvStart(r) \/ Sweep(r)
    BY <1>u, <1>13 DEF CountSessions, FindOldest, Recheck, Challenge, FindAll,
                       FindOwn, InvStart, Sweep
<1> QED
    BY <1>1, <1>2, <1>3, <1>4, <1>5, <1>6, <1>7, <1>8, <1>9, <1>10, <1>11,
       <1>12, <1>13 DEF Handle, Rotate, Open, Reissue, End
\* The basic invariant is inductive.
LEMMA NextBasic == BasicInv /\ [Next]_vars => BasicInv'
<1> SUFFICES ASSUME BasicInv, [Next]_vars
             PROVE  BasicInv'
    OBVIOUS
<1> USE DEF BasicInv
<1>1. ASSUME NEW r \in Requests, NEW p, NEW f, Moves(r, p, f), TablesOK',
             DOMAIN jwt \subseteq DOMAIN jwt',
             f.op \in AuthedOps \cup {"refresh"} => f.g \in DOMAIN jwt
      PROVE  BasicInv'
    <2>1. /\ pc' \in [Requests -> Steps] /\ fr' \in [Requests -> Frame]
          /\ FramesOK' /\ fr'[r] = f
          /\ \A q \in Requests \ {r} : fr'[q] = fr[q]
        BY <1>1, MovesType
    <2>2. PresentsKnown'
        BY <1>1, <2>1 DEF PresentsKnown
    <2> QED
        BY <1>1, <2>1, <2>2
<1>2. ASSUME NEW r \in Requests, CtlMoves(r), TablesOK',
             DOMAIN jwt \subseteq DOMAIN jwt'
      PROVE  BasicInv'
    <2>1. PICK p, f : Moves(r, p, f) /\ KeptOrBlank(r, p, f)
        BY <1>2 DEF CtlMoves
    <2>2. f.op \in AuthedOps \cup {"refresh"} => f.g \in DOMAIN jwt
        BY <2>1, ConstantsAssumption
        DEF Kept, KeptOrBlank, PresentsKnown, Blank
    <2>3. Moves(r, p, f)
        BY <2>1
    <2> HIDE DEF BasicInv, TypeOK
    <2> QED
        BY <1>1, <1>2, <2>2, <2>3
<1>3. ASSUME NEW r \in Requests, Arrive(r)
      PROVE  BasicInv'
    <2>1. PICK p, f : /\ Moves(r, p, f)
                      /\ f.op \in AuthedOps \cup {"refresh"} => f.g \in held
        BY <1>3, ArriveMoves
    <2>2. UNCHANGED <<now, store, held>>
        BY <1>3 DEF Arrive, BeginLogin, BeginCompleteMfa, BeginRefresh,
                    BeginAuthed, BeginReset, Begin
    <2>3. TablesOK' /\ held \subseteq DOMAIN jwt /\ jwt' = jwt
        BY <2>2 DEF TablesOK, store
    <2> QED
        BY <1>1, <2>1, <2>3
<1>4. ASSUME NEW r \in Requests, Handle(r)
      PROVE  BasicInv'
    BY <1>2, <1>4, HandleMoves, HandleTables
<1>5. ASSUME NEW r \in Requests, TxTimeout(r) \/ Lose(r) \/ Throw(r)
      PROVE  BasicInv'
    <2>1. TablesOK' /\ jwt' = jwt
        BY <1>5 DEF TxTimeout, Lose, Throw, TablesOK, store
    <2> QED
        BY <1>2, <1>5, <2>1, FaultMoves
<1>6. CASE Cleanup
    BY <1>6 DEF Cleanup, TablesOK, Without, FramesOK, PresentsKnown
<1>7. CASE Tick
    BY <1>7 DEF Tick, TablesOK, FramesOK, PresentsKnown, store
<1>8. CASE UNCHANGED vars
    BY <1>8 DEF vars, TablesOK, FramesOK, PresentsKnown
<1> QED
    BY <1>3, <1>4, <1>5, <1>6, <1>7, <1>8 DEF Next, Finished

\* Every behaviour keeps the tables and the frames well formed: the type
\* invariant, with what each step of each handler finds in its frame.
THEOREM BasicInvariant == Spec => []BasicInv
BY InitBasic, NextBasic, PTL DEF Spec

THEOREM TypeCorrect == Spec => []TypeOK
<1>1. BasicInv => TypeOK
    BY DEF BasicInv
<1> QED
    BY <1>1, BasicInvariant, PTL
-----------------------------------------------------------------------------
(* What a step may do to each table and to the requests, for the invariants *)
(* that relate them.                                                        *)

\* Rows of sessions never come back to life: a row after a step was there
\* before, for the same user and at least as revoked, or a login has inserted
\* it in this step.
LEMMA SessionSteps ==
    ASSUME BasicInv, [Next]_vars
    PROVE  /\ now' >= now
           /\ \A s \in DOMAIN sess' :
                \/ /\ s \in DOMAIN sess
                   /\ sess'[s].user = sess[s].user /\ sess'[s].exp = sess[s].exp
                   /\ sess[s].revoked => sess'[s].revoked
                \/ pc[s] = "create" /\ pc'[s] \in {"ok", "issue"}
<1> DEFINE Goal ==
        /\ now' >= now
        /\ \A s \in DOMAIN sess' :
             \/ /\ s \in DOMAIN sess
                /\ sess'[s].user = sess[s].user /\ sess'[s].exp = sess[s].exp
                /\ sess[s].revoked => sess'[s].revoked
             \/ pc[s] = "create" /\ pc'[s] \in {"ok", "issue"}
<1> USE DEF BasicInv, TablesOK, SessionRow
<1>u. ASSUME UNCHANGED <<now, sess>> PROVE Goal
    BY <1>u
<1>1. ASSUME NEW r \in Requests, Handle(r) PROVE Goal
    <2>1. CASE CreateSession(r)
        BY <2>1 DEF CreateSession, At, Put, Turn
    <2>2. CASE InvCommit(r)
        BY <2>2 DEF InvCommit
    <2>3. CASE InvAgain(r)
        BY <2>3 DEF InvAgain
    <2>4. CASE SweepCommit(r)
        BY <2>4 DEF SweepCommit
    <2>5. CASE \/ Rotate(r) \/ Reissue(r) \/ AuthBlacklist(r) \/ AuthSession(r)
               \/ Deliver(r)
        BY <1>u, <2>5
        DEF Rotate, Reissue, AuthBlacklist, AuthSession, Deliver, RotFind, RotReject,
            RotSession, RotDelete, RotLock, RotInsert, RotCommit, RotLate, Recheck,
            Challenge, Mint, store
    <2>6. CASE \/ CountSessions(r) \/ FindOldest(r) \/ Issue(r) \/ Blacklist(r)
               \/ FindAll(r) \/ FindOwn(r) \/ InvStart(r) \/ Sweep(r)
        BY <1>u, <2>6
        DEF CountSessions, FindOldest, Issue, Blacklist, FindAll, FindOwn, InvStart,
            Sweep, store
    <2> QED
        BY <1>1, <2>1, <2>2, <2>3, <2>4, <2>5, <2>6 DEF Handle, Open, End
<1>2. ASSUME NEW r \in Requests, Arrive(r) \/ TxTimeout(r) \/ Lose(r) \/ Throw(r)
      PROVE  Goal
    BY <1>2, <1>u DEF Arrive, BeginLogin, BeginCompleteMfa, BeginRefresh,
       BeginAuthed, BeginReset, Begin, TxTimeout, Lose, Throw, store
<1>3. CASE Cleanup
    BY <1>3 DEF Cleanup, Without
<1>4. CASE Tick
    BY <1>4 DEF Tick, store
<1>5. CASE UNCHANGED vars
    BY <1>u, <1>5 DEF vars
<1> QED
    BY <1>1, <1>2, <1>3, <1>4, <1>5 DEF Next, Finished

\* A JWT, once signed, is never changed; a new one belongs to the session and
\* the family its request has worked on.
LEMMA JwtSteps ==
    ASSUME BasicInv, [Next]_vars
    PROVE  /\ DOMAIN jwt \subseteq DOMAIN jwt'
           /\ \A g \in DOMAIN jwt' :
                \/ g \in DOMAIN jwt /\ jwt'[g] = jwt[g]
                \/ /\ pc[g] \in {"issue", "mint"} /\ pc'[g] = "ok"
                   /\ jwt'[g].sid = fr[g].sid /\ fr' = fr
                   /\ pc[g] = "issue" => /\ g \in DOMAIN refresh' /\ jwt'[g].fam = g
                                         /\ refresh'[g].sid = fr[g].sid
                                         /\ refresh'[g].fam = g
                                         /\ fr[g].sid \in Requests
                   /\ pc[g] = "mint" => jwt'[g].fam = fr[g].fam
<1> DEFINE Goal ==
        /\ DOMAIN jwt \subseteq DOMAIN jwt'
        /\ \A g \in DOMAIN jwt' :
             \/ g \in DOMAIN jwt /\ jwt'[g] = jwt[g]
             \/ /\ pc[g] \in {"issue", "mint"} /\ pc'[g] = "ok"
                /\ jwt'[g].sid = fr[g].sid /\ fr' = fr
                /\ pc[g] = "issue" => /\ g \in DOMAIN refresh' /\ jwt'[g].fam = g
                                      /\ refresh'[g].sid = fr[g].sid
                                      /\ refresh'[g].fam = g
                                      /\ fr[g].sid \in Requests
                /\ pc[g] = "mint" => jwt'[g].fam = fr[g].fam
<1> USE DEF BasicInv, TablesOK
<1>u. ASSUME jwt' = jwt PROVE Goal
    BY <1>u
<1>1. ASSUME NEW r \in Requests, Handle(r) PROVE Goal
    <2>1. CASE Issue(r)
        BY <1>u, <2>1 DEF Issue, At, Put, Goto, NewJwt, NewRefresh
    <2>2. CASE Mint(r)
        BY <2>2 DEF Mint, At, Put, Goto, NewJwt
    <2>3. CASE \/ Rotate(r) \/ AuthBlacklist(r) \/ AuthSession(r) \/ Deliver(r)
               \/ Recheck(r) \/ Challenge(r)
        BY <1>u, <2>3
        DEF Rotate, AuthBlacklist, AuthSession, Deliver, RotFind, RotReject,
            RotSession, RotDelete, RotLock, RotInsert, RotCommit, RotLate, Recheck,
            Challenge, store
    <2>4. CASE End(r) \/ CountSessions(r) \/ FindOldest(r) \/ CreateSession(r)
        BY <1>u, <2>4
        DEF End, CountSessions, FindOldest, CreateSession, Blacklist, FindAll,
            FindOwn, InvStart, InvCommit, InvAgain, Sweep, SweepCommit, store
    <2> QED
        BY <1>1, <2>1, <2>2, <2>3, <2>4 DEF Handle, Open, Reissue
<1>2. ASSUME NEW r \in Requests, Arrive(r) \/ TxTimeout(r) \/ Lose(r) \/ Throw(r)
      PROVE  Goal
    BY <1>2, <1>u DEF Arrive, BeginLogin, BeginCompleteMfa, BeginRefresh,
       BeginAuthed, BeginReset, Begin, TxTimeout, Lose, Throw, store
<1>3. CASE Cleanup \/ Tick \/ UNCHANGED vars
    BY <1>u, <1>3 DEF Cleanup, Tick, vars, store
<1> QED
    BY <1>1, <1>2, <1>3 DEF Next, Finished

\* A stored refresh token is never changed; a new one belongs to the session
\* and the family its request works on.
LEMMA RefreshSteps ==
    ASSUME BasicInv, [Next]_vars
    PROVE  \A g \in DOMAIN refresh' :
             \/ g \in DOMAIN refresh /\ refresh'[g] = refresh[g]
             \/ /\ \/ /\ pc[g] = "issue" /\ pc'[g] = "ok" /\ g \in DOMAIN jwt'
                      /\ jwt'[g].sid = fr[g].sid
                      /\ refresh'[g].fam = g /\ jwt'[g].fam = g
                   \/ /\ pc[g] = "rotInsert" /\ pc'[g] = "rotCommit" /\ fr' = fr
                      /\ refresh'[g].fam = fr[g].fam
                   \/ /\ pc[g] = "rotLate" /\ pc'[g] = "done"
                      /\ refresh'[g].fam = fr[g].fam
                /\ refresh'[g].sid = fr[g].sid
<1> DEFINE Goal ==
        \A g \in DOMAIN refresh' :
             \/ g \in DOMAIN refresh /\ refresh'[g] = refresh[g]
             \/ /\ \/ /\ pc[g] = "issue" /\ pc'[g] = "ok" /\ g \in DOMAIN jwt'
                      /\ jwt'[g].sid = fr[g].sid
                      /\ refresh'[g].fam = g /\ jwt'[g].fam = g
                   \/ /\ pc[g] = "rotInsert" /\ pc'[g] = "rotCommit" /\ fr' = fr
                      /\ refresh'[g].fam = fr[g].fam
                   \/ /\ pc[g] = "rotLate" /\ pc'[g] = "done"
                      /\ refresh'[g].fam = fr[g].fam
                /\ refresh'[g].sid = fr[g].sid
<1> USE DEF BasicInv, TablesOK
<1>u. ASSUME refresh' = refresh PROVE Goal
    BY <1>u
<1>w. ASSUME NEW S, refresh' = Without(refresh, S) PROVE Goal
    BY <1>w DEF Without
<1>1. ASSUME NEW r \in Requests, Handle(r) PROVE Goal
    <2>1. CASE Issue(r)
        BY <1>u, <2>1 DEF Issue, At, Put, Goto, NewRefresh, NewJwt
    <2>2. CASE RotInsert(r)
        BY <1>u, <2>2 DEF RotInsert, InsertRotated, Put, Goto, NewRefresh
    <2>3. CASE RotLate(r)
        BY <1>u, <2>3
        DEF RotLate, At, InsertRotated, Put, Fail, Leave, Turn, NewRefresh
    <2>4. CASE RotCommit(r) \/ InvCommit(r)
        BY <1>w, <2>4 DEF RotCommit, InvCommit
    <2>5. CASE \/ AuthBlacklist(r) \/ AuthSession(r) \/ Deliver(r) \/ Reissue(r)
               \/ RotFind(r) \/ RotReject(r) \/ RotSession(r) \/ RotDelete(r)
               \/ RotLock(r)
        BY <1>u, <2>5
        DEF AuthBlacklist, AuthSession, Deliver, Reissue, RotFind, RotReject,
            RotSession, RotDelete, RotLock, Recheck, Challenge, Mint, store
    <2>6. CASE \/ CountSessions(r) \/ FindOldest(r) \/ CreateSession(r)
               \/ Blacklist(r) \/ FindAll(r) \/ FindOwn(r) \/ InvStart(r)
               \/ InvAgain(r) \/ Sweep(r) \/ SweepCommit(r)
        BY <1>u, <2>6
        DEF CountSessions, FindOldest, CreateSession, Blacklist, FindAll,
            FindOwn, InvStart, InvAgain, Sweep, SweepCommit, store
    <2> QED
        BY <1>1, <2>1, <2>2, <2>3, <2>4, <2>5, <2>6 DEF Handle, Rotate, Open, End
<1>2. ASSUME NEW r \in Requests, Arrive(r) \/ TxTimeout(r) \/ Lose(r) \/ Throw(r)
      PROVE  Goal
    BY <1>2, <1>u DEF Arrive, BeginLogin, BeginCompleteMfa, BeginRefresh,
       BeginAuthed, BeginReset, Begin, TxTimeout, Lose, Throw, store
<1>3. CASE Cleanup
    BY <1>3, <1>w DEF Cleanup
<1>4. CASE Tick \/ UNCHANGED vars
    BY <1>u, <1>4 DEF Tick, vars, store
<1> QED
    BY <1>1, <1>2, <1>3, <1>4 DEF Next, Finished

\* One request at a time moves: it arrives, takes a step of its handler, or
\* meets a fault.
Faulted(q) == TxTimeout(q) \/ Lose(q) \/ Throw(q)

LEMMA RequestSteps ==
    ASSUME BasicInv, [Next]_vars, NEW q \in Requests
    PROVE  \/ pc'[q] = pc[q] /\ fr'[q] = fr[q]
           \/ Arrive(q)
           \/ /\ Handle(q) \/ Faulted(q)
              /\ pc[q] \notin {"new", "done"} /\ pc'[q] \in Steps \ {"new"}
              /\ KeptOrBlank(q, pc'[q], fr'[q])
<1> DEFINE Still == pc'[q] = pc[q] /\ fr'[q] = fr[q]
<1>1. ASSUME NEW r \in Requests, r # q, CtlMoves(r) \/ Arrive(r)
      PROVE  Still
    BY <1>1, ArriveMoves DEF CtlMoves, Moves, Turn, BasicInv, TypeOK
<1>2. ASSUME CtlMoves(q)
      PROVE  pc'[q] \in Steps \ {"new"} /\ KeptOrBlank(q, pc'[q], fr'[q])
    BY <1>2 DEF CtlMoves, Moves, Turn, BasicInv, TypeOK
<1>3. Handle(q) \/ Faulted(q) => pc[q] \notin {"new", "done"}
    <2>1. Rotate(q) \/ Reissue(q) \/ Deliver(q) \/ AuthBlacklist(q) \/ AuthSession(q)
            => pc[q] \notin {"new", "done"}
        BY DEF Rotate, Reissue, AuthBlacklist, AuthSession, Deliver, RotFind, RotReject,
            RotSession, RotDelete, RotLock, RotInsert, RotCommit, RotLate, Recheck,
            Challenge, Mint, At
    <2>2. Open(q) \/ End(q) => pc[q] \notin {"new", "done"}
        BY DEF Open, End, CountSessions, FindOldest, CreateSession, Issue, Blacklist,
            FindAll, FindOwn, InvStart, InvCommit, InvAgain, Sweep, SweepCommit, At
    <2>3. Faulted(q) => pc[q] \notin {"new", "done"}
        BY DEF Faulted, TxTimeout, Lose, Throw, InFlight, RotationSteps
    <2> QED
        BY <2>1, <2>2, <2>3 DEF Handle
<1>4. ASSUME NEW r \in Requests,
             Arrive(r) \/ Handle(r) \/ TxTimeout(r) \/ Lose(r) \/ Throw(r)
      PROVE  Still \/ Arrive(q) \/ (CtlMoves(q) /\ (Handle(q) \/ Faulted(q)))
    BY <1>1, <1>4, HandleMoves, FaultMoves DEF Faulted
<1>5. CASE Cleanup \/ Tick \/ UNCHANGED vars
    BY <1>5 DEF Cleanup, Tick, vars
<1> QED
    BY <1>2, <1>3, <1>4, <1>5 DEF Next, Finished

\* An arriving request takes up its first step; nothing else changes.
LEMMA ArriveSteps ==
    ASSUME BasicInv, NEW q \in Requests, Arrive(q)
    PROVE  /\ pc[q] = "new" /\ UNCHANGED <<now, store, held>>
           /\ pc'[q] \in {"count", "issue", "rotFind", "authBlk", "sweep"}
<1>1. ASSUME NEW op, NEW step, NEW f, Begin(q, op, step, f)
      PROVE  /\ pc[q] = "new" /\ UNCHANGED <<now, store, held>>
             /\ pc'[q] = step
    BY <1>1 DEF Begin, Turn, BasicInv
<1>2. ASSUME NEW op \in LoginOps, NEW u, NEW d, BeginLogin(q, op, u, d)
      PROVE  \E f : Begin(q, op, "count", f)
    BY <1>2 DEF BeginLogin
<1>3. ASSUME NEW u, NEW s, NEW d, BeginCompleteMfa(q, u, s, d)
      PROVE  \E f : Begin(q, "completeMfa", "issue", f)
    BY <1>3 DEF BeginCompleteMfa
<1>4. ASSUME NEW g, NEW d, BeginRefresh(q, g, d)
      PROVE  \E f : Begin(q, "refresh", "rotFind", f)
    BY <1>4 DEF BeginRefresh
<1>5. ASSUME NEW op, NEW g, NEW s, BeginAuthed(q, op, g, s)
      PROVE  \E f : Begin(q, op, "authBlk", f)
    BY <1>5 DEF BeginAuthed
<1>6. ASSUME NEW u, BeginReset(q, u)
      PROVE  \E f : Begin(q, "reset", "sweep", f)
    BY <1>6 DEF BeginReset
<1>7. \E op, step, f : /\ Begin(q, op, step, f)
                       /\ step \in {"count", "issue", "rotFind", "authBlk", "sweep"}
    BY <1>2, <1>3, <1>4, <1>5, <1>6 DEF Arrive
<1> QED
    BY <1>1, <1>7

\* What a step can have done to a request that is past the lookup of its
\* refresh token.
LEMMA AfterFindSteps ==
    ASSUME BasicInv, [Next]_vars, NEW q \in Requests, pc'[q] \in AfterFind
    PROVE  /\ fr'[q].g = fr[q].g
           /\ \/ /\ pc[q] = "rotFind" /\ fr[q].g \in DOMAIN refresh
                 /\ fr'[q].sid = refresh[fr[q].g].sid
                 /\ fr'[q].fam = refresh[fr[q].g].fam
                 /\ pc'[q] \notin Inserted
              \/ /\ pc[q] = "rotInsert" /\ pc'[q] = "rotCommit"
                 /\ fr'[q].sid = fr[q].sid /\ refresh'[q].sid = fr[q].sid
                 /\ fr'[q].fam = fr[q].fam /\ refresh'[q].fam = fr[q].fam
              \/ /\ pc[q] \in AfterFind /\ fr'[q].sid = fr[q].sid
                 /\ fr'[q].fam = fr[q].fam
                 /\ pc'[q] \in Inserted => pc[q] \in Inserted
<1> DEFINE Goal ==
           /\ fr'[q].g = fr[q].g
           /\ \/ /\ pc[q] = "rotFind" /\ fr[q].g \in DOMAIN refresh
                 /\ fr'[q].sid = refresh[fr[q].g].sid
                 /\ fr'[q].fam = refresh[fr[q].g].fam
                 /\ pc'[q] \notin Inserted
              \/ /\ pc[q] = "rotInsert" /\ pc'[q] = "rotCommit"
                 /\ fr'[q].sid = fr[q].sid /\ refresh'[q].sid = fr[q].sid
                 /\ fr'[q].fam = fr[q].fam /\ refresh'[q].fam = fr[q].fam
              \/ /\ pc[q] \in AfterFind /\ fr'[q].sid = fr[q].sid
                 /\ fr'[q].fam = fr[q].fam
                 /\ pc'[q] \in Inserted => pc[q] \in Inserted
<1> USE DEF BasicInv, AfterFind, RotationSteps, Inserted
<1>f. fr[q] \in Frame
    OBVIOUS
<1>1. CASE pc'[q] = pc[q] /\ fr'[q] = fr[q]
    BY <1>1
<1>2. CASE Arrive(q)
    BY <1>2, ArriveSteps
<1>3. CASE Rotate(q)
    <2>1. CASE RotFind(q)
        <3>1. CASE Fail(q)
            BY <3>1 DEF Fail, Leave, Turn
        <3>2. CASE fr[q].g \in DOMAIN refresh
            <4> DEFINE row == refresh[fr[q].g]
                       f == [fr[q] EXCEPT !.user = row.user, !.sid = row.sid,
                                          !.fam = row.fam]
            <4>1. f.g = fr[q].g /\ f.sid = row.sid /\ f.fam = row.fam
                BY <1>f DEF Frame
            <4>2. fr'[q] = f /\ pc'[q] \in {"rotSession", "rotReject"}
                BY <2>1, <3>2 DEF RotFind, Turn
            <4>3. pc[q] = "rotFind"
                BY <2>1 DEF RotFind, At
            <4> QED
                BY <3>2, <4>1, <4>2, <4>3
        <3> QED
            BY <2>1, <3>1, <3>2 DEF RotFind
    <2>2. CASE RotInsert(q)
        BY <1>f, <2>2
        DEF RotInsert, At, Fail, Leave, Turn, Goto, InsertRotated, Put, NewRefresh
    <2>3. CASE RotReject(q) \/ RotSession(q) \/ RotLate(q)
        BY <2>3 DEF RotReject, RotSession, RotLate, At, Fail, Leave, Turn, Goto
    <2>4. CASE RotDelete(q)
        BY <1>f, <2>4 DEF RotDelete, At, Turn, Frame
    <2>5. CASE RotLock(q)
        BY <1>f, <2>5 DEF RotLock, At, Turn, Frame
    <2>6. CASE RotCommit(q)
        BY <1>f, <2>6 DEF RotCommit, At, Turn, Frame
    <2> QED
        BY <1>3, <2>1, <2>2, <2>3, <2>4, <2>5, <2>6 DEF Rotate
<1>4. CASE Reissue(q)
    BY <1>4 DEF Reissue, Recheck, Challenge, Mint, At, Goto, Fail, Leave, Turn
<1>5. CASE \/ AuthBlacklist(q) \/ AuthSession(q) \/ Deliver(q) \/ Open(q)
    BY <1>5 DEF AuthBlacklist, AuthSession, Deliver, Open, CountSessions, FindOldest,
       CreateSession, Issue, At, Goto, Fail, Leave, Turn, FirstStep
<1>6. CASE End(q)
    BY <1>6 DEF End, Blacklist, FindAll, FindOwn, InvStart, InvCommit, InvAgain, Sweep,
       SweepCommit, AfterInvalidation, At, Goto, Fail, Leave, Turn
<1>7. CASE Faulted(q)
    BY <1>f, <1>7 DEF Faulted, TxTimeout, Lose, Throw, Fail, Leave, Turn, Frame
<1> QED
    BY <1>1, <1>2, <1>3, <1>4, <1>5, <1>6, <1>7, RequestSteps DEF Handle

\* An opened session stays opened, and a request that has made its answer, or
\* is done, stays so.
LEMMA OpenedSteps ==
    ASSUME BasicInv, [Next]_vars, NEW s \in Requests
    PROVE  /\ Opened(s) => Opened(s)'
           /\ pc[s] \in {"ok", "done"} => pc'[s] \in {"ok", "done"}
<1> USE DEF BasicInv
<1>1. CASE pc'[s] = pc[s] /\ fr'[s] = fr[s]
    BY <1>1 DEF Opened, NotYetOpened
<1>2. CASE Arrive(s)
    BY <1>2, ArriveSteps DEF Opened, NotYetOpened
<1>3. CASE /\ Handle(s) \/ Faulted(s)
           /\ pc[s] \notin {"new", "done"} /\ pc'[s] \in Steps \ {"new"}
           /\ KeptOrBlank(s, pc'[s], fr'[s])
    <2>1. pc[s] \in {"issue", "ok"} => pc'[s] \in {"ok", "done"}
        <3> USE DEF Turn, Goto, Fail, Leave, At
        <3>1. CASE \/ AuthBlacklist(s) \/ AuthSession(s) \/ Deliver(s) \/ Open(s)
                   \/ Reissue(s)
            BY <3>1 DEF AuthBlacklist, AuthSession, Deliver, Open, CountSessions,
               FindOldest, CreateSession, Issue, Reissue, Recheck, Challenge, Mint
        <3>2. CASE Rotate(s)
            BY <3>2 DEF Rotate, RotFind, RotReject, RotSession, RotDelete, RotLock,
               RotInsert, RotCommit, RotLate
        <3>3. CASE End(s)
            BY <3>3 DEF End, Blacklist, FindAll, FindOwn, InvStart, InvCommit,
               InvAgain, Sweep, SweepCommit
        <3>4. CASE Faulted(s)
            BY <3>4 DEF Faulted, TxTimeout, Lose, Throw, RotationSteps
        <3> QED
            BY <1>3, <3>1, <3>2, <3>3, <3>4 DEF Handle
    <2>2. Opened(s) => Opened(s)'
        <3>1. pc'[s] = "done" => fr'[s] = Blank
            BY NextBasic DEF FramesOK, FrameOK
        <3> QED
            BY <1>3, <2>1, <3>1, ConstantsAssumption
            DEF Opened, NotYetOpened, KeptOrBlank, Kept, Blank
    <2> QED
        BY <1>3, <2>1, <2>2
<1> QED
    BY <1>1, <1>2, <1>3, RequestSteps
-----------------------------------------------------------------------------
(* The tables refer to opened sessions only, and agree on them.             *)

LEMMA InitReferences == Init => ReferencesOK
BY DEF Init, ReferencesOK, NoRows, AfterFind, RotationSteps

\* A request that is about to issue tokens works on an opened session.
LEMMA IssueSteps ==
    ASSUME BasicInv, ReferencesOK, [Next]_vars, NEW q \in Requests,
           pc'[q] = "issue"
    PROVE  LET s == fr'[q].sid IN s # None => ~NotYetOpened(pc'[s], fr'[s])
<1> USE DEF BasicInv
<1>1. CASE pc'[q] = pc[q] /\ fr'[q] = fr[q]
    <2>1. fr[q].sid = None \/ (fr[q].sid \in Requests /\ Opened(fr[q].sid))
        BY <1>1 DEF ReferencesOK, FramesOK, FrameOK
    <2> QED
        BY <1>1, <2>1, OpenedSteps DEF Opened
<1>2. CASE Arrive(q)
    <2>1. ASSUME NEW op, NEW step, NEW f, Begin(q, op, step, f), step # "issue"
          PROVE  FALSE
        BY <2>1 DEF Begin, Turn
    <2>2. PICK u \in Users, s \in Opt(DOMAIN sess), d \in Devices :
              BeginCompleteMfa(q, u, s, d)
        BY <1>2, <2>1
        DEF Arrive, BeginLogin, BeginRefresh, BeginAuthed, BeginReset
    <2>3. fr'[q].sid = s
        BY <2>2 DEF BeginCompleteMfa, Begin, Turn, Blank
    <2>4. s = None \/ (s \in Requests /\ Opened(s))
        BY <2>2 DEF ReferencesOK, TablesOK
    <2> QED
        BY <2>3, <2>4, OpenedSteps DEF Opened
<1>3. CASE Handle(q)
    <2>1. CASE CreateSession(q)
        <3>1. fr'[q].sid = q
            BY <2>1 DEF CreateSession, Turn, Frame
        <3> QED
            BY <2>1, <3>1 DEF CreateSession, At, Turn, NotYetOpened
    <2>2. CASE \/ AuthBlacklist(q) \/ AuthSession(q) \/ Deliver(q) \/ Reissue(q)
               \/ CountSessions(q) \/ FindOldest(q) \/ Issue(q)
        BY <2>2
        DEF AuthBlacklist, AuthSession, Deliver, Reissue, CountSessions, FindOldest,
            Issue, Recheck, Challenge, Mint, FirstStep, Turn, Goto, Fail, Leave
    <2>3. CASE Rotate(q)
        BY <2>3
        DEF Rotate, RotFind, RotReject, RotSession, RotDelete, RotLock, RotInsert,
            RotCommit, RotLate, Turn, Goto, Fail, Leave
    <2>4. CASE End(q)
        BY <2>4
        DEF End, Blacklist, FindAll, FindOwn, InvStart, InvCommit, InvAgain, Sweep,
            SweepCommit, AfterInvalidation, Turn, Goto, Fail, Leave
    <2> QED
        BY <1>3, <2>1, <2>2, <2>3, <2>4 DEF Handle, Open
<1>4. CASE Faulted(q)
    BY <1>4 DEF Faulted, TxTimeout, Lose, Throw, Turn, Fail, Leave
<1> QED
    BY <1>1, <1>2, <1>3, <1>4, RequestSteps

LEMMA NextReferences == BasicInv /\ ReferencesOK /\ [Next]_vars => ReferencesOK'
<1> SUFFICES ASSUME BasicInv, ReferencesOK, [Next]_vars
             PROVE  ReferencesOK'
    OBVIOUS
<1>t. BasicInv' /\ DOMAIN sess \subseteq Requests /\ DOMAIN jwt \subseteq Requests
    BY NextBasic DEF BasicInv, TablesOK
<1>o. ASSUME NEW s \in Requests, Opened(s) PROVE Opened(s)'
    BY <1>o, OpenedSteps
<1>1. \A s \in DOMAIN sess' : Opened(s)'
    <2> SUFFICES ASSUME NEW s \in DOMAIN sess'
                 PROVE  Opened(s)'
        OBVIOUS
    <2>1. CASE s \in DOMAIN sess
        BY <1>t, <1>o, <2>1 DEF ReferencesOK
    <2>2. CASE pc'[s] \in {"ok", "issue"}
        BY <2>2 DEF Opened, NotYetOpened
    <2> QED
        BY <2>1, <2>2, SessionSteps
<1>2. ASSUME NEW g \in DOMAIN jwt'
      PROVE  /\ pc'[g] \in {"ok", "done"}
             /\ ~NotYetOpened(pc'[jwt'[g].sid], fr'[jwt'[g].sid])
    <2>1. CASE g \in DOMAIN jwt /\ jwt'[g] = jwt[g]
        <3>1. g \in Requests /\ jwt[g].sid \in Requests
            BY <2>1 DEF BasicInv, TablesOK, Jwt
        <3>2. pc[g] \in {"ok", "done"} /\ Opened(jwt[g].sid)
            BY <2>1 DEF ReferencesOK
        <3>4. pc'[g] \in {"ok", "done"}
            BY <3>1, <3>2, OpenedSteps
        <3> DEFINE s == jwt[g].sid
        <3>5. ~NotYetOpened(pc'[s], fr'[s])
            BY <3>1, <3>2, <1>o DEF Opened
        <3> QED
            BY <2>1, <3>4, <3>5
    <2>2. CASE /\ pc[g] \in {"issue", "mint"} /\ pc'[g] = "ok"
               /\ jwt'[g].sid = fr[g].sid
        <3>0. g \in Requests /\ fr[g].sid # None
            BY <1>t, <2>2, ConstantsAssumption DEF BasicInv, TablesOK, Jwt
        <3>1. fr[g].sid \in Requests /\ Opened(fr[g].sid)
            <4>1. CASE pc[g] = "issue"
                BY <3>0, <4>1 DEF ReferencesOK, BasicInv, FramesOK, FrameOK
            <4>2. CASE pc[g] = "mint"
                <5>1. fr[g].op = "refresh" /\ fr[g].sid \in Requests
                    BY <3>0, <4>2 DEF BasicInv, FramesOK, FrameOK, AfterFind
                <5>2. fr[g].g \in DOMAIN jwt
                    BY <3>0, <5>1 DEF BasicInv, PresentsKnown
                <5> QED
                    BY <3>0, <4>2, <5>1, <5>2 DEF ReferencesOK, AfterFind
            <4> QED
                BY <2>2, <4>1, <4>2
        <3> DEFINE s == fr[g].sid
        <3>2. ~NotYetOpened(pc'[s], fr'[s])
            BY <3>1, <1>o DEF Opened
        <3> QED
            BY <2>2, <3>2
    <2> QED
        BY <2>1, <2>2, JwtSteps
<1>3. ASSUME NEW g \in DOMAIN jwt' \cap DOMAIN refresh'
      PROVE  refresh'[g].sid = jwt'[g].sid /\ refresh'[g].fam = jwt'[g].fam
    <2>1. CASE g \in DOMAIN jwt /\ jwt'[g] = jwt[g]
        <3>1. pc[g] \in {"ok", "done"}
            BY <2>1 DEF ReferencesOK
        <3>2. g \in DOMAIN refresh /\ refresh'[g] = refresh[g]
            BY <3>1, RefreshSteps
        <3> QED
            BY <2>1, <3>2 DEF ReferencesOK
    <2>2. CASE /\ pc[g] \in {"issue", "mint"} /\ pc'[g] = "ok"
               /\ jwt'[g].sid = fr[g].sid
               /\ pc[g] = "issue" => /\ refresh'[g].sid = fr[g].sid
                                     /\ refresh'[g].fam = g /\ jwt'[g].fam = g
               /\ pc[g] = "mint" => jwt'[g].fam = fr[g].fam
        <3>1. CASE pc[g] = "issue"
            BY <2>2, <3>1
        <3>2. CASE pc[g] = "mint"
            <4>1. g \in DOMAIN refresh /\ refresh'[g] = refresh[g]
                BY <3>2, RefreshSteps
            <4>2. g \in Requests
                BY <4>1 DEF BasicInv, TablesOK
            <4> QED
                BY <2>2, <3>2, <4>1, <4>2 DEF ReferencesOK, BasicInv, TablesOK
        <3> QED
            BY <2>2, <3>1, <3>2
    <2> QED
        BY <2>1, <2>2, JwtSteps
<1>4. ASSUME NEW q \in Requests, pc'[q] = "issue", fr'[q].sid # None
      PROVE  ~NotYetOpened(pc'[fr'[q].sid], fr'[fr'[q].sid])
    BY <1>4, IssueSteps
<1>5. ASSUME NEW q \in Requests, pc'[q] \in AfterFind
      PROVE  fr'[q].sid = jwt'[fr'[q].g].sid /\ fr'[q].fam = jwt'[fr'[q].g].fam
    <2>1. fr[q].g \in DOMAIN jwt /\ fr'[q].g = fr[q].g
        <3>1. pc[q] \in AfterFind \cup {"rotFind"}
            BY <1>5, AfterFindSteps DEF AfterFind, RotationSteps
        <3> QED
            BY <1>5, <3>1, AfterFindSteps
            DEF BasicInv, FramesOK, FrameOK, PresentsKnown
    <2>2. jwt'[fr[q].g] = jwt[fr[q].g]
        <3>1. pc[fr[q].g] \in {"ok", "done"}
            BY <2>1 DEF ReferencesOK
        <3> QED
            BY <2>1, <3>1, JwtSteps
    <2>3. fr'[q].sid = jwt[fr[q].g].sid /\ fr'[q].fam = jwt[fr[q].g].fam
        BY <1>5, <2>1, AfterFindSteps DEF ReferencesOK, AfterFind, RotationSteps
    <2> QED
        BY <2>1, <2>2, <2>3
<1>6. ASSUME NEW q \in Requests, pc'[q] \in Inserted, q \in DOMAIN refresh'
      PROVE  refresh'[q].sid = fr'[q].sid /\ refresh'[q].fam = fr'[q].fam
    <2>1. pc'[q] \in AfterFind
        BY <1>6 DEF Inserted, AfterFind, RotationSteps
    <2>2. CASE pc[q] \in Inserted /\ fr'[q].sid = fr[q].sid
               /\ fr'[q].fam = fr[q].fam
        <3>1. q \in DOMAIN refresh /\ refresh'[q] = refresh[q]
            BY <1>6, <2>2, RefreshSteps DEF Inserted
        <3> QED
            BY <2>2, <3>1 DEF ReferencesOK, Inserted
    <2> QED
        BY <1>6, <2>1, <2>2, AfterFindSteps
<1> QED
    BY <1>1, <1>2, <1>3, <1>4, <1>5, <1>6 DEF ReferencesOK, Inserted, Opened
-----------------------------------------------------------------------------
(* Ended sessions.                                                          *)

\* IsActive as an operator of the state, to speak of the state after a step.
ActiveIn(S, t, s) == s \in DOMAIN S /\ ~S[s].revoked /\ S[s].exp > t

\* A session that has been opened and is not active never becomes active.
LEMMA InactiveStays ==
    ASSUME BasicInv, [Next]_vars, NEW s \in Requests, Opened(s), ~IsActive(s)
    PROVE  ~ActiveIn(sess', now', s)
<1>1. pc[s] # "create"
    BY ConstantsAssumption
    DEF Opened, NotYetOpened, BasicInv, FramesOK, FrameOK
<1>2. CASE s \notin DOMAIN sess'
    BY <1>2 DEF ActiveIn
<1>3. CASE s \in DOMAIN sess'
    <2>1. /\ now' >= now /\ s \in DOMAIN sess /\ sess'[s].exp = sess[s].exp
          /\ sess[s].revoked => sess'[s].revoked
        BY <1>1, <1>3, SessionSteps
    <2>2. sess[s].exp \in Nat /\ now \in Nat /\ now' \in Nat
        BY <2>1, NextBasic DEF BasicInv, TablesOK, SessionRow
    <2> QED
        BY <2>1, <2>2 DEF IsActive, ActiveIn
<1> QED
    BY <1>2, <1>3

\* A request gets past the check of its session only if it is active.
LEMMA CheckSteps ==
    ASSUME BasicInv, [Next]_vars, NEW q \in Requests,
           Handle(q) \/ Faulted(q),
           pc[q] \notin Checked, pc'[q] \in Checked
    PROVE  \/ pc[q] = "authSession" /\ IsActive(jwt[fr[q].g].sid)
           \/ pc[q] = "recheck" /\ IsActive(fr[q].sid)
<1> USE DEF BasicInv, Checked, Steps, BatchSteps, RotationSteps, Turn, Goto,
            Fail, Leave, At
<1>1. CASE AuthBlacklist(q) \/ AuthSession(q)
    BY <1>1 DEF AuthBlacklist, AuthSession
<1>2. CASE Reissue(q)
    BY <1>2 DEF Reissue, Recheck, Challenge, Mint
<1>3. CASE Rotate(q)
    BY <1>3 DEF Rotate, RotFind, RotReject, RotSession, RotDelete, RotLock, RotInsert,
       RotCommit, RotLate
<1>4. CASE Deliver(q) \/ Open(q)
    BY <1>4 DEF Deliver, Open, CountSessions, FindOldest, CreateSession, Issue
<1>5. CASE End(q)
    BY <1>5 DEF End, Blacklist, FindAll, FindOwn, InvStart, InvCommit, InvAgain, Sweep,
       SweepCommit
<1>6. CASE Faulted(q)
    BY <1>6 DEF Faulted, TxTimeout, Lose, Throw
<1> QED
    BY <1>1, <1>2, <1>3, <1>4, <1>5, <1>6 DEF Handle

\* The request comes in dead only with a token of a session that has ended.
LEMMA ArriveDead ==
    ASSUME BasicInv, NEW q \in Requests, Arrive(q)
    PROVE  /\ fr'[q].dead => /\ fr'[q].g \in DOMAIN jwt
                             /\ ~IsActive(jwt[fr'[q].g].sid)
           /\ pc'[q] \in Checked => ~fr'[q].dead
<1> USE DEF BasicInv, Begin, Turn, Blank, Checked
<1>1. ASSUME NEW op \in LoginOps, NEW u, NEW d, BeginLogin(q, op, u, d)
      PROVE  ~fr'[q].dead
    BY <1>1 DEF BeginLogin
<1>2. ASSUME NEW u, NEW s, NEW d, BeginCompleteMfa(q, u, s, d)
      PROVE  ~fr'[q].dead
    BY <1>2 DEF BeginCompleteMfa
<1>3. ASSUME NEW g \in held, NEW d, BeginRefresh(q, g, d)
      PROVE  /\ fr'[q].g = g /\ fr'[q].dead = ~IsActive(jwt[g].sid)
             /\ pc'[q] \notin Checked
    BY <1>3 DEF BeginRefresh
<1>4. ASSUME NEW op, NEW g \in held, NEW s, BeginAuthed(q, op, g, s)
      PROVE  /\ fr'[q].g = g /\ fr'[q].dead = ~IsActive(jwt[g].sid)
             /\ pc'[q] \notin Checked
    BY <1>4 DEF BeginAuthed
<1>5. ASSUME NEW u, BeginReset(q, u)
      PROVE  ~fr'[q].dead
    BY <1>5 DEF BeginReset
<1>6. held \subseteq DOMAIN jwt
    BY DEF TablesOK
<1>7. \/ ~fr'[q].dead
      \/ \E g \in held : /\ fr'[q].g = g /\ fr'[q].dead = ~IsActive(jwt[g].sid)
                        /\ pc'[q] \notin Checked
    <2> USE DEF Arrive
    <2>1. CASE \E op \in LoginOps, u \in Users, d \in Devices : BeginLogin(q, op, u, d)
        BY <1>1, <2>1
    <2>2. CASE \E u \in Users, s \in Opt(DOMAIN sess), d \in Devices :
                  BeginCompleteMfa(q, u, s, d)
        BY <1>2, <2>2
    <2>3. CASE \E g \in held, d \in Devices : BeginRefresh(q, g, d)
        BY <1>3, <2>3
    <2>4. CASE \E op \in AuthedOps, g \in held : \E s : BeginAuthed(q, op, g, s)
        BY <1>4, <2>4
    <2>5. CASE \E u \in Users : BeginReset(q, u)
        BY <1>5, <2>5
    <2> QED
        BY <2>1, <2>2, <2>3, <2>4, <2>5
<1> QED
    BY <1>6, <1>7

LEMMA NextDead == BasicInv /\ ReferencesOK /\ DeadInv /\ [Next]_vars => DeadInv'
<1> SUFFICES ASSUME BasicInv, ReferencesOK, DeadInv, [Next]_vars,
                    NEW q \in Requests
             PROVE  /\ fr'[q].dead => /\ fr'[q].g \in DOMAIN jwt'
                                      /\ ~ActiveIn(sess', now', jwt'[fr'[q].g].sid)
                    /\ pc'[q] \in Checked => ~fr'[q].dead
    BY DEF DeadInv, IsActive, ActiveIn
<1>1. ASSUME NEW g \in DOMAIN jwt, ~IsActive(jwt[g].sid)
      PROVE  g \in DOMAIN jwt' /\ jwt'[g] = jwt[g]
             /\ ~ActiveIn(sess', now', jwt'[g].sid)
    <2>1. pc[g] \in {"ok", "done"} /\ Opened(jwt[g].sid)
        BY DEF ReferencesOK
    <2>2. g \in DOMAIN jwt' /\ jwt'[g] = jwt[g]
        BY <2>1, JwtSteps
    <2>3. jwt[g].sid \in Requests
        BY DEF BasicInv, TablesOK, Jwt
    <2> DEFINE s == jwt[g].sid
    <2>4. ~ActiveIn(sess', now', s)
        BY <1>1, <2>1, <2>3, InactiveStays
    <2> QED
        BY <2>2, <2>4
<1>2. CASE pc'[q] = pc[q] /\ fr'[q] = fr[q]
    BY <1>1, <1>2 DEF DeadInv
<1>3. CASE Arrive(q)
    BY <1>1, <1>3, ArriveDead
<1>4. CASE /\ Handle(q) \/ Faulted(q)
           /\ pc'[q] \in Steps \ {"new"}
           /\ KeptOrBlank(q, pc'[q], fr'[q])
    <2>1. CASE pc'[q] = "done" /\ fr'[q] = Blank
        BY <2>1 DEF Blank, Checked
    <2>2. CASE Kept(fr[q], fr'[q])
        <3>1. fr'[q].g = fr[q].g /\ fr'[q].dead = fr[q].dead
            BY <2>2 DEF Kept
        <3>2. pc[q] \in Checked => ~fr[q].dead
            BY DEF DeadInv
        <3>3. ASSUME pc[q] \notin Checked, pc'[q] \in Checked
              PROVE  ~fr[q].dead
            <4>1. IsActive(jwt[fr[q].g].sid)
                BY <1>4, <3>3, CheckSteps DEF ReferencesOK, AfterFind
            <4> QED
                BY <4>1 DEF DeadInv
        <3> QED
            BY <1>1, <3>1, <3>2, <3>3 DEF DeadInv
    <2> QED
        BY <1>4, <2>1, <2>2 DEF KeptOrBlank
<1> QED
    BY <1>2, <1>3, <1>4, RequestSteps

LEMMA InitDead == Init => DeadInv
BY DEF Init, DeadInv, Blank, Checked

\* A JWT or refresh token of a session that had ended when it was presented is
\* refused, the tokens a completeMfa signs after the end included:
\* EndedTokensRefused, for any number of requests and sessions, any
\* interleaving, and all faults.
THEOREM EndedStaysEnded == Spec => []EndedTokensRefused
<1> DEFINE Inv == BasicInv /\ ReferencesOK /\ DeadInv
<1>1. Init => Inv
    BY InitBasic, InitReferences, InitDead
<1>2. Inv /\ [Next]_vars => Inv'
    BY NextBasic, NextReferences, NextDead
<1>3. Inv => EndedTokensRefused
    BY DEF DeadInv, EndedTokensRefused, Accepted, Checked, Steps, RotationSteps
<1> QED
    BY <1>1, <1>2, <1>3, PTL DEF Spec
=============================================================================
