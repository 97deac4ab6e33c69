--------------------------- MODULE LifecycleProofs ---------------------------
(* The session subsystem implements SessionLifecycle: every step of a      *)
(* handler, a fault or the clock is a step of the abstract specification   *)
(* under the refinement mapping of AuthSessions, or changes nothing of it. *)
(* Then what it promises as long as the logins of a user, or the rotations *)
(* of a family, do not overlap.                                            *)
EXTENDS RevocationProofs, FiniteSetTheorems

\* The token a request presents is known.
PresentedKnown ==
    \A r \in Requests : fr[r].g # None => fr[r].g \in DOMAIN jwt

LifeInv == BasicInv /\ ReferencesOK /\ DeadInv /\ RevocationInv
           /\ PresentedKnown

\* What a request that comes in presents.
LEMMA ArrivePresents ==
    ASSUME BasicInv, NEW q \in Requests, Arrive(q)
    PROVE  \/ fr'[q].g = None /\ ~fr'[q].dead
           \/ /\ fr'[q].g \in DOMAIN jwt
              /\ fr'[q].dead = ~IsActive(jwt[fr'[q].g].sid)
<1> USE ConstantsAssumption DEF BasicInv, TypeOK, Begin, Turn, Blank
<1> DEFINE Goal == \/ fr'[q].g = None /\ ~fr'[q].dead
                   \/ /\ fr'[q].g \in DOMAIN jwt
                      /\ fr'[q].dead = ~IsActive(jwt[fr'[q].g].sid)
<1>1. ASSUME NEW op \in LoginOps, NEW u \in Users, NEW d \in Devices,
             BeginLogin(q, op, u, d)
      PROVE  Goal
    BY <1>1 DEF BeginLogin
<1>2. ASSUME NEW u \in Users, NEW s \in Opt(DOMAIN sess), NEW d \in Devices,
             BeginCompleteMfa(q, u, s, d)
      PROVE  Goal
    BY <1>2 DEF BeginCompleteMfa
<1>3. ASSUME NEW g \in held, NEW d \in Devices, BeginRefresh(q, g, d)
      PROVE  Goal
    BY <1>3 DEF BeginRefresh, TablesOK
<1>4. ASSUME NEW op \in AuthedOps, NEW g \in held, NEW s, BeginAuthed(q, op, g, s)
      PROVE  Goal
    <2>1. g \in DOMAIN jwt
        BY DEF TablesOK
    <2>2. fr'[q].g = g /\ fr'[q].dead = ~IsActive(jwt[g].sid)
        BY <1>4 DEF BeginAuthed
    <2> QED
        BY <2>1, <2>2
<1>5. ASSUME NEW u \in Users, BeginReset(q, u)
      PROVE  Goal
    BY <1>5 DEF BeginReset
<1> QED
    BY <1>1, <1>2, <1>3, <1>4, <1>5 DEF Arrive

LEMMA InitPresented == Init => PresentedKnown
BY DEF Init, PresentedKnown, Blank

LEMMA NextPresented == BasicInv /\ PresentedKnown /\ [Next]_vars => PresentedKnown'
<1> SUFFICES ASSUME BasicInv, PresentedKnown, [Next]_vars, NEW q \in Requests
             PROVE  fr'[q].g # None => fr'[q].g \in DOMAIN jwt'
    BY DEF PresentedKnown
<1>j. DOMAIN jwt \subseteq DOMAIN jwt'
    BY JwtSteps
<1>1. CASE pc'[q] = pc[q] /\ fr'[q] = fr[q]
    BY <1>1, <1>j DEF PresentedKnown
<1>2. CASE Arrive(q)
    BY <1>2, <1>j, ArrivePresents
<1>3. CASE fr'[q] = Blank
    BY <1>3 DEF Blank
<1>4. CASE Kept(fr[q], fr'[q])
    BY <1>4, <1>j DEF Kept, PresentedKnown
<1> QED
    BY <1>1, <1>2, <1>3, <1>4, RequestSteps DEF KeptOrBlank

LEMMA InitLife == Init => LifeInv
BY InitBasic, InitReferences, InitDead, InitRevocation, InitPresented DEF LifeInv

LEMMA NextLife == LifeInv /\ [Next]_vars => LifeInv'
BY NextBasic, NextReferences, NextDead, NextRevocation, NextPresented DEF LifeInv
-----------------------------------------------------------------------------
\* At most one request moves in a step.
LEMMA OneMover ==
    ASSUME BasicInv, [Next]_vars
    PROVE  \/ UNCHANGED <<pc, fr>>
           \/ \E r \in Requests :
                \A q \in Requests \ {r} : pc'[q] = pc[q] /\ fr'[q] = fr[q]
<1> USE DEF BasicInv
<1>m. ASSUME NEW r \in Requests, NEW p, NEW f, Moves(r, p, f)
      PROVE  \A q \in Requests \ {r} : pc'[q] = pc[q] /\ fr'[q] = fr[q]
    BY <1>m, MovesType
<1>1. ASSUME NEW r \in Requests, Arrive(r)
      PROVE  \A q \in Requests \ {r} : pc'[q] = pc[q] /\ fr'[q] = fr[q]
    BY <1>1, <1>m, ArriveMoves
<1>2. ASSUME NEW r \in Requests, Handle(r)
      PROVE  \A q \in Requests \ {r} : pc'[q] = pc[q] /\ fr'[q] = fr[q]
    BY <1>2, <1>m, HandleMoves DEF CtlMoves
<1>3. ASSUME NEW r \in Requests, TxTimeout(r) \/ Lose(r) \/ Throw(r)
      PROVE  \A q \in Requests \ {r} : pc'[q] = pc[q] /\ fr'[q] = fr[q]
    BY <1>3, <1>m, FaultMoves DEF CtlMoves
<1>4. Cleanup => UNCHANGED <<pc, fr>>
    BY DEF Cleanup
<1> QED
    BY <1>1, <1>2, <1>3, <1>4 DEF Next, vars, Tick, Finished, store

\* An answered request only leaves.
LEMMA AnsweredSteps ==
    ASSUME NEW q \in Requests, BasicInv, pc[q] = "ok", Handle(q) \/ Faulted(q)
    PROVE  pc'[q] = "done"
BY DEF Handle, Faulted, Lose, Throw, TxTimeout, AuthBlacklist, AuthSession,
       Rotate, Open, Reissue, End, Deliver, Leave, Turn, At, BasicInv, TypeOK,
       RotFind, RotReject, RotSession, RotDelete, RotLock, RotInsert, RotCommit,
       RotLate, CountSessions, FindOldest, CreateSession, Issue, Recheck,
       Challenge, Mint, Blacklist, FindAll, FindOwn, InvStart, InvCommit,
       InvAgain, Sweep, SweepCommit, RotationSteps
-----------------------------------------------------------------------------
\* Sessions move forward only.
LEMMA StatusSteps ==
    ASSUME LifeInv, LifeInv', [Next]_vars, NEW s \in Requests
    PROVE  /\ Status(s)' \in {"none", "active", "ended"}
           /\ \/ Status(s)' = Status(s)
              \/ Status(s) = "none"
              \/ Status(s)' = "ended"
<1>1. Opened(s) => Opened(s)'
    BY OpenedSteps DEF LifeInv
<1>2. Opened(s) /\ ~IsActive(s) => ~IsActive(s)'
    BY InactiveStays DEF LifeInv, IsActive, ActiveIn
<1>3. (IsActive(s) => Opened(s)) /\ (IsActive(s)' => Opened(s)')
    BY DEF LifeInv, ReferencesOK, IsActive
<1> DEFINE act == IsActive(s)
           opn == Opened(s)
<1>4. Status(s) = IF act THEN "active" ELSE IF opn THEN "ended" ELSE "none"
    BY <1>3 DEF Status, Opened
<1>5. Status(s)' = IF act' THEN "active" ELSE IF opn' THEN "ended" ELSE "none"
    BY <1>3 DEF Status, Opened
<1> HIDE DEF act, opn
<1>6. (opn => opn') /\ (opn /\ ~act => ~act') /\ (act => opn)
    BY <1>1, <1>2, <1>3 DEF act, opn
<1> QED
    BY <1>4, <1>5, <1>6

\* What a request presents stays, while its frame does.
LEMMA PresentsStays ==
    ASSUME LifeInv, [Next]_vars, NEW q \in Requests, fr'[q].g = fr[q].g
    PROVE  Presents(q)' = Presents(q)
<1>1. CASE fr[q].g = None
    BY <1>1 DEF Presents
<1>2. CASE fr[q].g # None
    <2>1. fr[q].g \in DOMAIN jwt
        BY <1>2 DEF LifeInv, PresentedKnown
    <2>2. pc[fr[q].g] \in {"ok", "done"}
        BY <2>1 DEF LifeInv, ReferencesOK
    <2>3. jwt'[fr[q].g] = jwt[fr[q].g]
        BY <2>1, <2>2, JwtSteps DEF LifeInv
    <2> QED
        BY <1>2, <2>3 DEF Presents
<1> QED
    BY <1>1, <1>2

\* What a step is to one request, in the terms of the abstract specification.
SameRequest(q) ==
    /\ Phase(q)' = Phase(q) /\ Presents(q)' = Presents(q)
    /\ fr'[q].dead = fr[q].dead /\ fr'[q].live = fr[q].live

ComesIn(q) ==
    /\ Phase(q) = "new" /\ Phase(q)' = "arrived"
    /\ Presents(q)' \in Requests \cup {None}
    /\ Presents(q)' # None => Status(Presents(q)') # "none"
    /\ fr'[q].dead = (Presents(q)' # None /\ Status(Presents(q)') = "ended")
    /\ fr'[q].live \in SUBSET {t \in Requests : Status(t) = "active"}

IsAccepted(q) ==
    /\ Phase(q) = "arrived" /\ Phase(q)' = "accepted"
    /\ Presents(q)' = Presents(q)
    /\ ~fr[q].dead /\ fr'[q].dead = fr[q].dead /\ fr'[q].live = fr[q].live
    /\ \A s \in fr[q].live : s \in Requests /\ Status(s)' = "ended"

IsClosed(q) ==
    /\ Phase(q) \in {"arrived", "accepted"} /\ Phase(q)' = "closed"
    /\ Presents(q)' = None /\ fr'[q].dead = FALSE /\ fr'[q].live = {}

LEMMA Arrives ==
    ASSUME LifeInv, LifeInv', NEW q \in Requests, Arrive(q)
    PROVE  ComesIn(q)
<1>1. /\ pc[q] = "new" /\ UNCHANGED <<now, store, held>>
      /\ pc'[q] \in {"count", "issue", "rotFind", "authBlk", "sweep"}
    BY ArriveSteps DEF LifeInv
<1>2. Phase(q) = "new" /\ Phase(q)' = "arrived"
    BY <1>1 DEF Phase
<1>3. \A s \in fr'[q].live : s \in Requests /\ IsActive(s)
    BY ArriveAhead DEF LifeInv
<1>4. \A s \in Requests : IsActive(s) => Status(s) = "active"
    BY DEF Status, LifeInv, ReferencesOK, Opened, IsActive
<1>5. CASE fr'[q].g = None /\ ~fr'[q].dead
    <2>1. Presents(q)' = None
        BY <1>5 DEF Presents
    <2>2. fr'[q].dead = FALSE
        BY <1>5 DEF LifeInv, BasicInv, TypeOK, Frame
    <2> QED
        BY <1>2, <1>3, <1>4, <2>1, <2>2 DEF ComesIn
<1>6. CASE /\ fr'[q].g \in DOMAIN jwt
           /\ fr'[q].dead = ~IsActive(jwt[fr'[q].g].sid)
    <2> DEFINE s == jwt[fr'[q].g].sid
    <2>1. fr'[q].g # None /\ s \in Requests /\ s # None
        BY <1>6, ConstantsAssumption DEF LifeInv, BasicInv, TypeOK, TablesOK, Jwt
    <2>2. Presents(q)' = s
        BY <1>1, <2>1 DEF Presents, store
    <2>3. Opened(s)
        BY <1>6 DEF LifeInv, ReferencesOK
    <2>4. Status(s) # "none" /\ (Status(s) = "ended") = ~IsActive(s)
        BY <2>3 DEF Status, Opened
    <2>5. fr'[q].dead = ~IsActive(s)
        BY <1>6
    <2> HIDE DEF s
    <2> QED
        BY <1>2, <1>3, <1>4, <2>1, <2>2, <2>4, <2>5 DEF ComesIn
<1> QED
    BY <1>5, <1>6, ArrivePresents DEF LifeInv

LEMMA Proceeds ==
    ASSUME LifeInv, LifeInv', [Next]_vars, NEW q \in Requests,
           Handle(q) \/ Faulted(q),
           pc[q] \notin {"new", "done"}, pc'[q] \in Steps \ {"new"},
           KeptOrBlank(q, pc'[q], fr'[q])
    PROVE  SameRequest(q) \/ IsAccepted(q) \/ IsClosed(q)
<1>0. Phase(q) \in {"arrived", "accepted"}
    BY DEF Phase
<1>1. CASE pc'[q] = "done"
    <2>1. fr'[q] = Blank
        BY <1>1 DEF LifeInv, BasicInv, FramesOK, FrameOK
    <2>2. Phase(q)' = "closed" /\ Presents(q)' = None
        BY <1>1, <2>1 DEF Phase, Presents, Blank
    <2> QED
        BY <1>0, <2>1, <2>2 DEF IsClosed, Blank
<1>2. CASE pc'[q] # "done"
    <2>1. /\ fr'[q].g = fr[q].g /\ fr'[q].dead = fr[q].dead
          /\ fr'[q].live = fr[q].live
        BY <1>2 DEF KeptOrBlank, Kept
    <2>2. Presents(q)' = Presents(q)
        BY <2>1, PresentsStays
    <2>3. pc[q] # "ok" /\ Phase(q) = "arrived"
        BY <1>2, AnsweredSteps DEF LifeInv, Phase
    <2>4. CASE pc'[q] = "ok"
        <3>1. Phase(q)' = "accepted"
            BY <2>4 DEF Phase
        <3>2. ~fr[q].dead
            BY <2>1, <2>4 DEF LifeInv, DeadInv, Checked, Steps, RotationSteps
        <3>3. ASSUME NEW s \in fr[q].live
              PROVE  s \in Requests /\ Status(s)' = "ended"
            <4>1. s \in Requests
                BY DEF LifeInv, BasicInv, TypeOK, Frame
            <4>2. Opened(s)' /\ ~IsActive(s)'
                BY <2>1, <2>4 DEF LifeInv, RevocationInv, Ahead
            <4> QED
                BY <4>1, <4>2 DEF Status, Opened
        <3> QED
            BY <2>1, <2>2, <2>3, <3>1, <3>2, <3>3 DEF IsAccepted
    <2>5. CASE pc'[q] # "ok"
        <3>1. Phase(q)' = "arrived"
            BY <1>2, <2>5 DEF Phase
        <3> QED
            BY <2>1, <2>2, <2>3, <3>1 DEF SameRequest
    <2> QED
        BY <2>4, <2>5
<1> QED
    BY <1>1, <1>2

\* So each step is one of the abstract specification or changes nothing of it.
LEMMA LifecycleSteps ==
    LifeInv /\ LifeInv' /\ [Next]_vars => [Lifecycle!Next]_(Lifecycle!svars)
<1> SUFFICES ASSUME LifeInv, LifeInv', [Next]_vars
             PROVE  Lifecycle!Next
    OBVIOUS
<1>1. Lifecycle!Forward
    BY StatusSteps DEF Lifecycle!Forward
<1>2. ASSUME NEW q \in Requests
      PROVE  SameRequest(q) \/ ComesIn(q) \/ IsAccepted(q) \/ IsClosed(q)
    <2>1. CASE pc'[q] = pc[q] /\ fr'[q] = fr[q]
        BY <2>1, PresentsStays DEF SameRequest, Phase
    <2> QED
        BY <2>1, RequestSteps, Arrives, Proceeds DEF LifeInv
<1>3. CASE \A q \in Requests : SameRequest(q)
    BY <1>1, <1>3 DEF Lifecycle!Next, Lifecycle!requests, SameRequest
<1>4. ASSUME NEW r \in Requests,
             \A q \in Requests \ {r} : SameRequest(q)
      PROVE  Lifecycle!Next
    <2>1. CASE ComesIn(r)
        <3>1. Lifecycle!Arrive(r)
            BY <1>4, <2>1 DEF Lifecycle!Arrive, ComesIn, SameRequest
        <3> QED
            BY <1>1, <3>1 DEF Lifecycle!Next
    <2>2. CASE IsAccepted(r)
        <3>1. Lifecycle!Accept(r)
            BY <1>4, <2>2 DEF Lifecycle!Accept, IsAccepted, SameRequest
        <3> QED
            BY <1>1, <3>1 DEF Lifecycle!Next
    <2>3. CASE IsClosed(r)
        <3>1. Lifecycle!Close(r)
            BY <1>4, <2>3 DEF Lifecycle!Close, IsClosed, SameRequest
        <3> QED
            BY <1>1, <3>1 DEF Lifecycle!Next
    <2> QED
        BY <1>2, <1>3, <1>4, <2>1, <2>2, <2>3
<1>5. ASSUME NEW q \in Requests, pc'[q] = pc[q] /\ fr'[q] = fr[q]
      PROVE  SameRequest(q)
    BY <1>5, PresentsStays DEF SameRequest, Phase
<1> QED
    BY <1>3, <1>4, <1>5, OneMover DEF LifeInv

LEMMA LifecycleInit == Init => Lifecycle!Init
BY ConstantsAssumption
DEF Init, Lifecycle!Init, Status, Phase, Presents, IsActive, NoRows,
    NotYetOpened, Blank

\* The session subsystem implements the abstract specification SessionLifecycle,
\* for any number of requests, users and sessions, and with all faults: no
\* ended session comes back, none of its tokens is accepted, and a revocation
\* is answered only once it holds.
THEOREM SubsystemImplementsLifecycle == Spec => ImplementsLifecycle
<1>1. Init => LifeInv /\ Lifecycle!Init
    BY InitLife, LifecycleInit
<1>2. LifeInv /\ [Next]_vars => LifeInv'
    BY NextLife
<1>3. LifeInv /\ LifeInv' /\ [Next]_vars => [Lifecycle!Next]_(Lifecycle!svars)
    BY LifecycleSteps
<1> QED
    BY <1>1, <1>2, <1>3, PTL DEF Spec, ImplementsLifecycle, Lifecycle!Spec
-----------------------------------------------------------------------------
(* As long as the logins of a user do not overlap: what createSession       *)
(* promises.                                                                *)
USE DEF Opt, LoginOps, AuthedOps, AllOps, AllFaults, TypeOK

\* A request that turns from "create" to its answer has opened its session.
LEMMA CreatorSteps ==
    ASSUME BasicInv, [Next]_vars, NEW s \in Requests, pc[s] = "create",
           pc'[s] \in {"ok", "issue"}
    PROVE  CreateSession(s)
<1>1. Handle(s) \/ Faulted(s)
    BY ArriveSteps, RequestSteps
<1>2. ~Faulted(s)
    BY DEF Faulted, TxTimeout, Lose, Throw, Fail, Leave, Turn, BasicInv
<1>3. ~(Rotate(s) \/ Reissue(s) \/ AuthBlacklist(s) \/ AuthSession(s) \/ Deliver(s))
    BY DEF Rotate, Reissue, AuthBlacklist, AuthSession, Deliver, RotFind, RotReject,
       RotSession, RotDelete, RotLock, RotInsert, RotCommit, RotLate, Recheck,
       Challenge, Mint, At
<1>4. ~(End(s) \/ CountSessions(s) \/ FindOldest(s) \/ Issue(s))
    BY DEF End, CountSessions, FindOldest, Issue, Blacklist, FindAll, FindOwn,
       InvStart, InvCommit, InvAgain, Sweep, SweepCommit, At
<1> QED
    BY <1>1, <1>2, <1>3, <1>4 DEF Handle, Open

\* The active sessions of a user, of any table and at any time.
ActiveOf(S, t, u) == {s \in DOMAIN S : /\ S[s].user = u
                                      /\ ~S[s].revoked
                                      /\ S[s].exp > t}

\* A step opens one session, or none, and its user is its login's.
LEMMA OpenedBy ==
    ASSUME BasicInv, [Next]_vars
    PROVE  \/ DOMAIN sess' \subseteq DOMAIN sess
           \/ \E r \in Requests : /\ CreateSession(r) /\ sess'[r].user = fr[r].user
                                  /\ DOMAIN sess' = DOMAIN sess \cup {r}
<1>1. ASSUME NEW s \in DOMAIN sess', s \notin DOMAIN sess
      PROVE  s \in Requests /\ CreateSession(s)
    BY <1>1, NextBasic, SessionSteps, CreatorSteps DEF BasicInv, TablesOK
<1>2. ASSUME NEW r \in Requests, CreateSession(r)
      PROVE  sess'[r].user = fr[r].user /\ DOMAIN sess' = DOMAIN sess \cup {r}
    BY <1>2 DEF CreateSession, Put
<1> QED
    BY <1>1, <1>2

\* No login of user u opens a session in this step.
NoneOpened(u) == \A s \in Requests : CreateSession(s) => fr[s].user # u

\* The active sessions of a user only become fewer until one is opened.
LEMMA ActiveShrinks ==
    ASSUME BasicInv, [Next]_vars, NEW u, NoneOpened(u), NEW t \in Nat, NEW v \in Nat,
           t <= v
    PROVE  ActiveOf(sess', v, u) \subseteq ActiveOf(sess, t, u)
<1> SUFFICES ASSUME NEW s \in ActiveOf(sess', v, u)
             PROVE  s \in ActiveOf(sess, t, u)
    OBVIOUS
<1>1. s \in DOMAIN sess' /\ s \in Requests /\ sess'[s].exp \in Nat
    BY NextBasic DEF ActiveOf, BasicInv, TablesOK, SessionRow
<1>2. CASE /\ s \in DOMAIN sess /\ sess'[s].user = sess[s].user
           /\ sess'[s].exp = sess[s].exp
           /\ sess[s].revoked => sess'[s].revoked
    BY <1>1, <1>2 DEF ActiveOf
<1>3. CASE pc[s] = "create" /\ pc'[s] \in {"ok", "issue"}
    <2>1. CreateSession(s)
        BY <1>1, <1>3, CreatorSteps
    <2>2. sess'[s].user = fr[s].user
        BY <2>1 DEF CreateSession, Put
    <2> QED
        BY <1>1, <2>1, <2>2 DEF NoneOpened, ActiveOf
<1> QED
    BY <1>1, <1>2, <1>3, SessionSteps

\* A set of sessions contained in a finite one is no larger.
LEMMA NoMore ==
    ASSUME NEW S, IsFiniteSet(S), NEW T, T \subseteq S
    PROVE  /\ IsFiniteSet(T) /\ Cardinality(T) <= Cardinality(S)
           /\ Cardinality(T) \in Nat /\ Cardinality(S) \in Nat
BY FS_Subset, FS_CardinalityType

\* A login that goes on to make room, or to open its session, leaves fewer
\* active sessions than the limit to its user.
LEMMA HandleCap ==
    ASSUME BasicInv, NEW u \in Users, CapInv(u), [Next]_vars, NoneOpened(u),
           NEW q \in Requests, Handle(q), Kept(fr[q], fr'[q]),
           fr'[q].op \in LoginOps, fr'[q].user = u,
           pc'[q] \in {"create", "inv", "invCommit", "invAgain"}
    PROVE  Cardinality(ActiveOf(sess', now', u) \ Ending(pc'[q], fr'[q]))
               < MaxActiveSessions
<1> USE DEF BasicInv
<1> DEFINE A == ActiveOf(sess, now, u)
           B == ActiveOf(sess', now', u)
<1>f. /\ fr[q] \in Frame /\ FrameOK(pc[q], fr[q])
      /\ fr \in [Requests -> Frame] /\ pc \in [Requests -> Steps]
      /\ fr[q].op \in LoginOps /\ fr[q].user = u
      /\ fr[q].at \in Nat
    BY DEF FramesOK, Kept, Frame, FrameOK, PasswordOps
<1>n. /\ now \in Nat /\ now' \in Nat /\ now <= now'
      /\ MaxActiveSessions \in Nat \ {0}
    BY NextBasic, SessionSteps, ConstantsAssumption DEF TablesOK
<1>s. B \subseteq A /\ A = ActiveSessions(u)
    BY <1>n, ActiveShrinks DEF ActiveOf, ActiveSessions, ActiveAt
<1>z. IsFiniteSet(A) /\ IsFiniteSet(DOMAIN sess)
    BY NoMore DEF ActiveOf, CapInv
<1>c. ASSUME NEW T, IsFiniteSet(T), Cardinality(T) < MaxActiveSessions,
             B \ Ending(pc'[q], fr'[q]) \subseteq T
      PROVE  Cardinality(B \ Ending(pc'[q], fr'[q])) < MaxActiveSessions
    <2> DEFINE D == B \ Ending(pc'[q], fr'[q])
    <2> HIDE DEF D, B, A
    <2>1. /\ Cardinality(D) <= Cardinality(T) /\ Cardinality(D) \in Nat
          /\ Cardinality(T) \in Nat
        BY <1>c, NoMore DEF D
    <2> QED
        BY <1>c, <1>n, <2>1 DEF D
<1>o. pc[q] \in {"inv", "invCommit", "invAgain"} =>
          /\ Cardinality(A \ Ending(pc[q], fr[q])) < MaxActiveSessions
          /\ IsFiniteSet(A \ Ending(pc[q], fr[q]))
    BY <1>f, <1>s, <1>z, NoMore DEF CapInv
<1>l. ~Leave(q)
    BY DEF Leave, Turn
<1> HIDE DEF A, B
<1>1. CASE CountSessions(q)
    <2>1. Cardinality(A) < MaxActiveSessions /\ pc'[q] = "create"
        BY <1>1, <1>f, <1>s DEF CountSessions, Turn, Goto
    <2>2. B \ Ending(pc'[q], fr'[q]) \subseteq A
        BY <1>s
    <2> QED
        BY <1>c, <1>f, <1>z, <2>1, <2>2 DEF B
<1>2. CASE FindOldest(q)
    <2> DEFINE active == ActiveAt(fr[q].at, u)
    <2>0. /\ fr[q].at <= now /\ Cardinality(active) <= MaxActiveSessions
          /\ active = ActiveOf(sess, fr[q].at, u)
        BY <1>2, <1>f DEF FindOldest, At, CapInv, ActiveAt, ActiveOf
    <2>1. B \subseteq active /\ IsFiniteSet(active)
        <3>1. fr[q].at <= now'
            BY <1>f, <1>n, <2>0
        <3>2. B \subseteq ActiveOf(sess, fr[q].at, u)
            BY <1>f, <1>n, <3>1, ActiveShrinks DEF B
        <3>3. active \subseteq DOMAIN sess
            BY DEF ActiveAt
        <3> QED
            BY <1>z, <2>0, <3>2, <3>3, NoMore
    <2>2. CASE active = {}
        <3>1. Cardinality({}) = 0 /\ IsFiniteSet({})
            BY FS_EmptySet
        <3>2. B \ Ending(pc'[q], fr'[q]) \subseteq {}
            BY <2>1, <2>2
        <3>3. Cardinality({}) < MaxActiveSessions
            BY <1>n, <3>1
        <3> QED
            BY <1>c, <1>f, <3>1, <3>2, <3>3 DEF B
    <2>3. ASSUME NEW s \in active,
                 Turn(q, "inv", [fr[q] EXCEPT !.todo = {s}, !.at = 0])
          PROVE  Cardinality(B \ Ending(pc'[q], fr'[q])) < MaxActiveSessions
        <3> DEFINE S == {s}
        <3>1. pc'[q] = "inv" /\ fr'[q].todo = S
            <4> HIDE DEF S
            <4>1. Turn(q, "inv", [fr[q] EXCEPT !.todo = S, !.at = 0])
                BY <2>3 DEF S
            <4> QED
                BY <1>f, <4>1 DEF Turn, Frame
        <3>2. B \ Ending(pc'[q], fr'[q]) \subseteq active \ {s}
            BY <2>1, <3>1 DEF Ending
        <3> HIDE DEF active
        <3>3. /\ IsFiniteSet(active \ {s})
              /\ Cardinality(active \ {s}) = Cardinality(active) - 1
              /\ Cardinality(active) \in Nat
            BY <2>1, <2>3, FS_RemoveElement, FS_CardinalityType
        <3>4. Cardinality(active \ {s}) < MaxActiveSessions
            BY <1>n, <2>0, <3>3
        <3> QED
            BY <1>c, <3>2, <3>3, <3>4
    <2>4. active = {} \/ \E s \in active :
             Turn(q, "inv", [fr[q] EXCEPT !.todo = {s}, !.at = 0])
        <3>1. LET a == ActiveAt(fr[q].at, fr[q].user) IN
              a = {} \/ \E s \in a :
                  Turn(q, "inv", [fr[q] EXCEPT !.todo = {s}, !.at = 0])
            BY ONLY <1>2, Zenon DEF FindOldest
        <3> QED
            BY ONLY <1>f, <3>1
    <2> QED
        BY <1>f, <2>2, <2>3, <2>4 DEF B
<1>3. CASE InvStart(q)
    <2>1. PICK x \in fr[q].todo :
            Turn(q, "invCommit",
                 [fr[q] EXCEPT !.sid = x, !.todo = @ \ {x},
                               !.snap = SessionRows(x)])
        BY <1>3, <1>l DEF InvStart, Fail
    <2>2. /\ pc'[q] = "invCommit" /\ fr'[q].sid = x
          /\ fr'[q].todo = fr[q].todo \ {x} /\ pc[q] = "inv"
        BY <1>3, <1>f, <2>1 DEF Turn, Frame, InvStart, At
    <2>3. B \ Ending(pc'[q], fr'[q]) \subseteq A \ Ending(pc[q], fr[q])
        BY <1>s, <2>1, <2>2 DEF Ending
    <2> QED
        BY <1>c, <1>f, <1>o, <2>2, <2>3 DEF B
<1>4. CASE InvCommit(q)
    <2>1. /\ pc[q] = "invCommit" /\ pc'[q] = "invAgain"
          /\ fr'[q].todo = fr[q].todo /\ fr'[q].sid = fr[q].sid
        BY <1>4, <1>f DEF InvCommit, Turn, Frame, At
    <2>3. B \ Ending(pc'[q], fr'[q]) \subseteq A \ Ending(pc[q], fr[q])
        BY <1>s, <2>1 DEF Ending
    <2> QED
        BY <1>c, <1>f, <1>o, <2>1, <2>3 DEF B
<1>5. CASE InvAgain(q)
    <2>1. /\ pc[q] = "invAgain" /\ fr'[q] = fr[q]
          /\ fr[q].sid \in DOMAIN sess
          /\ sess' = [sess EXCEPT ![fr[q].sid].revoked = TRUE]
          /\ pc'[q] = AfterInvalidation(q)
        BY <1>5, <1>l, <1>f DEF InvAgain, Fail, At, Goto
    <2>2. fr[q].sid \notin B
        BY <2>1 DEF B, ActiveOf, TablesOK, SessionRow
    <2>3. fr[q].todo \subseteq Ending(pc'[q], fr'[q])
        BY <2>1 DEF Ending, AfterInvalidation
    <2>4. B \ Ending(pc'[q], fr'[q]) \subseteq A \ Ending(pc[q], fr[q])
        BY <1>s, <2>1, <2>2, <2>3 DEF Ending
    <2> QED
        BY <1>c, <1>f, <1>o, <2>1, <2>4 DEF B
<1>6. ~(\/ Rotate(q) \/ Reissue(q) \/ AuthBlacklist(q) \/ Deliver(q))
    BY <1>l DEF Rotate, Reissue, AuthBlacklist, AuthSession, Deliver, RotFind,
       RotReject, RotSession, RotDelete, RotLock, RotInsert, RotCommit, RotLate,
       Recheck, Challenge, Mint, Turn, Goto, Fail
<1>7. ~(CreateSession(q) \/ Issue(q) \/ SweepCommit(q) \/ Sweep(q))
    BY <1>l DEF CreateSession, Issue, SweepCommit, Sweep, Turn, Goto, Fail
<1>8. ~(AuthSession(q) \/ Blacklist(q) \/ FindAll(q) \/ FindOwn(q))
    BY <1>f DEF AuthSession, Blacklist, FindAll, FindOwn, At, FrameOK, RevokeOps
<1> QED
    BY <1>1, <1>2, <1>3, <1>4, <1>5, <1>6, <1>7, <1>8 DEF Handle, Open, End, B

\* A login that has found the limit reached looks for the oldest of the
\* sessions it has counted.
LEMMA CountSteps ==
    ASSUME BasicInv, NEW q \in Requests, Handle(q), pc'[q] = "oldest"
    PROVE  fr'[q].at = now /\ fr'[q].user = fr[q].user
<1> USE DEF BasicInv
<1>f. fr[q] \in Frame /\ fr \in [Requests -> Frame] /\ FrameOK(pc[q], fr[q])
    BY DEF FramesOK
<1>1. CASE CountSessions(q)
    BY <1>1, <1>f
    DEF CountSessions, At, Turn, Goto, Frame, FrameOK, PasswordOps
<1>2. ~(Rotate(q) \/ Reissue(q) \/ AuthBlacklist(q) \/ AuthSession(q) \/ Deliver(q))
    BY DEF Rotate, Reissue, AuthBlacklist, AuthSession, Deliver, RotFind, RotReject,
       RotSession, RotDelete, RotLock, RotInsert, RotCommit, RotLate, Recheck,
       Challenge, Mint, Turn, Goto, Fail, Leave, FirstStep
<1>3. ~(End(q) \/ FindOldest(q) \/ CreateSession(q) \/ Issue(q))
    BY DEF End, FindOldest, CreateSession, Issue, Blacklist, FindAll, FindOwn,
       InvStart, InvCommit, InvAgain, AfterInvalidation, Sweep, SweepCommit, Turn,
       Goto, Fail, Leave
<1> QED
    BY <1>1, <1>2, <1>3 DEF Handle, Open

\* The bounds of CapInv on one request, of any tables.
CapOf(u, S, t, p, f) ==
    f.op \in LoginOps /\ f.user = u =>
        /\ p = "oldest" => /\ f.at <= t
                           /\ Cardinality(ActiveOf(S, f.at, u))
                                  <= MaxActiveSessions
        /\ p \in {"create", "inv", "invCommit", "invAgain"} =>
              Cardinality(ActiveOf(S, t, u) \ Ending(p, f))
                  < MaxActiveSessions

\* Until a session is opened every bound stays.
LEMMA CapStays ==
    ASSUME BasicInv, NEW u \in Users, CapInv(u), [Next]_vars, NoneOpened(u)
    PROVE  /\ IsFiniteSet(DOMAIN sess')
           /\ Cardinality(ActiveOf(sess', now', u)) <= MaxActiveSessions
           /\ \A q \in Requests : CapOf(u, sess', now', pc'[q], fr'[q])
<1>n. /\ now \in Nat /\ now' \in Nat /\ now <= now'
      /\ MaxActiveSessions \in Nat \ {0}
      /\ \A q \in Requests : fr[q] \in Frame /\ fr[q].at \in Nat
    BY NextBasic, SessionSteps, ConstantsAssumption DEF BasicInv, TablesOK, Frame
<1>z. ASSUME NEW t PROVE IsFiniteSet(ActiveOf(sess, t, u))
    BY NoMore DEF ActiveOf, CapInv
<1>a. ASSUME NEW t PROVE ActiveAt(t, u) = ActiveOf(sess, t, u)
    BY DEF ActiveAt, ActiveOf
<1>c. ASSUME NEW t \in Nat, NEW v \in Nat, t <= v, NEW E
      PROVE  /\ Cardinality(ActiveOf(sess', v, u) \ E)
                    <= Cardinality(ActiveOf(sess, t, u) \ E)
             /\ Cardinality(ActiveOf(sess', v, u) \ E) \in Nat
             /\ Cardinality(ActiveOf(sess, t, u) \ E) \in Nat
    <2> DEFINE A == ActiveOf(sess, t, u)
               B == ActiveOf(sess', v, u)
    <2>1. B \subseteq A /\ IsFiniteSet(A)
        BY <1>c, <1>z, ActiveShrinks
    <2> HIDE DEF A, B
    <2>2. IsFiniteSet(A \ E) /\ B \ E \subseteq A \ E
        BY <2>1, NoMore
    <2>3. /\ Cardinality(B \ E) <= Cardinality(A \ E)
          /\ Cardinality(B \ E) \in Nat /\ Cardinality(A \ E) \in Nat
        BY <2>2, NoMore
    <2> QED
        BY <2>3 DEF A, B
<1>w. ASSUME NEW t \in Nat, NEW v \in Nat, t <= v
      PROVE  /\ Cardinality(ActiveOf(sess', v, u)) <= Cardinality(ActiveOf(sess, t, u))
             /\ Cardinality(ActiveOf(sess', v, u)) \in Nat
             /\ Cardinality(ActiveOf(sess, t, u)) \in Nat
    <2>1. \A S : S \ {} = S
        OBVIOUS
    <2>2. /\ Cardinality(ActiveOf(sess', v, u) \ {})
                    <= Cardinality(ActiveOf(sess, t, u) \ {})
          /\ Cardinality(ActiveOf(sess', v, u) \ {}) \in Nat
          /\ Cardinality(ActiveOf(sess, t, u) \ {}) \in Nat
        BY <1>c, <1>w
    <2> QED
        BY <2>1, <2>2
<1>1. IsFiniteSet(DOMAIN sess')
    <2>1. CASE DOMAIN sess' \subseteq DOMAIN sess
        BY <2>1, NoMore DEF CapInv
    <2>2. ASSUME NEW r, DOMAIN sess' = DOMAIN sess \cup {r}
          PROVE  IsFiniteSet(DOMAIN sess')
        BY <2>2, FS_AddElement DEF CapInv
    <2> QED
        BY <2>1, <2>2, OpenedBy
<1>b. Cardinality(ActiveOf(sess, now, u)) <= MaxActiveSessions
    BY <1>a DEF CapInv, WithinCap, ActiveSessions
<1>2. Cardinality(ActiveOf(sess', now', u)) <= MaxActiveSessions
    BY <1>n, <1>w, <1>b
<1>3. ASSUME NEW q \in Requests
      PROVE  CapOf(u, sess', now', pc'[q], fr'[q])
    <2>1. CASE pc'[q] = pc[q] /\ fr'[q] = fr[q]
        <3> DEFINE f == fr[q]
                   E == Ending(pc[q], fr[q])
        <3>1. CASE f.op \in LoginOps /\ f.user = u /\ pc[q] = "oldest"
            <4>1. /\ f.at <= now
                  /\ Cardinality(ActiveOf(sess, f.at, u)) <= MaxActiveSessions
                BY <1>a, <3>1 DEF CapInv
            <4>2. f.at <= now' /\ f.at \in Nat
                BY <1>n, <4>1
            <4> HIDE DEF f
            <4>3. Cardinality(ActiveOf(sess', f.at, u)) <= MaxActiveSessions
                BY <1>n, <1>w, <4>1, <4>2
            <4> QED
                BY <2>1, <3>1, <4>2, <4>3 DEF CapOf, f
        <3>2. CASE /\ f.op \in LoginOps /\ f.user = u
                   /\ pc[q] \in {"create", "inv", "invCommit", "invAgain"}
            <4>1. Cardinality(ActiveOf(sess, now, u) \ E) < MaxActiveSessions
                BY <1>a, <3>2 DEF CapInv, ActiveSessions
            <4> HIDE DEF f, E
            <4>2. /\ Cardinality(ActiveOf(sess', now', u) \ E)
                        <= Cardinality(ActiveOf(sess, now, u) \ E)
                  /\ Cardinality(ActiveOf(sess', now', u) \ E) \in Nat
                  /\ Cardinality(ActiveOf(sess, now, u) \ E) \in Nat
                BY <1>n, <1>c
            <4>3. Cardinality(ActiveOf(sess', now', u) \ E) < MaxActiveSessions
                BY <1>n, <4>1, <4>2
            <4> QED
                BY <2>1, <3>2, <4>3 DEF CapOf, f, E
        <3> QED
            BY <2>1, <3>1, <3>2 DEF CapOf
    <2>2. CASE Arrive(q)
        BY <2>2, ArriveSteps DEF CapOf
    <2>3. CASE Handle(q) /\ KeptOrBlank(q, pc'[q], fr'[q])
        <3>1. CASE pc'[q] = "oldest"
            <4>1. fr'[q].at = now
                BY <2>3, <3>1, CountSteps
            <4>2. Cardinality(ActiveOf(sess', now, u)) <= MaxActiveSessions
                BY <1>n, <1>w, <1>b
            <4> QED
                BY <1>n, <3>1, <4>1, <4>2 DEF CapOf
        <3>2. CASE /\ pc'[q] \in {"create", "inv", "invCommit", "invAgain"}
                   /\ Kept(fr[q], fr'[q])
            BY <2>3, <3>2, HandleCap DEF CapOf
        <3> QED
            BY <2>3, <3>1, <3>2 DEF CapOf, KeptOrBlank
    <2>4. CASE Faulted(q)
        <3>1. pc'[q] \in {"done", "rotLate"}
            BY <2>4 DEF Faulted, TxTimeout, Lose, Throw, Fail, Leave, Turn, BasicInv
        <3> QED
            BY <3>1 DEF CapOf
    <2> QED
        BY <2>1, <2>2, <2>3, <2>4, RequestSteps
<1> QED
    BY <1>1, <1>2, <1>3

\* A login that opens a session has room for it, as the only one of its user
\* between count and insert.
LEMMA CapOpens ==
    ASSUME BasicInv, NEW u \in Users, LoginsApart(u), CapInv(u), [Next]_vars,
           NEW r \in Requests, CreateSession(r), fr[r].user = u
    PROVE  /\ IsFiniteSet(DOMAIN sess')
           /\ Cardinality(ActiveOf(sess', now', u)) <= MaxActiveSessions
           /\ \A q \in Requests : CapOf(u, sess', now', pc'[q], fr'[q])
<1> USE DEF BasicInv
<1>n. now \in Nat /\ MaxActiveSessions \in Nat \ {0}
    BY ConstantsAssumption DEF TablesOK
<1>1. /\ pc[r] = "create" /\ now' = now /\ pc'[r] \in {"ok", "issue"}
      /\ DOMAIN sess' = DOMAIN sess \cup {r}
      /\ sess'[r].user = fr[r].user
      /\ \A s \in DOMAIN sess \ {r} : sess'[s] = sess[s]
    BY DEF CreateSession, At, Turn, Put
<1>l. fr[r].op \in LoginOps
    BY <1>1 DEF FramesOK, FrameOK
<1>2. IsFiniteSet(DOMAIN sess')
    BY <1>1, FS_AddElement DEF CapInv
<1>3. Cardinality(ActiveOf(sess', now', u)) <= MaxActiveSessions
    <2> DEFINE A == ActiveOf(sess, now, u)
               B == ActiveOf(sess', now', u)
    <2>1. A = ActiveSessions(u) /\ IsFiniteSet(A)
        BY NoMore DEF ActiveOf, ActiveSessions, ActiveAt, CapInv
    <2>2. Cardinality(A) <= MaxActiveSessions /\ Cardinality(A) \in Nat
        BY <2>1, FS_CardinalityType DEF CapInv, WithinCap
    <2>3. B \subseteq A \cup {r}
        BY <1>1 DEF ActiveOf
    <2>4. Ending(pc[r], fr[r]) = {}
        BY <1>1 DEF Ending
    <2>5. Cardinality(A \ {}) < MaxActiveSessions
        BY <1>1, <1>l, <2>1, <2>4 DEF CapInv
    <2>6. A \ {} = A
        OBVIOUS
    <2> HIDE DEF A, B
    <2>7. /\ IsFiniteSet(A \cup {r})
          /\ Cardinality(A \cup {r}) \in {Cardinality(A), Cardinality(A) + 1}
        BY <2>1, FS_AddElement
    <2>8. Cardinality(B) <= Cardinality(A \cup {r}) /\ Cardinality(B) \in Nat
        BY <2>3, <2>7, NoMore
    <2> QED
        BY <1>n, <2>2, <2>5, <2>6, <2>7, <2>8 DEF B
<1>4. ASSUME NEW q \in Requests
      PROVE  CapOf(u, sess', now', pc'[q], fr'[q])
    <2>1. CASE q = r
        BY <1>1, <2>1 DEF CapOf
    <2>2. CASE q # r
        <3>1. pc'[q] = pc[q] /\ fr'[q] = fr[q]
            BY <2>2 DEF CreateSession, Turn
        <3>2. ~(Opening(q) /\ fr[q].user = u)
            BY <1>1, <1>l, <2>2 DEF LoginsApart, Opening
        <3> QED
            BY <3>1, <3>2 DEF CapOf, Opening
    <2> QED
        BY <2>1, <2>2
<1> QED
    BY <1>2, <1>3, <1>4

LEMMA NextCap ==
    ASSUME BasicInv, NEW u \in Users, LoginsApart(u), CapInv(u), [Next]_vars
    PROVE  CapInv(u)'
<1>1. /\ IsFiniteSet(DOMAIN sess')
      /\ Cardinality(ActiveOf(sess', now', u)) <= MaxActiveSessions
      /\ \A q \in Requests : CapOf(u, sess', now', pc'[q], fr'[q])
    <2>1. CASE NoneOpened(u)
        BY <2>1, CapStays
    <2>2. CASE ~NoneOpened(u)
        BY <2>2, CapOpens DEF NoneOpened
    <2> QED
        BY <2>1, <2>2
<1> QED
    BY <1>1 DEF CapInv, WithinCap, CapOf, ActiveSessions, ActiveAt, ActiveOf

LEMMA InitCap ==
    ASSUME Init, NEW u \in Users
    PROVE  CapInv(u)
<1>1. DOMAIN sess = {}
    BY DEF Init, NoRows
<1>2. IsFiniteSet({}) /\ Cardinality({}) = 0
    BY FS_EmptySet
<1>3. Cardinality(ActiveSessions(u)) <= MaxActiveSessions
    <2>1. ActiveSessions(u) = {}
        BY <1>1 DEF ActiveSessions, ActiveAt
    <2>2. 0 <= MaxActiveSessions
        BY ConstantsAssumption
    <2> QED
        BY <1>2, <2>1, <2>2
<1>4. \A r \in Requests : pc[r] = "new"
    BY DEF Init
<1> QED
    BY <1>1, <1>2, <1>3, <1>4 DEF CapInv, WithinCap

\* A user whose logins do not overlap never has more active sessions than
\* MAX_ACTIVE_SESSIONS: CapOnlyRaced, for any number of users, logins and ways
\* to end a session, whatever other requests, faults and expiries come between
\* the count, the eviction and the insert of createSession. (The run capRace
\* shows that two logins of one user do not keep the limit.)
THEOREM SessionsAreCapped == Spec => CapOnlyRaced
<1> SUFFICES ASSUME NEW CONSTANT u \in Users
             PROVE  Spec => ([]LoginsApart(u) => []WithinCap(u))
    BY DEF CapOnlyRaced
<1> DEFINE Inv == BasicInv /\ CapInv(u)
<1>1. Init => Inv
    BY InitBasic, InitCap
<1>2. Inv /\ LoginsApart(u) /\ [Next]_vars => Inv'
    BY NextBasic, NextCap
<1>3. Inv => WithinCap(u)
    BY DEF CapInv
<1> QED
    BY <1>1, <1>2, <1>3, PTL DEF Spec
-----------------------------------------------------------------------------
(* As long as the rotations of a family do not overlap: what                *)
(* rotateRefreshToken promises.                                             *)

\* Who presents a refresh token was handed it, and what has been handed out
\* belongs to a request that is over.
LEMMA InitHanded == Init => HandedOK
BY ConstantsAssumption DEF Init, HandedOK, Blank

\* A refresh presents a token pair its client was handed.
LEMMA ArriveHeld ==
    ASSUME BasicInv, NEW q \in Requests, Arrive(q), fr'[q].op = "refresh"
    PROVE  fr'[q].g \in held
<1>1. PICK p, f : /\ Moves(q, p, f)
                  /\ f.op \in AuthedOps \cup {"refresh"} => f.g \in held
    BY ArriveMoves
<1> QED
    BY <1>1, MovesType DEF BasicInv

LEMMA NextHanded ==
    ASSUME BasicInv, HandedOK, [Next]_vars
    PROVE  HandedOK'
<1>h. ASSUME NEW g \in held' PROVE g \in held \/ (g \in Requests /\ pc'[g] = "done")
    <2>1. ASSUME NEW r \in Requests, Handle(r) PROVE held' = held \/ Deliver(r)
        BY <2>1
        DEF Handle, Rotate, Open, Reissue, End, AuthBlacklist, AuthSession, RotFind,
            RotReject, RotSession, RotDelete, RotLock, RotInsert, RotCommit, RotLate,
            CountSessions, FindOldest, CreateSession, Issue, Recheck, Challenge, Mint,
            Blacklist, FindAll, FindOwn, InvStart, InvCommit, InvAgain, Sweep,
            SweepCommit
    <2>2. ASSUME NEW r \in Requests, Arrive(r) \/ TxTimeout(r) \/ Lose(r) \/ Throw(r)
          PROVE  held' = held
        BY <2>2, ArriveSteps DEF TxTimeout, Lose, Throw
    <2>3. ASSUME NEW r \in Requests, Deliver(r)
          PROVE  pc'[r] = "done" /\ held' \subseteq held \cup {r}
        BY <2>3 DEF Deliver, Leave, Turn, BasicInv
    <2>4. Cleanup \/ Tick \/ UNCHANGED vars => held' = held
        BY DEF Cleanup, Tick, vars
    <2> QED
        BY <2>1, <2>2, <2>3, <2>4 DEF Next, Finished
<1>1. ASSUME NEW g \in held' PROVE pc'[g] = "done"
    <2>1. CASE g \in held
        <3>1. g \in Requests /\ pc[g] = "done"
            BY <2>1 DEF HandedOK, BasicInv, TablesOK
        <3> QED
            BY <3>1, RequestSteps, ArriveSteps
    <2> QED
        BY <1>h, <2>1
<1>2. held \subseteq held'
    <2>1. ASSUME NEW r \in Requests, Handle(r) PROVE held \subseteq held'
        BY <2>1
        DEF Handle, Rotate, Open, Reissue, End, AuthBlacklist, AuthSession, RotFind,
            RotReject, RotSession, RotDelete, RotLock, RotInsert, RotCommit, RotLate,
            CountSessions, FindOldest, CreateSession, Issue, Recheck, Challenge, Mint,
            Blacklist, FindAll, FindOwn, InvStart, InvCommit, InvAgain, Sweep,
            SweepCommit, Deliver
    <2>2. ASSUME NEW r \in Requests, Arrive(r) \/ TxTimeout(r) \/ Lose(r) \/ Throw(r)
          PROVE  held \subseteq held'
        BY <2>2, ArriveSteps DEF TxTimeout, Lose, Throw
    <2>3. Cleanup \/ Tick \/ UNCHANGED vars => held' = held
        BY DEF Cleanup, Tick, vars
    <2> QED
        BY <2>1, <2>2, <2>3 DEF Next, Finished
<1>3. ASSUME NEW q \in Requests, fr'[q].op = "refresh"
      PROVE  fr'[q].g \in held'
    <2>1. CASE pc'[q] = pc[q] /\ fr'[q] = fr[q]
        BY <1>2, <1>3, <2>1 DEF HandedOK
    <2>2. CASE Arrive(q)
        BY <1>2, <1>3, <2>2, ArriveHeld
    <2>3. CASE KeptOrBlank(q, pc'[q], fr'[q])
        BY <1>2, <1>3, <2>3, ConstantsAssumption DEF KeptOrBlank, Kept, Blank, HandedOK
    <2> QED
        BY <2>1, <2>2, <2>3, RequestSteps
<1> QED
    BY <1>1, <1>3 DEF HandedOK

\* A row stored after a step was stored before, or starts a family, or belongs
\* to the family of a rotation that was at work.
LEMMA RowSteps ==
    ASSUME BasicInv, ReferencesOK, FamiliesOK, [Next]_vars, NEW x \in DOMAIN refresh'
    PROVE  \/ x \in DOMAIN refresh /\ refresh'[x] = refresh[x]
           \/ /\ x \in Requests /\ pc[x] = "issue"
              /\ refresh'[x].fam = x /\ x \notin DOMAIN jwt
           \/ /\ x \in Requests /\ Rotating(x) /\ refresh'[x].fam = fr[x].fam
              /\ pc'[x] \in {"rotCommit", "done"}
<1>1. CASE x \in DOMAIN refresh /\ refresh'[x] = refresh[x]
    BY <1>1
<1>2. CASE pc[x] = "issue" /\ refresh'[x].fam = x
    BY <1>2, NextBasic DEF ReferencesOK, BasicInv, TablesOK
<1>3. CASE /\ \/ pc[x] = "rotInsert" /\ pc'[x] = "rotCommit"
              \/ pc[x] = "rotLate" /\ pc'[x] = "done"
           /\ refresh'[x].fam = fr[x].fam
    BY <1>3, NextBasic DEF Rotating, RotationSteps, BasicInv, TablesOK
<1> QED
    BY <1>1, <1>2, <1>3, RefreshSteps

LEMMA NextCleared ==
    ASSUME BasicInv, ReferencesOK, FamiliesOK, RotationsApart, ClearedOK, [Next]_vars
    PROVE  ClearedOK'
<1> SUFFICES ASSUME NEW q \in Requests,
                    pc'[q] \in {"rotLock", "rotInsert", "rotCommit"},
                    NEW x \in DOMAIN refresh', refresh'[x].fam = fr'[q].fam, x # q
             PROVE  x \in Deleting(pc'[q], fr'[q])
    BY DEF ClearedOK, FamilyRows
<1> DEFINE D == Deleting(pc'[q], fr'[q])
<1>1. /\ pc[q] \in AfterFind /\ fr'[q].fam = fr[q].fam
      /\ fr[q].fam \in DOMAIN jwt /\ Rotating(q)
    <2>1. pc'[q] \in AfterFind
        BY DEF AfterFind, RotationSteps
    <2>2. CASE pc'[q] = pc[q] /\ fr'[q] = fr[q]
        BY <2>1, <2>2 DEF FamiliesOK, Rotating, AfterFind, RotationSteps
    <2>3. CASE Handle(q) \/ Faulted(q)
        <3>1. pc[q] \in AfterFind \cup {"rotFind"}
            BY <2>1, AfterFindSteps DEF AfterFind, RotationSteps
        <3>2. fr[q].op = "refresh"
            BY <3>1 DEF BasicInv, FramesOK, FrameOK
        <3>3. pc[q] \in {"rotDelete", "rotLock", "rotInsert"}
            BY <2>3, <3>2, ReplaceSteps
        <3> QED
            BY <2>1, <3>3, AfterFindSteps
            DEF FamiliesOK, Rotating, AfterFind, RotationSteps
    <2> QED
        BY <2>2, <2>3, RequestSteps, ArriveSteps
<1>2. x \in FamilyRows(fr[q].fam) /\ refresh'[x] = refresh[x]
    <2>1. ~(/\ pc[x] = "issue" /\ refresh'[x].fam = x /\ x \notin DOMAIN jwt)
        BY <1>1
    <2>2. ~(x \in Requests /\ Rotating(x) /\ refresh'[x].fam = fr[x].fam)
        BY <1>1 DEF RotationsApart
    <2> QED
        BY <1>1, <2>1, <2>2, RowSteps DEF FamilyRows
<1>3. pc[q] \in {"rotLock", "rotInsert", "rotCommit"} => x \in Deleting(pc[q], fr[q])
    BY <1>2 DEF ClearedOK
<1>4. CASE pc'[q] = pc[q] /\ fr'[q] = fr[q]
    BY <1>3, <1>4
<1>5. CASE Handle(q) \/ Faulted(q)
    <2>1. fr[q].op = "refresh"
        BY <1>1 DEF BasicInv, FramesOK, FrameOK
    <2>2. CASE Deleting(pc'[q], fr'[q]) = FamilyRows(fr[q].fam)
        BY <1>2, <2>2
    <2>3. CASE /\ pc[q] = "rotLock"
               /\ Deleting(pc'[q], fr'[q]) = fr[q].snap \cap DOMAIN refresh
        BY <1>2, <1>3, <2>3 DEF Deleting, FamilyRows
    <2>4. CASE pc[q] = "rotInsert" /\ Deleting(pc'[q], fr'[q]) = fr[q].del
        BY <1>3, <2>4 DEF Deleting
    <2> QED
        BY <1>5, <2>1, <2>2, <2>3, <2>4, ReplaceSteps
<1> QED
    BY <1>4, <1>5, RequestSteps, ArriveSteps

\* A rotation at work after a step was at work before, or has just found the
\* token it presents.
LEMMA RotatingSteps ==
    ASSUME BasicInv, [Next]_vars, NEW q \in Requests, Rotating(q)'
    PROVE  \/ Rotating(q) /\ fr'[q].fam = fr[q].fam
           \/ /\ fr[q].op = "refresh" /\ fr[q].g \in DOMAIN refresh
              /\ fr'[q].fam = refresh[fr[q].g].fam
<1>1. pc'[q] \in AfterFind /\ pc'[q] \in RotationSteps \cup {"rotLate"}
    BY DEF Rotating, AfterFind
<1>2. CASE pc[q] = "rotFind" /\ fr[q].g \in DOMAIN refresh
           /\ fr'[q].fam = refresh[fr[q].g].fam
    BY <1>2 DEF BasicInv, FramesOK, FrameOK
<1>3. CASE pc[q] \in AfterFind /\ fr'[q].fam = fr[q].fam
    <2>1. CASE pc[q] \in {"recheck", "challenge", "mint"}
        <3>1. pc'[q] # "rotCommit" /\ pc'[q] # pc[q]
            BY <1>1, <2>1, CommitSteps DEF RotationSteps
        <3>2. Minted(pc'[q])
            BY <2>1, MintedStays DEF Minted
        <3> QED
            BY <1>1, <3>1, <3>2 DEF Minted, RotationSteps
    <2> QED
        BY <1>3, <2>1 DEF Rotating, AfterFind
<1> QED
    BY <1>1, <1>2, <1>3, AfterFindSteps DEF AfterFind, RotationSteps

\* How a request with a stored token comes to have its new token committed.
LEMMA CommittedSteps ==
    ASSUME BasicInv, ReferencesOK, FamiliesOK, [Next]_vars,
           NEW q \in DOMAIN refresh', pc'[q] \in Committed
    PROVE  \/ /\ pc[q] \in Committed /\ q \in DOMAIN refresh
              /\ refresh'[q] = refresh[q]
           \/ /\ pc[q] = "rotCommit" /\ q \in DOMAIN refresh
              /\ refresh'[q] = refresh[q] /\ refresh' = Without(refresh, fr[q].del)
           \/ pc[q] = "issue" /\ refresh'[q].fam = q /\ q \notin DOMAIN jwt
<1>1. CASE q \in DOMAIN refresh /\ refresh'[q] = refresh[q]
    <2>1. q \in Requests /\ Minted(pc[q])
        BY <1>1 DEF FamiliesOK, BasicInv, TablesOK
    <2>2. pc[q] # "done"
        BY <2>1, RequestSteps, ArriveSteps DEF Committed
    <2>3. CASE pc[q] = "rotCommit"
        <3>1. Handle(q) \/ Faulted(q)
            BY <2>1, <2>3, RequestSteps, ArriveSteps DEF Committed
        <3>2. fr[q].op = "refresh"
            BY <2>1, <2>3
            DEF BasicInv, FramesOK, FrameOK, AfterFind, RotationSteps
        <3>3. refresh' = Without(refresh, fr[q].del)
            BY <2>1, <2>3, <3>1, <3>2, ReplaceSteps DEF Committed
        <3> QED
            BY <1>1, <2>3, <3>3
    <2> QED
        BY <1>1, <2>1, <2>2, <2>3 DEF Minted, Committed
<1> QED
    BY <1>1, RowSteps DEF Committed

LEMMA NextAlone ==
    ASSUME BasicInv, ReferencesOK, FamiliesOK, HandedOK, RotationsApart, ClearedOK,
           AloneOK, [Next]_vars
    PROVE  AloneOK'
<1> SUFFICES ASSUME NEW r \in DOMAIN refresh', pc'[r] \in Committed
             PROVE  /\ \A x \in DOMAIN refresh' :
                          refresh'[x].fam = refresh'[r].fam => x = r
                    /\ \A q \in Requests :
                          Rotating(q)' => fr'[q].fam # refresh'[r].fam
    BY DEF AloneOK, Committed, FamilyRows, Rotating
<1> DEFINE f == refresh'[r].fam
<1>r. r \in Requests
    BY NextBasic DEF BasicInv, TablesOK
<1>1. CASE pc[r] \in Committed /\ r \in DOMAIN refresh /\ refresh'[r] = refresh[r]
    <2>1. f \in DOMAIN jwt /\ FamilyRows(f) = {r}
          /\ \A q \in Requests : Rotating(q) => fr[q].fam # f
        BY <1>1 DEF AloneOK, FamiliesOK
    <2>2. ASSUME NEW x \in DOMAIN refresh', refresh'[x].fam = f
          PROVE  x = r
        BY <2>1, <2>2, RowSteps DEF FamilyRows
    <2>3. ASSUME NEW q \in Requests, Rotating(q)', fr'[q].fam = f
          PROVE  FALSE
        <3>1. /\ fr[q].op = "refresh" /\ fr[q].g \in DOMAIN refresh
              /\ fr'[q].fam = refresh[fr[q].g].fam
            BY <2>1, <2>3, RotatingSteps
        <3>2. fr[q].g = r
            BY <2>1, <2>3, <3>1 DEF FamilyRows
        <3>3. pc[r] = "done"
            BY <3>1, <3>2 DEF HandedOK
        <3> QED
            BY <1>1, <3>3 DEF Committed
    <2> QED
        BY <2>2, <2>3
<1>2. CASE /\ pc[r] = "rotCommit" /\ r \in DOMAIN refresh
           /\ refresh'[r] = refresh[r] /\ refresh' = Without(refresh, fr[r].del)
    <2>1. refresh[r].fam = fr[r].fam /\ Rotating(r)
        BY <1>r, <1>2 DEF ReferencesOK, Rotating, RotationSteps
    <2>2. ASSUME NEW x \in DOMAIN refresh', refresh'[x].fam = f
          PROVE  x = r
        <3>1. x \in FamilyRows(fr[r].fam) /\ x \notin fr[r].del
            BY <1>2, <2>1, <2>2 DEF Without, FamilyRows
        <3> QED
            BY <1>r, <1>2, <3>1 DEF ClearedOK, Deleting
    <2>3. ASSUME NEW q \in Requests, Rotating(q)', fr'[q].fam = f
          PROVE  FALSE
        <3>1. q # r
            BY <2>3 DEF Rotating, Committed, RotationSteps
        <3>2. pc'[q] = pc[q] /\ fr'[q] = fr[q]
            BY <1>r, <1>2, <3>1, OneMover DEF Committed
        <3>3. Rotating(q) /\ fr[q].fam = fr[r].fam
            BY <1>2, <2>1, <2>3, <3>2 DEF Rotating
        <3> QED
            BY <1>r, <2>1, <3>1, <3>3 DEF RotationsApart
    <2> QED
        BY <2>2, <2>3
<1>3. CASE pc[r] = "issue" /\ f = r /\ r \notin DOMAIN jwt
    <2>1. ASSUME NEW x \in DOMAIN refresh', refresh'[x].fam = f
          PROVE  x = r
        <3>1. ~(x \in DOMAIN refresh /\ refresh'[x] = refresh[x])
            BY <1>3, <2>1 DEF FamiliesOK
        <3>2. ~(x \in Requests /\ Rotating(x) /\ refresh'[x].fam = fr[x].fam)
            BY <1>3, <2>1 DEF FamiliesOK, Rotating, AfterFind
        <3> QED
            BY <1>3, <2>1, <3>1, <3>2, RowSteps
    <2>2. ASSUME NEW q \in Requests, Rotating(q)', fr'[q].fam = f
          PROVE  FALSE
        <3>1. CASE Rotating(q) /\ fr'[q].fam = fr[q].fam
            BY <1>3, <2>2, <3>1 DEF FamiliesOK, Rotating, AfterFind
        <3>2. CASE fr[q].g \in DOMAIN refresh /\ fr'[q].fam = refresh[fr[q].g].fam
            BY <1>3, <2>2, <3>2 DEF FamiliesOK
        <3> QED
            BY <2>2, <3>1, <3>2, RotatingSteps
    <2> QED
        BY <2>1, <2>2
<1> QED
    BY <1>1, <1>2, <1>3, CommittedSteps

\* A refresh token of a session that stays active is deleted only by the
\* commit of a rotation or with another request's session.
LEMMA DeletedBy ==
    ASSUME BasicInv, FamiliesOK, DeletesOK, ExpiriesOK, LongRefresh, [Next]_vars,
           NEW x \in DOMAIN refresh, x \notin DOMAIN refresh',
           IsActive(refresh[x].sid), ActiveIn(sess', now', refresh[x].sid)
    PROVE  \E r \in Requests : pc[r] = "rotCommit" /\ x \in fr[r].del
<1> DEFINE s == refresh[x].sid
<1>n. /\ now \in Nat /\ sess[s].exp \in Nat /\ sess[s].exp > now
      /\ s \in DOMAIN sess /\ refresh[x].exp \in Nat
    BY DEF IsActive, BasicInv, TablesOK, SessionRow, RefreshRow
<1>1. ASSUME NEW r \in Requests, pc[r] = "invCommit", x \in fr[r].snap
      PROVE  fr[r].sid = s
    <2>1. x \in Deleting(pc[r], fr[r])
        BY <1>1 DEF Deleting
    <2> QED
        BY <2>1 DEF DeletesOK
<1>2. ~(refresh[x].exp < now)
    <2>1. sess[s].exp <= refresh[x].exp
        BY <1>n DEF ExpiriesOK
    <2> QED
        BY <1>n, <2>1
<1>3. s \in DOMAIN sess'
    BY DEF ActiveIn
<1>4. ASSUME NEW r \in Requests, pc[r] = "invCommit", x \in fr[r].snap
      PROVE  ActiveIn(sess', now', fr[r].sid)
    BY <1>1, <1>4
<1> QED
    BY <1>2, <1>3, <1>4, DeleteSteps

\* What a step can have done to a request that has inserted its token.
LEMMA FreshSteps ==
    ASSUME BasicInv, ReferencesOK, DeletesOK, FamiliesOK, [Next]_vars,
           NEW q \in Requests
    PROVE  /\ pc'[q] \in Inserted =>
                /\ fr'[q].sid = fr[q].sid
                /\ pc[q] \in Inserted \/ q \in DOMAIN refresh'
           /\ pc'[q] = "ok" /\ q \in DOMAIN jwt' =>
                \/ pc[q] = "issue" /\ q \in DOMAIN refresh'
                \/ pc[q] = "mint" /\ jwt'[q].sid = fr[q].sid
                \/ pc[q] = "ok" /\ q \in DOMAIN jwt /\ jwt'[q] = jwt[q]
<1>1. ASSUME pc'[q] \in Inserted
      PROVE  /\ fr'[q].sid = fr[q].sid
             /\ pc[q] \in Inserted \/ q \in DOMAIN refresh'
    <2>1. pc'[q] \in AfterFind
        BY <1>1 DEF Inserted, AfterFind, RotationSteps
    <2>2. pc[q] = "rotInsert" /\ pc'[q] = "rotCommit" => q \in DOMAIN refresh'
        BY CommitSteps
    <2> QED
        BY <1>1, <2>1, <2>2, AfterFindSteps
<1>2. ASSUME pc'[q] = "ok", q \in DOMAIN jwt'
      PROVE  \/ pc[q] = "issue" /\ q \in DOMAIN refresh'
             \/ pc[q] = "mint" /\ jwt'[q].sid = fr[q].sid
             \/ pc[q] = "ok" /\ q \in DOMAIN jwt /\ jwt'[q] = jwt[q]
    <2>1. CASE q \in DOMAIN jwt /\ jwt'[q] = jwt[q]
        <3>1. pc[q] \in {"ok", "done"}
            BY <2>1 DEF ReferencesOK
        <3>2. pc[q] # "done"
            BY <1>2, RequestSteps, ArriveSteps
        <3> QED
            BY <2>1, <3>1, <3>2
    <2>2. CASE pc[q] = "issue"
        <3>1. q \notin DOMAIN jwt
            BY <2>2 DEF ReferencesOK
        <3> QED
            BY <1>2, <2>2, <3>1, IssueInserts
    <2>3. CASE pc[q] = "mint" /\ jwt'[q].sid = fr[q].sid
        BY <2>3
    <2> QED
        BY <1>2, <2>1, <2>2, <2>3, JwtSteps
<1> QED
    BY <1>1, <1>2

LEMMA NextFresh ==
    ASSUME LongRefresh, BasicInv, ReferencesOK, TokenInv, RotationsApart, AloneOK,
           FreshInv, [Next]_vars
    PROVE  FreshInv'
<1> SUFFICES ASSUME NEW q \in Requests
             PROVE  /\ pc'[q] \in Inserted /\ ActiveIn(sess', now', fr'[q].sid)
                          => q \in DOMAIN refresh'
                    /\ pc'[q] = "rotCommit" => q \notin fr'[q].del
                    /\ pc'[q] = "ok" /\ q \in DOMAIN jwt'
                            /\ ActiveIn(sess', now', jwt'[q].sid)
                          => q \in DOMAIN refresh'
    BY DEF FreshInv, Inserted, IsActive, ActiveIn
<1> USE DEF TokenInv
<1>k. ASSUME pc[q] \in Inserted \cup {"ok"}, q \in DOMAIN refresh,
             IsActive(refresh[q].sid), ActiveIn(sess', now', refresh[q].sid)
      PROVE  q \in DOMAIN refresh'
    <2> SUFFICES ASSUME q \notin DOMAIN refresh' PROVE FALSE
        OBVIOUS
    <2>1. PICK r \in Requests : pc[r] = "rotCommit" /\ q \in fr[r].del
        BY <1>k, DeletedBy
    <2>a. q \in Deleting(pc[r], fr[r])
        BY <2>1 DEF Deleting
    <2>b. pc[r] # "invCommit" /\ Rotating(r)
        BY <2>1 DEF Rotating, RotationSteps
    <2>2. refresh[q].fam = fr[r].fam /\ Rotating(r)
        BY <1>k, <2>a, <2>b DEF DeletesOK
    <2>3. pc[q] = "rotCommit"
        BY <1>k, <2>2 DEF AloneOK, Inserted, Committed
    <2>4. fr[q].fam = refresh[q].fam /\ Rotating(q)
        BY <1>k, <2>3 DEF ReferencesOK, Rotating, RotationSteps
    <2> QED
        BY <2>1, <2>2, <2>3, <2>4 DEF RotationsApart, FreshInv
<1>a. ASSUME NEW s \in Requests, Opened(s), ActiveIn(sess', now', s)
      PROVE  IsActive(s)
    BY <1>a, InactiveStays
<1>o. ASSUME pc[q] \in Inserted
      PROVE  /\ fr[q].sid \in Requests /\ Opened(fr[q].sid)
             /\ q \in DOMAIN refresh => refresh[q].sid = fr[q].sid
    <2>1. pc[q] \in AfterFind
        BY <1>o DEF Inserted, AfterFind, RotationSteps
    <2>2. fr[q].op = "refresh" /\ fr[q].sid \in Requests /\ fr[q].g \in DOMAIN jwt
        BY <2>1 DEF BasicInv, FramesOK, FrameOK, PresentsKnown
    <2> QED
        BY <1>o, <2>1, <2>2 DEF ReferencesOK, Inserted
<1>i. ASSUME pc[q] \in Inserted, ActiveIn(sess', now', fr[q].sid)
      PROVE  q \in DOMAIN refresh'
    <2> DEFINE s == fr[q].sid
    <2>1. s \in Requests /\ Opened(s)
        BY <1>i, <1>o
    <2> HIDE DEF s
    <2>2. IsActive(s)
        BY <1>a, <1>i, <2>1 DEF s
    <2>3. q \in DOMAIN refresh /\ refresh[q].sid = s
        BY <1>i, <1>o, <2>2 DEF FreshInv, Inserted, s
    <2> QED
        BY <1>i, <1>k, <2>2, <2>3 DEF Inserted, s
<1>1. ASSUME pc'[q] \in Inserted, ActiveIn(sess', now', fr'[q].sid)
      PROVE  q \in DOMAIN refresh'
    BY <1>1, <1>i, FreshSteps
<1>2. ASSUME pc'[q] = "rotCommit"
      PROVE  q \notin fr'[q].del
    BY <1>2, CommitSteps, NewIsSafe DEF FreshInv, Minted
<1>3. ASSUME pc'[q] = "ok", q \in DOMAIN jwt', ActiveIn(sess', now', jwt'[q].sid)
      PROVE  q \in DOMAIN refresh'
    <2>1. CASE pc[q] = "mint" /\ jwt'[q].sid = fr[q].sid
        BY <1>3, <1>i, <2>1 DEF Inserted
    <2>2. CASE pc[q] = "ok" /\ q \in DOMAIN jwt /\ jwt'[q] = jwt[q]
        <3> DEFINE s == jwt[q].sid
        <3>1. s \in Requests /\ Opened(s)
            BY <2>2 DEF ReferencesOK, BasicInv, TablesOK, Jwt
        <3> HIDE DEF s
        <3>2. ActiveIn(sess', now', s)
            BY <1>3, <2>2 DEF s
        <3>3. IsActive(s)
            BY <1>a, <3>1, <3>2
        <3>4. q \in DOMAIN refresh /\ refresh[q].sid = s
            BY <2>2, <3>3 DEF FreshInv, ReferencesOK, s
        <3> QED
            BY <1>k, <2>2, <3>2, <3>3, <3>4
    <2> QED
        BY <1>3, <2>1, <2>2, FreshSteps
<1> QED
    BY <1>1, <1>2, <1>3

\* A token pair just answered is good for a refresh while its session is active,
\* unless two rotations of its family have overlapped: LossOnlyRaced, for any
\* number of logins and rotations, whatever faults, late inserts, logouts,
\* revocations and cleanups come in between.
THEOREM FreshTokensAreUsable == Spec => LossOnlyRaced
<1> DEFINE Inv == BasicInv /\ ReferencesOK /\ TokenInv /\ ApartInv
<1>1. Init => Inv
    <2>1. Init => KeptOK /\ ClearedOK /\ AloneOK /\ FreshInv
        BY DEF Init, KeptOK, NoRows, ClearedOK, AloneOK, FreshInv, Inserted
    <2> QED
        BY <2>1, InitBasic, InitReferences, InitFamilies, InitDeletes, InitExpiries,
           InitHanded DEF TokenInv, ApartInv
<1>2. LongRefresh /\ Inv /\ RotationsApart /\ [Next]_vars => Inv'
    BY NextBasic, NextReferences, NextFamilies, NextDeletes, NextExpiries, NextKept,
       NextHanded, NextCleared, NextAlone, NextFresh DEF TokenInv, ApartInv
<1>3. Inv => FreshTokenUsable
    BY DEF ApartInv, FreshInv, FreshTokenUsable, Accepted
<1>4. CASE LongRefresh
    <2>1. Inv /\ RotationsApart /\ [Next]_vars => Inv'
        BY <1>2, <1>4
    <2>2. Spec => ([]RotationsApart => []FreshTokenUsable)
        BY <1>1, <1>3, <2>1, PTL DEF Spec
    <2> QED
        BY <2>2 DEF LossOnlyRaced
<1>5. CASE ~LongRefresh
    BY <1>5 DEF LossOnlyRaced, LongRefresh
<1> QED
    BY <1>4, <1>5
=============================================================================
