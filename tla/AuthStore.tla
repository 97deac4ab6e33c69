----------------------------- MODULE AuthStore -----------------------------
(* The state the session subsystem of the backend works on: the tables    *)
(* sessions, refresh_tokens and token_blacklist of PostgreSQL, the JWTs    *)
(* the server has signed, the token pairs clients have received, and one   *)
(* frame per HTTP request being handled.                                   *)
(*                                                                         *)
(* A handler runs from one `await` to the next without being interrupted,  *)
(* so every action of the modules that extend this one is one database     *)
(* call of a handler, together with the code up to the next call.          *)
(*                                                                         *)
(* A request identifies what it creates: the session a login inserts, and  *)
(* the refresh token and the JWT a request mints, carry the request's name *)
(* (the code draws random identifiers, which never collide either).        *)
EXTENDS Integers, FiniteSets

CONSTANTS
    Users, Devices,      \* a device is a pair (ipAddress, userAgent)
    Requests,            \* the requests of one behaviour, each handled once
    None,                \* "no such id"
    Operations,          \* the operations clients use in this instance
    MfaUsers,            \* users with a verified TOTP factor
    FactorUsers,         \* users with a factor, verified or only set up
    MaxActiveSessions, SessionTtl, RefreshTtl, AccessTtl,
    PoolSize,            \* connections of the Prisma pool
    Faults,              \* the faults of this instance
    MaxInFlight,         \* bound: requests handled at the same time
    MaxTime              \* bound: ticks of the clock

AuthedOps == {"logout", "logoutAll", "revoke", "change", "read"}
LoginOps  == {"login", "social"}
AllOps    == AuthedOps \cup LoginOps \cup {"completeMfa", "refresh", "reset",
                                           "cleanup"}
AllFaults == {"throw", "timeout", "lost"}

ASSUME ConstantsAssumption ==
    /\ None \notin Requests \cup Users \cup Devices \cup AllOps
    /\ MfaUsers \subseteq FactorUsers /\ FactorUsers \subseteq Users
    /\ Operations \subseteq AllOps
    /\ Faults \subseteq AllFaults
    /\ MaxActiveSessions \in Nat \ {0}
    /\ SessionTtl \in Nat \ {0} /\ RefreshTtl \in Nat \ {0}
    /\ AccessTtl \in Nat \ {0}
    /\ PoolSize \in Nat \ {0} /\ MaxInFlight \in Nat /\ MaxTime \in Nat

VARIABLES
    now,       \* the clock
    sess,      \* the rows of sessions, by id
    refresh,   \* the rows of refresh_tokens, by token
    jwt,       \* the access tokens signed so far, by jti
    blk,       \* the jti's with a row in token_blacklist
    held,      \* the token pairs that reached their client
    pc, fr     \* of every request: its next step, and its local variables

store == <<sess, refresh, jwt, blk>>
vars  == <<now, sess, refresh, jwt, blk, held, pc, fr>>

Opt(S) == S \cup {None}

SessionRow == [user : Users, dev : Devices, exp : Nat, revoked : BOOLEAN,
               older : SUBSET Requests]   \* the rows with a smaller createdAt
RefreshRow == [user : Users, sid : Requests, fam : Requests, dev : Devices,
               exp : Nat]
\* `fam` is not in the token: it is the family of the refresh token that was
\* handed out with it, for the properties.
Jwt        == [user : Users, sid : Requests, fam : Requests, exp : Nat]

\* The local variables of a handler. `dead`, `black`, `live` and `old` are not
\* variables of the code: they record what was true when the request came
\* in, for the properties.
Frame == [op : Opt(AllOps), user : Opt(Users), dev : Opt(Devices),
          g : Opt(Requests),     \* the token pair presented
          sid : Opt(Requests),   \* the session worked on
          fam : Opt(Requests),   \* token.familyId of a rotation
          at : Nat,              \* the `now` its next queries compare with
          snap : SUBSET Requests, \* rows a DELETE of this request has seen
          del : SUBSET Requests,  \* rows its open transaction has deleted
          todo : SUBSET Requests, \* sessions still to invalidate
          dead : BOOLEAN,        \* the session of the token presented had ended
          black : BOOLEAN,       \* the presented JWT was blacklisted
          live : SUBSET Requests, \* active sessions it is asked to end
          old : SUBSET Requests]  \* stored tokens of the family to rotate

Blank == [op |-> None, user |-> None, dev |-> None, g |-> None, sid |-> None,
          fam |-> None, at |-> 0, snap |-> {}, del |-> {}, todo |-> {}, dead |-> FALSE,
          black |-> FALSE, live |-> {}, old |-> {}]

RotationSteps == {"rotSession", "rotReject", "rotDelete", "rotLock",
                  "rotInsert", "rotCommit"}
BatchSteps    == {"invCommit", "sweepCommit"}
Steps == RotationSteps \cup BatchSteps \cup
         {"new", "authBlk", "authSession", "count", "oldest", "create",
          "issue", "rotFind", "rotLate", "recheck", "challenge", "mint",
          "blacklist", "findAll", "findOwn", "inv", "invAgain", "sweep",
          "ok", "done"}

NoRows         == [x \in {} |-> {}]
Put(f, k, v)   == [x \in DOMAIN f \cup {k} |-> IF x = k THEN v ELSE f[x]]
Without(f, S)  == [x \in DOMAIN f \ S |-> f[x]]

\* The three conditions every query of the code puts on a live session, and
\* the sessions of a user that meet them at time t.
IsActive(s) == /\ s \in DOMAIN sess
               /\ ~sess[s].revoked
               /\ sess[s].exp > now
ActiveAt(t, u) == {s \in DOMAIN sess : /\ sess[s].user = u
                                      /\ ~sess[s].revoked
                                      /\ sess[s].exp > t}
ActiveSessions(u) == ActiveAt(now, u)

FamilyRows(f)  == {g \in DOMAIN refresh : refresh[g].fam = f}
SessionRows(s) == {g \in DOMAIN refresh : refresh[g].sid = s}

(* Row locks and the connection pool. *)

\* A refresh token row deleted by an open transaction makes a DELETE of
\* another transaction wait.
RowsLocked(r, S) == \E q \in Requests \ {r} : fr[q].del \cap S # {}

\* A session row updated by an open transaction makes other writers wait.
LockedSessions(q) == CASE pc[q] = "invCommit"   -> {fr[q].sid}
                       [] pc[q] = "sweepCommit" -> fr[q].todo
                       [] OTHER                 -> {}
SessionLocked(r, s) == \E q \in Requests \ {r} : s \in LockedSessions(q)

InTx(r)  == pc[r] \in RotationSteps \cup BatchSteps
ConnFree == Cardinality({q \in Requests : InTx(q)}) < PoolSize

(* Control. *)

\* r is at step s and its query gets a connection: the one its transaction
\* holds, or a free one of the pool.
At(r, s)      == pc[r] = s /\ (InTx(r) \/ ConnFree)
Goto(r, s)    == pc' = [pc EXCEPT ![r] = s] /\ fr' = fr
Turn(r, s, f) == pc' = [pc EXCEPT ![r] = s] /\ fr' = [fr EXCEPT ![r] = f]
Leave(r)      == Turn(r, "done", Blank)
\* The handler throws: an open transaction is rolled back (its deletions
\* were never visible), what was committed before stays.
Fail(r)       == Leave(r)
=============================================================================
