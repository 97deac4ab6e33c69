--------------------------- MODULE AuthInvariants ---------------------------
(* The inductive invariant behind the safety properties of AuthSessions:   *)
(* what the frame of a request holds at each step of its handler, how the  *)
(* tables refer to one another, and which checks a request has behind it.  *)
EXTENDS AuthSessions

PasswordOps   == LoginOps \cup {"completeMfa"}
RevokeOps     == {"logout", "logoutAll", "revoke"}
SweepOps      == {"change", "reset"}
AfterFind     == RotationSteps \cup {"rotLate", "recheck", "challenge", "mint"}
InvalidateSteps == {"inv", "invCommit", "invAgain"}

\* A request at step p with frame f: a request that is not being handled has
\* a blank frame, each step belongs to the handlers that reach it, and the
\* local variables it reads have been given a value.
FrameOK(p, f) ==
    /\ p \in {"new", "done"} => f = Blank
    /\ p \in {"count", "oldest", "create"} => f.op \in LoginOps
    /\ p = "issue" => f.op \in PasswordOps /\ f.sid \in Opt(Requests)
    /\ p \in AfterFind \cup {"rotFind"} => f.op = "refresh"
    /\ p \in AfterFind => /\ f.user \in Users
                          /\ f.fam \in Requests
                          /\ f.sid \in Requests
    /\ p \in {"authBlk", "authSession"} => f.op \in AuthedOps
    /\ p = "blacklist" => f.op \in RevokeOps
    /\ p = "findAll" => f.op = "logoutAll"
    /\ p = "findOwn" => f.op = "revoke"
    /\ p \in InvalidateSteps => f.op \in LoginOps \cup RevokeOps
    /\ p \in {"sweep", "sweepCommit"} => f.op \in SweepOps
    /\ f.op \in PasswordOps => f.user \in Users /\ f.dev \in Devices
    /\ f.op = "refresh" => f.dev \in Devices

FramesOK == \A r \in Requests : FrameOK(pc[r], fr[r])

\* A request that presents a token pair presents one the server has made.
PresentsKnown ==
    \A r \in Requests :
        fr[r].op \in AuthedOps \cup {"refresh"} => fr[r].g \in DOMAIN jwt

BasicInv == TypeOK /\ FramesOK /\ PresentsKnown

\* A session identifier that a table, a JWT or a handler refers to belongs to
\* a login that has got as far as opening it: the row of a dead session can
\* not be inserted again. A token pair keeps its session.
Opened(s) == ~NotYetOpened(pc[s], fr[s])

ReferencesOK ==
    /\ \A s \in DOMAIN sess : Opened(s)
    /\ \A g \in DOMAIN jwt : pc[g] \in {"ok", "done"} /\ Opened(jwt[g].sid)
    /\ \A g \in DOMAIN jwt \cap DOMAIN refresh :
          refresh[g].sid = jwt[g].sid /\ refresh[g].fam = jwt[g].fam
    /\ \A r \in Requests :
        /\ pc[r] = "issue" /\ fr[r].sid # None => Opened(fr[r].sid)
        /\ pc[r] \in AfterFind => /\ fr[r].sid = jwt[fr[r].g].sid
                                /\ fr[r].fam = jwt[fr[r].g].fam
        /\ pc[r] \in {"rotCommit", "recheck", "challenge", "mint"}
              /\ r \in DOMAIN refresh => /\ refresh[r].sid = fr[r].sid
                                        /\ refresh[r].fam = fr[r].fam

\* A request that came in on an ended session never gets past the check of
\* its session.
Checked == Steps \ ({"new", "done", "authBlk", "authSession", "rotFind",
                     "rotLate", "recheck"} \cup RotationSteps)

DeadInv ==
    \A r \in Requests :
        /\ fr[r].dead => /\ fr[r].g \in DOMAIN jwt
                         /\ ~IsActive(jwt[fr[r].g].sid)
        /\ pc[r] \in Checked => ~fr[r].dead

\* A request at step p with frame f, asked to end session s of user u that is
\* still active, has s ahead of it.
Ahead(p, f, u, s) ==
    /\ p \in {"inv", "invAgain", "sweepCommit"} => s \in f.todo
    /\ p = "invCommit" => s \in f.todo \cup {f.sid}
    /\ p \in {"authBlk", "authSession", "blacklist", "findOwn"}
          /\ f.op \in {"logout", "revoke"} => s \in f.todo
    /\ f.op \in SweepOps \cup {"logoutAll"} => u = f.user
    /\ p # "ok"

RevocationInv ==
    \A r \in Requests :
        /\ fr[r].at <= now
        /\ fr[r].op \notin SweepOps \cup RevokeOps => fr[r].live = {}
        /\ \A s \in fr[r].live :
            /\ Opened(s)
            /\ IsActive(s) => Ahead(pc[r], fr[r], sess[s].user, s)

\* A blacklisted JWT is past the blacklist check only once it has expired.
BlacklistInv ==
    \A r \in Requests :
        fr[r].black =>
            /\ fr[r].g \in DOMAIN jwt
            /\ fr[r].g \in blk \/ jwt[fr[r].g].exp < now
            /\ pc[r] # "authBlk" => jwt[fr[r].g].exp <= now

\* The sessions a request at step p with frame f is past choosing, and is
\* about to end.
Ending(p, f) == CASE p \in {"invCommit", "invAgain"} -> f.todo \cup {f.sid}
                  [] p \in {"blacklist", "inv", "sweepCommit"} -> f.todo
                  [] OTHER -> {}

OwnedIn(S, u, s) == s \in DOMAIN S => S[s].user = u

\* Every session a request is about to end is one of its own user. Until the
\* guard has compared the two, a logout knows its session only by its JWT.
OwnerInv ==
    \A r \in Requests :
        /\ pc[r] \in {"authBlk", "authSession"} =>
              /\ fr[r].user = jwt[fr[r].g].user
              /\ fr[r].op = "logout" => fr[r].todo = {jwt[fr[r].g].sid}
              /\ fr[r].op \notin {"logout", "revoke"} => fr[r].todo = {}
        /\ \A s \in Ending(pc[r], fr[r]) :
              /\ s \in Requests /\ Opened(s)
              /\ OwnedIn(sess, fr[r].user, s)

\* Past these steps a request inserts no refresh token any more.
Minted(p) == p \in {"rotCommit", "recheck", "challenge", "mint", "ok", "done"}

\* A family is named for the request that issued its first token, and keeps
\* the session of that request's JWT.
FamiliesOK ==
    /\ \A g \in DOMAIN jwt : /\ jwt[g].fam \in DOMAIN jwt
                            /\ jwt[g].sid = jwt[jwt[g].fam].sid
    /\ \A x \in DOMAIN refresh :
          /\ Minted(pc[x])
          /\ refresh[x].fam \in DOMAIN jwt
          /\ refresh[x].sid = jwt[refresh[x].fam].sid
    /\ \A r \in Requests :
          pc[r] \in AfterFind => /\ fr[r].fam \in DOMAIN jwt
                                /\ fr[r].sid = jwt[fr[r].fam].sid

\* The refresh tokens a request at step p with frame f is about to delete.
Deleting(p, f) == CASE p \in {"rotLock", "invCommit"}   -> f.snap
                    [] p \in {"rotInsert", "rotCommit"} -> f.del
                    [] OTHER -> {}

\* They are tokens of the session it works on, those of a rotation of its
\* family, and, once gone, stay gone.
DeletesOK ==
    \A r \in Requests : \A x \in Deleting(pc[r], fr[r]) :
        /\ x \in Requests /\ Minted(pc[x])
        /\ x \in DOMAIN refresh =>
              /\ refresh[x].sid = fr[r].sid
              /\ pc[r] # "invCommit" => refresh[x].fam = fr[r].fam

LongRefresh == RefreshTtl >= SessionTtl

\* A refresh token of a long life outlives its session.
ExpiriesOK ==
    /\ \A s \in DOMAIN sess : sess[s].exp <= now + SessionTtl
    /\ LongRefresh =>
          \A x \in DOMAIN refresh :
              refresh[x].sid \in DOMAIN sess =>
                  sess[refresh[x].sid].exp <= refresh[x].exp

\* A stored refresh token that no rotation is about to commit the deletion of.
Safe(x) == \A r \in Requests : pc[r] = "rotCommit" => x \notin fr[r].del

KeptOK ==
    LongRefresh =>
        \A g \in DOMAIN jwt :
            IsActive(jwt[g].sid) => \E x \in FamilyRows(jwt[g].fam) : Safe(x)

\* The tokens of its family that were stored when a refresh at step p with
\* frame f came in, and still are, are among those it is about to delete, and
\* past its commit there are none.
Replacing(p, f) ==
    LET left == f.old \cap DOMAIN refresh IN
    /\ p \in {"rotLock", "rotInsert", "rotCommit"} => left \subseteq Deleting(p, f)
    /\ p \in {"recheck", "challenge", "mint", "ok"} => left = {}

ReplaceInv ==
    \A r \in Requests :
        /\ \A x \in fr[r].old :
              /\ x \in Requests /\ Minted(pc[x])
              /\ x \in DOMAIN refresh => /\ fr[r].g \in DOMAIN jwt
                                        /\ refresh[x].fam = jwt[fr[r].g].fam
        /\ fr[r].op # "refresh" => fr[r].old = {}
        /\ Replacing(pc[r], fr[r])

TokenInv == FamiliesOK /\ DeletesOK /\ ExpiriesOK /\ KeptOK

IndInv == /\ BasicInv /\ ReferencesOK /\ DeadInv /\ RevocationInv
          /\ BlacklistInv /\ OwnerInv /\ TokenInv /\ ReplaceInv
-----------------------------------------------------------------------------
(* As long as the logins of a user do not overlap *)

\* The active sessions of user u that a login which has made room, or found it,
\* does not end are fewer than the limit, and one that still has to make room
\* looks at no more sessions than the limit allows.
CapInv(u) ==
    /\ IsFiniteSet(DOMAIN sess)
    /\ WithinCap(u)
    /\ \A r \in Requests :
          fr[r].op \in LoginOps /\ fr[r].user = u =>
              /\ pc[r] = "oldest" =>
                    /\ fr[r].at <= now
                    /\ Cardinality(ActiveAt(fr[r].at, u)) <= MaxActiveSessions
              /\ pc[r] \in {"create", "inv", "invCommit", "invAgain"} =>
                    Cardinality(ActiveSessions(u) \ Ending(pc[r], fr[r]))
                        < MaxActiveSessions

(* As long as the rotations of a family do not overlap *)

\* Steps at which the new token is stored and not yet answered.
Inserted  == {"rotCommit", "recheck", "challenge", "mint"}
Committed == {"recheck", "challenge", "mint", "ok"}

\* The rows of its family that a rotation is not about to delete are its own.
ClearedOK ==
    \A r \in Requests :
        pc[r] \in {"rotLock", "rotInsert", "rotCommit"} =>
            FamilyRows(fr[r].fam) \subseteq Deleting(pc[r], fr[r]) \cup {r}

\* Who presents a refresh token was handed it, and what is handed out belongs to
\* a request that is over.
HandedOK ==
    /\ \A g \in held : pc[g] = "done"
    /\ \A r \in Requests : fr[r].op = "refresh" => fr[r].g \in held

\* A token committed and not yet handed out is the only one of its family, and
\* nobody rotates that.
AloneOK ==
    \A r \in DOMAIN refresh :
        pc[r] \in Committed =>
            /\ FamilyRows(refresh[r].fam) = {r}
            /\ \A q \in Requests : Rotating(q) => fr[q].fam # refresh[r].fam

\* It is stored as long as its session is active.
FreshInv ==
    \A r \in Requests :
        /\ pc[r] \in Inserted /\ IsActive(fr[r].sid) => r \in DOMAIN refresh
        /\ pc[r] = "rotCommit" => r \notin fr[r].del
        /\ pc[r] = "ok" /\ r \in DOMAIN jwt /\ IsActive(jwt[r].sid)
              => r \in DOMAIN refresh

ApartInv == ClearedOK /\ HandedOK /\ AloneOK /\ FreshInv
=============================================================================
