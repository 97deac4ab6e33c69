---------------------------- MODULE Credentials ----------------------------
(* Passwords: login, the reset by a mailed link, and the change. One action *)
(* is one query of a handler. A request gives its name to the password it   *)
(* sets, the token it draws and the session it opens; an e-mail address     *)
(* stands for its user. A batch of Prisma is one transaction: its           *)
(* statements read what others have committed, and others see their effect  *)
(* when it commits. The limits of SecurityAbuse and of the number of        *)
(* sessions are not repeated here, nor is what makes a password strong.     *)
EXTENDS Integers, FiniteSets

CONSTANTS
    Requests, Emails,
    Users,                   \* the addresses that have a user
    Local, Verified,         \* users with a local account, and a verified one
    None, First,             \* First: the password an account came with
    Operations,              \* the operations of this instance
    ResetTtl,                \* how long a reset link is good
    MayFail,                 \* queries and mails may fail
    MaxInFlight, MaxTime     \* bounds

Changing  == {"confirm", "change"}
AllOps    == {"login", "social", "forgot"} \cup Changing
Passwords == Requests \cup {First}

ASSUME CredentialsAssumption ==
    /\ None \notin Passwords \cup Emails /\ First \notin Requests
    /\ Verified \subseteq Local /\ Local \subseteq Users /\ Users \subseteq Emails
    /\ Operations \subseteq AllOps
    /\ ResetTtl \in Nat /\ MayFail \in BOOLEAN
    /\ MaxInFlight \in Nat /\ MaxTime \in Nat

VARIABLES
    now,       \* the clock
    password,  \* the password hash of each local account
    resets,    \* password_resets, by token
    sessions,  \* sessions, by id
    mailed,    \* the tokens that reached a mailbox
    pc, fr

tables == <<password, resets, sessions>>
vars   == <<now, password, resets, sessions, mailed, pc, fr>>

Opt(S) == S \cup {None}

ResetRow   == [user : Users, exp : Nat, used : BOOLEAN,
               by : SUBSET Requests]   \* (not in the code) who used it
SessionRow == [user : Users, active : BOOLEAN,
               \* (not in the code) the password it was opened with, if any,
               \* and the changes of the password its login overlapped
               pw : Opt(Passwords), met : SUBSET Requests]

Frame == [op : Opt(AllOps), user : Opt(Emails), arg : Opt(Passwords),
          swept : SUBSET Requests,     \* sessions a transaction has revoked
          \* (not in the code) time, password and active sessions when the
          \* request came in, and the changes of the password it overlapped
          at : Nat, was : Opt(Passwords), had : SUBSET Requests,
          met : SUBSET Requests]
Blank == [op |-> None, user |-> None, arg |-> None, swept |-> {},
          at |-> 0, was |-> None, had |-> {}, met |-> {}]

Steps == {"new", "logFind", "logSession", "reqFind", "reqRow", "reqMail",
          "conFind", "chgFind", "account", "sweep", "commit", "ok", "done"}

NoRows == [x \in {} |-> 0]
With(f, x, v) == [y \in DOMAIN f \cup {x} |-> IF y = x THEN v ELSE f[y]]

Init ==
    /\ now = 0 /\ mailed = {} /\ resets = NoRows /\ sessions = NoRows
    /\ password = [u \in Local |-> First]
    /\ pc = [r \in Requests |-> "new"]
    /\ fr = [r \in Requests |-> Blank]

InFlight == {r \in Requests : pc[r] \notin {"new", "done"}}

Goto(r, step)    == pc' = [pc EXCEPT ![r] = step] /\ fr' = fr
Turn(r, step, f) == pc' = [pc EXCEPT ![r] = step] /\ fr' = [fr EXCEPT ![r] = f]
Leave(r)         == Turn(r, "done", Blank)

(* Arrival *)

ActiveOf(u) == {s \in DOMAIN sessions : sessions[s].user = u /\ sessions[s].active}
AtWork(u)   == {q \in InFlight : fr[q].user = u}

Begin(r, op, step, u, arg) ==
    /\ pc[r] = "new" /\ op \in Operations
    /\ Cardinality(InFlight) < MaxInFlight
    /\ pc' = [pc EXCEPT ![r] = step]
    /\ fr' = [q \in Requests |->
                 IF q = r
                 THEN [op |-> op, user |-> u, arg |-> arg, swept |-> {}, at |-> now,
                       was |-> IF u \in Local THEN password[u] ELSE None,
                       had |-> ActiveOf(u),
                       met |-> {p \in AtWork(u) : fr[p].op \in Changing}]
                 ELSE IF q \in AtWork(u) /\ op \in Changing
                 THEN [fr[q] EXCEPT !.met = @ \cup {r}]
                 ELSE fr[q]]
    /\ UNCHANGED <<now, tables, mailed>>

\* A password that somebody may type: one that is, was, or is about to be set.
Typed == {First} \cup {q \in Requests : pc[q] # "new"}

\* A social login asks its provider and for no password. A change needs a
\* session, as its route is guarded.
Arrive(r) ==
    \/ \E u \in Emails, p \in Typed : Begin(r, "login", "logFind", u, p)
    \/ \E u \in Users : Begin(r, "social", "logSession", u, None)
    \/ \E u \in Emails : Begin(r, "forgot", "reqFind", u, None)
    \/ \E m \in mailed : Begin(r, "confirm", "conFind", m.to, m.token)
    \/ \E u \in Users, p \in Typed :
          ActiveOf(u) # {} /\ Begin(r, "change", "chgFind", u, p)

(* login *)

LogFind(r) ==
    LET u == fr[r].user IN
    /\ pc[r] = "logFind"
    /\ IF u \in Verified /\ password[u] = fr[r].arg
       THEN Goto(r, "logSession") ELSE Leave(r)
    /\ UNCHANGED <<now, tables, mailed>>

LogSession(r) ==
    /\ pc[r] = "logSession"
    /\ sessions' = With(sessions, r, [user |-> fr[r].user, active |-> TRUE,
                                      pw |-> fr[r].arg, met |-> fr[r].met])
    /\ Goto(r, "ok")
    /\ UNCHANGED <<now, password, resets, mailed>>

(* requestPasswordReset *)

\* Variant: unknown addresses go on.
ReqFindAny(r) ==
    /\ pc[r] = "reqFind" /\ Goto(r, "reqRow")
    /\ UNCHANGED <<now, tables, mailed>>

\* An unknown address is answered like a known one.
ReqFind(r) ==
    /\ pc[r] = "reqFind"
    /\ Goto(r, IF fr[r].user \in Users THEN "reqRow" ELSE "ok")
    /\ UNCHANGED <<now, tables, mailed>>

ReqRow(r) ==
    /\ pc[r] = "reqRow"
    /\ resets' = With(resets, r, [user |-> fr[r].user, exp |-> now + ResetTtl,
                                  used |-> FALSE, by |-> {}])
    /\ Goto(r, "reqMail")
    /\ UNCHANGED <<now, password, sessions, mailed>>

ReqMail(r) ==
    /\ pc[r] = "reqMail"
    /\ mailed' = mailed \cup {[to |-> fr[r].user, token |-> r]}
    /\ Goto(r, "ok")
    /\ UNCHANGED <<now, tables>>

(* confirmPasswordReset and changePassword, up to the transaction *)

Confirms(r, good) ==
    /\ pc[r] = "conFind"
    /\ IF fr[r].arg \in good
       THEN Turn(r, "account", [fr[r] EXCEPT !.user = resets[fr[r].arg].user])
       ELSE Leave(r)
    /\ UNCHANGED <<now, tables, mailed>>

\* Variant: a link is good at the time it expires.
ConFindLate(r) ==
    Confirms(r, {t \in DOMAIN resets : ~resets[t].used /\ resets[t].exp >= now})

ConFind(r) ==
    Confirms(r, {t \in DOMAIN resets : ~resets[t].used /\ resets[t].exp > now})

\* Variant: the current password is not asked for.
ChgFindUnasked(r) ==
    /\ pc[r] = "chgFind"
    /\ IF fr[r].user \in Local THEN Goto(r, "account") ELSE Leave(r)
    /\ UNCHANGED <<now, tables, mailed>>

ChgFind(r) ==
    LET u == fr[r].user IN
    /\ pc[r] = "chgFind"
    /\ IF u \in Local /\ password[u] = fr[r].arg
       THEN Goto(r, "account") ELSE Leave(r)
    /\ UNCHANGED <<now, tables, mailed>>

(* The transaction of both *)

\* An update locks its rows to the end of the transaction: that of the account,
\* and where there is none that of the link.
RowLocked(u, t) ==
    \E q \in Requests : /\ pc[q] \in {"sweep", "commit"} /\ fr[q].user = u
                       /\ (u \in Local \/ fr[q].arg = t)

Account(r) ==
    /\ pc[r] = "account" /\ ~RowLocked(fr[r].user, fr[r].arg)
    /\ Goto(r, "sweep")
    /\ UNCHANGED <<now, tables, mailed>>

Sweeps(r, some) ==
    /\ pc[r] = "sweep"
    /\ Turn(r, "commit", [fr[r] EXCEPT !.swept = some])
    /\ UNCHANGED <<now, tables, mailed>>

\* Variant: a change spares the sessions opened with the password it was given.
SweepSparing(r) ==
    Sweeps(r, {s \in ActiveOf(fr[r].user) :
                  ~(fr[r].op = "change" /\ sessions[s].pw = fr[r].arg)})

\* Variant: only the sessions of users with a local account.
SweepLocal(r) == Sweeps(r, IF fr[r].user \in Local THEN ActiveOf(fr[r].user) ELSE {})

Sweep(r) == Sweeps(r, ActiveOf(fr[r].user))

Commits(r, accounts, spent) ==
    /\ pc[r] = "commit"
    /\ password' = [u \in Local |-> IF u \in accounts THEN r ELSE password[u]]
    /\ resets' = [t \in DOMAIN resets |->
                     IF fr[r].op = "confirm" /\ t = fr[r].arg
                     THEN [resets[t] EXCEPT !.used = spent, !.by = @ \cup {r}]
                     ELSE resets[t]]
    /\ sessions' = [s \in DOMAIN sessions |->
                       [sessions[s] EXCEPT !.active = @ /\ s \notin fr[r].swept]]
    /\ Goto(r, "ok")
    /\ UNCHANGED <<now, mailed>>

\* Variant: the token is not marked as used.
CommitUnspent(r) == Commits(r, {fr[r].user}, FALSE)

Commit(r) == Commits(r, {fr[r].user}, TRUE)

(* The system *)

Answer(r) == /\ pc[r] = "ok" /\ Leave(r)
             /\ UNCHANGED <<now, tables, mailed>>

\* A query or a mail fails: an open transaction is rolled back.
Throw(r) == /\ MayFail /\ r \in InFlight /\ pc[r] # "ok" /\ Leave(r)
            /\ UNCHANGED <<now, tables, mailed>>

Tick == /\ now < MaxTime /\ now' = now + 1
        /\ UNCHANGED <<tables, mailed, pc, fr>>

Finished == (\A r \in Requests : pc[r] = "done") /\ UNCHANGED vars

Login(r)  == LogFind(r) \/ LogSession(r)
Forgot(r) == ReqFind(r) \/ ReqRow(r) \/ ReqMail(r)
Change(r) == \/ ConFind(r) \/ ChgFind(r)
             \/ Account(r) \/ Sweep(r) \/ Commit(r)

Next == \/ \E r \in Requests : \/ Arrive(r) \/ Login(r) \/ Forgot(r)
                               \/ Change(r) \/ Answer(r) \/ Throw(r)
        \/ Tick \/ Finished

Spec == Init /\ [][Next]_vars
-----------------------------------------------------------------------------
(* Properties *)

TablesOK ==
    /\ now \in Nat /\ password \in [Local -> Passwords]
    /\ DOMAIN resets \subseteq Requests /\ resets \in [DOMAIN resets -> ResetRow]
    /\ DOMAIN sessions \subseteq Requests
    /\ sessions \in [DOMAIN sessions -> SessionRow]
    /\ mailed \subseteq [to : Users, token : Requests]
    /\ \A m \in mailed : m.token \in DOMAIN resets /\ m.to = resets[m.token].user

TypeOK ==
    /\ TablesOK
    /\ pc \in [Requests -> Steps] /\ fr \in [Requests -> Frame]

\* A session lives on with a password that is no longer the account's only if
\* its login was at work together with a change of the password: a change ends
\* all sessions opened by logins that were over, and a login that comes in
\* later needs the new password.
OldPasswordOverlaps ==
    \A s \in DOMAIN sessions :
        LET row == sessions[s] IN
        row.active /\ row.pw # None /\ row.pw # password[row.user] => row.met # {}

\* A reset link works once: whoever else used it was at work at the same time,
\* and it had not expired when the request came in.
LinkUsedOnce ==
    \A r \in Requests :
        pc[r] = "ok" /\ fr[r].op = "confirm" =>
            /\ resets[fr[r].arg].by \subseteq fr[r].met \cup {r}
            /\ fr[r].at < resets[fr[r].arg].exp

\* When a change or reset is answered with success, every session its user had
\* when it came in is ended, its link is spent, and the password is the new one
\* or that of another change that was at work with it.
AnsweredChangeHolds ==
    \A r \in Requests :
        LET u == fr[r].user IN
        pc[r] = "ok" /\ fr[r].op \in Changing =>
            /\ fr[r].had \cap ActiveOf(u) = {}
            /\ u \in Local => password[u] \in fr[r].met \cup {r}
            /\ fr[r].op = "confirm" => resets[fr[r].arg].used

\* The password of an account changes only by a link that was mailed to its
\* user, or by a request that gave a password the account had when the request
\* came in or has been given since.
PasswordIsProven ==
    [][\A u \in Local : password'[u] # password[u] =>
          LET r == password'[u] IN
          \/ fr[r].op = "confirm" /\ [to |-> u, token |-> fr[r].arg] \in mailed
          \/ /\ fr[r].op = "change" /\ fr[r].user = u
             /\ fr[r].arg \in fr[r].met \cup {fr[r].was}]_vars
=============================================================================
