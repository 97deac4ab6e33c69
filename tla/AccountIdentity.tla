-------------------------- MODULE AccountIdentity --------------------------
(* How accounts come to be: registration, verification of the e-mail       *)
(* address, social accounts, and the set-up of a second factor. One action *)
(* is one query of a handler, a request gives its name to the token or     *)
(* secret it draws, and a user is identified by the e-mail address, which  *)
(* never changes. A profile stands for a provider and an id there; the     *)
(* address that comes with it is whatever the provider says at that time.  *)
EXTENDS Integers, FiniteSets

CONSTANTS
    Requests, Emails, Profiles,
    ProviderOf,              \* the provider of each profile
    None,
    Operations,              \* the operations of this instance
    VerifyTtl,               \* how long a verification link is good
    MayFail,                 \* queries and mails may fail
    MaxInFlight, MaxTime     \* bounds

AllOps == {"register", "resend", "verify", "social", "setup", "confirm"}

ASSUME AccountAssumption ==
    /\ None \notin Requests \cup Emails \cup Profiles
    /\ DOMAIN ProviderOf = Profiles
    /\ Operations \subseteq AllOps
    /\ VerifyTtl \in Nat /\ MayFail \in BOOLEAN
    /\ MaxInFlight \in Nat /\ MaxTime \in Nat

VARIABLES
    now,       \* the clock
    users,     \* the addresses that have a user
    local,     \* the local account of a user: is it verified?
    links,     \* email_verifications, by user: token, expiry, used
    social,    \* the user of each social account
    factor,    \* mfa_factors, by user: secret, verified
    mailed,    \* the links that reached a mailbox
    shown,     \* the secrets that users were shown
    proven,    \* (not in the code) the mailboxes whose links were presented
    signed,    \* (not in the code) profiles and addresses that have signed in
    stranded,  \* (not in the code) users whose registration failed half-way
    pc, fr

tables == <<users, local, links, social, factor>>
ghosts == <<proven, signed, stranded>>
vars   == <<now, users, local, links, social, factor, mailed, shown, proven,
            signed, stranded, pc, fr>>

Opt(S) == S \cup {None}

Frame == [op : Opt(AllOps), user : Opt(Emails), arg : Opt(Requests \cup Profiles),
          fresh : BOOLEAN,   \* the transaction has inserted the user
          at : Nat]          \* (not in the code) when the request came in
Blank == [op |-> None, user |-> None, arg |-> None, fresh |-> FALSE, at |-> 0]

Steps == {"new", "find", "create", "row", "mail", "resFind", "resUpdate",
          "verFind", "verCommit", "socFind", "socCreate", "socUpsert",
          "setup", "conFind", "conCommit", "ok", "done", "failed"}

NoRows == [x \in {} |-> 0]
With(f, x, v) == [y \in DOMAIN f \cup {x} |-> IF y = x THEN v ELSE f[y]]

Init ==
    /\ now = 0 /\ users = {} /\ mailed = {} /\ shown = {} /\ proven = {}
    /\ signed = {} /\ stranded = {}
    /\ local = NoRows /\ links = NoRows /\ social = NoRows /\ factor = NoRows
    /\ pc = [r \in Requests |-> "new"]
    /\ fr = [r \in Requests |-> Blank]

Over     == {"done", "failed"}
InFlight == {r \in Requests : pc[r] \notin {"new"} \cup Over}

Goto(r, step)    == pc' = [pc EXCEPT ![r] = step] /\ fr' = fr
Turn(r, step, f) == pc' = [pc EXCEPT ![r] = step] /\ fr' = [fr EXCEPT ![r] = f]
Leave(r)         == Turn(r, "done", Blank)

(* Arrival: who may send what *)

Begin(r, op, step, u, arg) ==
    /\ pc[r] = "new" /\ op \in Operations
    /\ Cardinality(InFlight) < MaxInFlight
    /\ Turn(r, step, [Blank EXCEPT !.op = op, !.user = u, !.arg = arg,
                                   !.at = now])
    /\ UNCHANGED <<now, tables, mailed, shown, signed, stranded>>

\* A user who can hold a session, as the routes of the second factor require:
\* a social login opens it for the user of the address, whoever the account's is.
CanLogIn(u) == \/ u \in DOMAIN local /\ local[u]
               \/ \E p \in Profiles : <<p, u>> \in signed

Arrive(r) ==
    \/ \E u \in Emails :
          /\ Begin(r, "register", "find", u, None)
             \/ Begin(r, "resend", "resFind", u, None)
          /\ UNCHANGED proven
    \/ \E m \in mailed : /\ Begin(r, "verify", "verFind", None, m.token)
                         /\ proven' = proven \cup {m.to}
    \/ \E p \in Profiles, u \in Emails :
          Begin(r, "social", "socFind", u, p) /\ UNCHANGED proven
    \/ \E u \in users : /\ CanLogIn(u) /\ Begin(r, "setup", "setup", u, None)
                        /\ UNCHANGED proven
    \/ \E s \in shown : /\ Begin(r, "confirm", "conFind", s.user, s.secret)
                        /\ UNCHANGED proven

(* register *)

RegFind(r) ==
    /\ pc[r] = "find"
    /\ IF fr[r].user \in users THEN Leave(r) ELSE Goto(r, "create")
    /\ UNCHANGED <<now, tables, mailed, shown, ghosts>>

\* An insert of an address waits for a transaction that has inserted it too.
Inserting(u) == \E q \in Requests : fr[q].fresh /\ fr[q].user = u

\* The user and the local account, in one statement.
RegCreate(r) ==
    LET u == fr[r].user IN
    /\ pc[r] = "create" /\ ~Inserting(u)
    /\ IF u \in users
       THEN Leave(r) /\ UNCHANGED <<users, local>>
       ELSE /\ users' = users \cup {u}
            /\ local' = With(local, u, FALSE)
            /\ Goto(r, "row")
    /\ UNCHANGED <<now, links, social, factor, mailed, shown, ghosts>>

Link(r) == [token |-> r, exp |-> now + VerifyTtl, used |-> FALSE]

RegRow(r) ==
    /\ pc[r] = "row"
    /\ links' = With(links, fr[r].user, Link(r))
    /\ Goto(r, "mail")
    /\ UNCHANGED <<now, users, local, social, factor, mailed, shown, ghosts>>

Mail(r) ==
    /\ pc[r] = "mail"
    /\ mailed' = mailed \cup {[to |-> fr[r].user, token |-> r]}
    /\ Goto(r, "ok")
    /\ UNCHANGED <<now, tables, shown, ghosts>>

(* resendVerification *)

ResFind(r) ==
    LET u == fr[r].user IN
    /\ pc[r] = "resFind"
    /\ IF u \in DOMAIN local /\ ~local[u] THEN Goto(r, "resUpdate") ELSE Leave(r)
    /\ UNCHANGED <<now, tables, mailed, shown, ghosts>>

\* The update of the links of u that satisfy the condition: none or one.
Renew(r, which(_)) ==
    LET u == fr[r].user IN
    /\ pc[r] = "resUpdate"
    /\ links' = IF u \in DOMAIN links /\ which(links[u])
                THEN [links EXCEPT ![u] = Link(r)] ELSE links
    /\ Goto(r, "mail")
    /\ UNCHANGED <<now, users, local, social, factor, mailed, shown, ghosts>>

\* Variant: only links that have not expired.
ResUpdateLive(r) == Renew(r, LAMBDA l : ~l.used /\ l.exp >= now)

ResUpdate(r) == Renew(r, LAMBDA l : ~l.used)

(* verifyEmail *)

VerFind(r) ==
    LET hits == {u \in DOMAIN links : /\ links[u].token = fr[r].arg
                                      /\ links[u].exp >= now
                                      /\ ~links[u].used}
    IN /\ pc[r] = "verFind"
       /\ \/ hits = {} /\ Leave(r)
          \/ \E u \in hits :
                Turn(r, "verCommit", [fr[r] EXCEPT !.user = u])
       /\ UNCHANGED <<now, tables, mailed, shown, ghosts>>

\* The batch: the link by its row, which a resend may have renewed meanwhile,
\* and the local account of its user.
Verified(r, accounts) ==
    /\ pc[r] = "verCommit"
    /\ links' = [links EXCEPT ![fr[r].user].used = TRUE]
    /\ local' = [u \in DOMAIN local |-> local[u] \/ u \in accounts]
    /\ Goto(r, "ok")
    /\ UNCHANGED <<now, users, social, factor, mailed, shown, ghosts>>

\* Variant: without the condition on the user.
VerCommitAll(r) == Verified(r, Emails)

VerCommit(r) == Verified(r, {fr[r].user})

(* upsertSocialAccount: an interactive transaction *)

SocFind(r) ==
    /\ pc[r] = "socFind"
    /\ Goto(r, IF fr[r].user \in users THEN "socUpsert" ELSE "socCreate")
    /\ UNCHANGED <<now, tables, mailed, shown, ghosts>>

\* Variant: the insert is made outside the transaction.
SocCreateOutside(r) ==
    LET u == fr[r].user IN
    /\ pc[r] = "socCreate" /\ ~Inserting(u)
    /\ users' = users \cup {u}
    /\ IF u \in users THEN Leave(r) ELSE Goto(r, "socUpsert")
    /\ UNCHANGED <<now, local, links, social, factor, mailed, shown, ghosts>>

SocCreate(r) ==
    LET u == fr[r].user IN
    /\ pc[r] = "socCreate" /\ ~Inserting(u)
    /\ IF u \in users THEN Leave(r)
                      ELSE Turn(r, "socUpsert", [fr[r] EXCEPT !.fresh = TRUE])
    /\ UNCHANGED <<now, tables, mailed, shown, ghosts>>

\* Variant: the insert of the user is lost.
SocUpsertOnly(r) ==
    /\ pc[r] = "socUpsert"
    /\ social' = With(social, fr[r].arg, fr[r].user)
    /\ Turn(r, "ok", [fr[r] EXCEPT !.fresh = FALSE])
    /\ UNCHANGED <<now, users, local, links, factor, mailed, shown, ghosts>>

\* User u has an account of the provider of p, and cannot have a second one.
HasProvider(u, p) ==
    \E q \in DOMAIN social : social[q] = u /\ ProviderOf[q] = ProviderOf[p]

\* An account that exists keeps its user, even if the address now is another's.
\* The transaction commits, unless the insert of the account is refused.
SocUpsert(r) ==
    LET p == fr[r].arg
        u == fr[r].user
    IN /\ pc[r] = "socUpsert"
       /\ IF p \notin DOMAIN social /\ HasProvider(u, p)
          THEN Leave(r) /\ UNCHANGED <<users, social, signed>>
          ELSE /\ users' = users \cup {u}
               /\ social' = IF p \in DOMAIN social THEN social
                            ELSE With(social, p, u)
               /\ signed' = signed \cup {<<p, u>>}
               /\ Turn(r, "ok", [fr[r] EXCEPT !.fresh = FALSE])
       /\ UNCHANGED <<now, local, links, factor, mailed, shown, proven, stranded>>

(* setupMfaTotp, confirmMfaTotp *)

NewSecret(r, verified) ==
    LET u == fr[r].user IN
    /\ pc[r] = "setup"
    /\ factor' = With(factor, u, [secret |-> r, verified |-> verified])
    /\ shown' = shown \cup {[user |-> u, secret |-> r]}
    /\ Goto(r, "ok")
    /\ UNCHANGED <<now, users, local, links, social, mailed, ghosts>>

\* Variant: a new secret is unverified.
SetupResets(r) == NewSecret(r, FALSE)

\* A new secret takes the place of the old one, and its verification.
Setup(r) ==
    NewSecret(r, fr[r].user \in DOMAIN factor /\ factor[fr[r].user].verified)

\* The code is computed from the secret the user was shown.
ConFind(r) ==
    LET u == fr[r].user IN
    /\ pc[r] = "conFind"
    /\ IF u \in DOMAIN factor /\ factor[u].secret = fr[r].arg
       THEN Goto(r, "conCommit") ELSE Leave(r)
    /\ UNCHANGED <<now, tables, mailed, shown, ghosts>>

ConCommit(r) ==
    /\ pc[r] = "conCommit"
    /\ factor' = [factor EXCEPT ![fr[r].user].verified = TRUE]
    /\ Goto(r, "ok")
    /\ UNCHANGED <<now, users, local, links, social, mailed, shown, ghosts>>

(* The system *)

Answer(r) == /\ pc[r] = "ok" /\ Leave(r)
             /\ UNCHANGED <<now, tables, mailed, shown, ghosts>>

\* A query or a mail fails: an open transaction is rolled back.
Throw(r) == /\ MayFail /\ r \in InFlight /\ pc[r] # "ok"
            /\ Turn(r, "failed", Blank)
            /\ stranded' = IF pc[r] = "row" THEN stranded \cup {fr[r].user}
                           ELSE stranded
            /\ UNCHANGED <<now, tables, mailed, shown, proven, signed>>

Tick == /\ now < MaxTime /\ now' = now + 1
        /\ UNCHANGED <<tables, mailed, shown, ghosts, pc, fr>>

Finished == (\A r \in Requests : pc[r] \in Over) /\ UNCHANGED vars

Register(r) == RegFind(r) \/ RegCreate(r) \/ RegRow(r) \/ Mail(r)
Resend(r)   == ResFind(r) \/ ResUpdate(r)
VerifyEmail(r) == VerFind(r) \/ VerCommit(r)
Social(r)   == SocFind(r) \/ SocCreate(r) \/ SocUpsert(r)
Mfa(r)      == Setup(r) \/ ConFind(r) \/ ConCommit(r)

Next == \/ \E r \in Requests : \/ Arrive(r) \/ Register(r) \/ Resend(r)
                               \/ VerifyEmail(r) \/ Social(r) \/ Mfa(r)
                               \/ Answer(r) \/ Throw(r)
        \/ Tick \/ Finished

Spec == Init /\ [][Next]_vars
-----------------------------------------------------------------------------
(* Properties *)

TablesOK ==
    /\ now \in Nat /\ users \subseteq Emails
    /\ DOMAIN local \subseteq users /\ local \in [DOMAIN local -> BOOLEAN]
    /\ DOMAIN links \subseteq DOMAIN local
    /\ \A u \in DOMAIN links :
          links[u] \in [token : Requests, exp : Nat, used : BOOLEAN]
    /\ DOMAIN social \subseteq Profiles /\ social \in [DOMAIN social -> users]
    /\ DOMAIN factor \subseteq users
    /\ \A u \in DOMAIN factor :
          factor[u] \in [secret : Requests, verified : BOOLEAN]
    /\ mailed \subseteq [to : users, token : Requests]
    /\ shown \subseteq [user : users, secret : Requests]
    /\ proven \subseteq users /\ stranded \subseteq users
    /\ signed \subseteq Profiles \X users

TypeOK ==
    /\ TablesOK
    /\ pc \in [Requests -> Steps] /\ fr \in [Requests -> Frame]

\* A local account is verified only when a link that was mailed to its address
\* has been presented, whatever links of others are renewed, expire or are
\* used at the same time: logins trust verifiedAt.
VerifiedByMailbox == \A u \in DOMAIN local : local[u] => u \in proven

\* When registration or resending is answered with success and no other request
\* is at work, the account is verified or its mailbox holds a link that is the
\* stored one and was renewed since the request came in, although several may
\* have renewed it at once. (When no request has failed: a registration that
\* fails before it stores a link leaves nothing that resending could renew.)
AnsweredLinkIsGood ==
    \A r \in Requests :
        LET u == fr[r].user IN
        /\ pc[r] = "ok" /\ fr[r].op \in {"register", "resend"} /\ InFlight = {r}
        /\ \A q \in Requests : pc[q] # "failed"
        =>
            \/ local[u]
            \/ /\ u \in DOMAIN links
               /\ [to |-> u, token |-> links[u].token] \in mailed
               /\ links[u].exp >= fr[r].at + VerifyTtl

\* An account of user u's own to log in with: a local one that is verified or
\* that a stored link can still verify, or a social one.
HasAccount(u) ==
    \/ u \in DOMAIN local /\ (local[u] \/ (u \in DOMAIN links /\ ~links[u].used))
    \/ \E p \in DOMAIN social : social[p] = u

\* An address that is taken, and can therefore never be registered, without an
\* account to log in with: this is left behind by a registration that fails
\* between the user and the link, and by a profile that signs in with another
\* address than that of the user its account belongs to; and by nothing else, no
\* other failure and no race of registrations, links and social logins.
OrphansHaveCause ==
    \A u \in users :
        \/ HasAccount(u)
        \/ \E r \in Requests : pc[r] = "row" /\ fr[r].user = u
        \/ u \in stranded
        \/ \E p \in DOMAIN social : social[p] # u /\ <<p, u>> \in signed

\* Once a second factor is verified it is asked for ever after: no set-up,
\* abandoned half-way or overlapping a confirmation, turns it off.
FactorStaysVerified ==
    [][\A u \in DOMAIN factor : factor[u].verified =>
          u \in DOMAIN factor' /\ factor'[u].verified]_vars
=============================================================================
