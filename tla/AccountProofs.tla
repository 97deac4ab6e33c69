--------------------------- MODULE AccountProofs ---------------------------
(* Proofs about AccountIdentity for every value of its constants.          *)
EXTENDS AccountIdentity, TLAPS

USE AccountAssumption DEF TypeOK, Over, ghosts
-----------------------------------------------------------------------------
(* The inductive invariant.                                                *)

\* What each step of a handler finds in its frame.
FrameFits(p, f) ==
    /\ p \in {"find", "create", "resFind"} => f.user \in Emails
    /\ p \in {"row", "mail", "resUpdate"} => f.user \in DOMAIN local
    /\ p = "verFind" => f.arg \in Requests
    /\ p = "verCommit" => f.user \in DOMAIN links
    /\ p \in {"socFind", "socCreate", "socUpsert"} =>
          f.arg \in Profiles /\ f.user \in Emails
    /\ p \in {"setup", "conFind"} => f.user \in users
    /\ p = "conCommit" => f.user \in DOMAIN factor

FramesOK == \A r \in Requests : FrameFits(pc[r], fr[r])

BasicInv == TypeOK /\ FramesOK

\* A token is mailed once, by the request that stored it, to the user it was
\* stored for.
TokensOK ==
    /\ \A m \in mailed : pc[m.token] \in {"ok"} \cup Over
    /\ \A u \in DOMAIN links :
          LET t == links[u].token IN
          /\ pc[t] \in {"mail", "ok"} \cup Over
          /\ pc[t] = "mail" => fr[t].user = u
    /\ \A m \in mailed, u \in DOMAIN links :
          links[u].token = m.token => u = m.to

\* A request that presents a token has proven the mailbox it was mailed to.
ProvenOK ==
    \A r \in Requests :
        /\ pc[r] = "verFind" =>
              \E m \in mailed : m.token = fr[r].arg /\ m.to \in proven
        /\ pc[r] = "verCommit" => fr[r].user \in proven

MailboxInv == TokensOK /\ ProvenOK /\ VerifiedByMailbox
-----------------------------------------------------------------------------
(* Types and frames.                                                       *)

\* No row is ever deleted.
Grows == /\ users \subseteq users' /\ DOMAIN local \subseteq DOMAIN local'
         /\ DOMAIN links \subseteq DOMAIN links'
         /\ DOMAIN factor \subseteq DOMAIN factor'

\* The blank frame is a frame.
LEMMA BlankType == Blank \in Frame
BY DEF Blank, Frame, Opt

\* r moves to a step and a frame that fit each other, the others stay.
LEMMA MovesType ==
    ASSUME NEW r \in Requests, NEW p \in Steps, NEW f \in Frame,
           BasicInv, Grows, Turn(r, p, f), FrameFits(p, f)'
    PROVE  /\ pc' \in [Requests -> Steps] /\ fr' \in [Requests -> Frame]
           /\ FramesOK'
<1>1. pc' \in [Requests -> Steps] /\ fr' \in [Requests -> Frame]
    BY DEF Turn, BasicInv
<1>2. /\ pc'[r] = p /\ fr'[r] = f
      /\ \A q \in Requests \ {r} : pc'[q] = pc[q] /\ fr'[q] = fr[q]
    BY DEF Turn, BasicInv
<1>3. ASSUME NEW q \in Requests PROVE FrameFits(pc[q], fr[q])'
    <2>1. CASE q = r
        BY <1>2, <2>1 DEF FrameFits
    <2>2. CASE q # r
        BY <1>2, <2>2 DEF FrameFits, FramesOK, BasicInv, Grows
    <2> QED
        BY <2>1, <2>2
<1> QED
    BY <1>1, <1>3 DEF FramesOK, FrameFits

\* A frame that fits the tables fits them still when they have grown.
LEMMA TurnType ==
    ASSUME NEW r \in Requests, NEW p \in Steps, NEW f \in Frame,
           BasicInv, Grows, Turn(r, p, f), FrameFits(p, f)
    PROVE  /\ pc' \in [Requests -> Steps] /\ fr' \in [Requests -> Frame]
           /\ FramesOK'
<1>1. FrameFits(p, f)'
    BY DEF FrameFits, Grows
<1> QED
    BY <1>1, MovesType

\* The end of a handler fits any tables.
LEMMA LeaveType ==
    ASSUME NEW r \in Requests, BasicInv, Grows, Leave(r)
    PROVE  /\ pc' \in [Requests -> Steps] /\ fr' \in [Requests -> Frame]
           /\ FramesOK'
<1>1. "done" \in Steps /\ FrameFits("done", Blank)'
    BY DEF Steps, FrameFits
<1> QED
    BY <1>1, BlankType, MovesType DEF Leave

\* So does a failure.
LEMMA FailType ==
    ASSUME NEW r \in Requests, BasicInv, Grows, Turn(r, "failed", Blank)
    PROVE  /\ pc' \in [Requests -> Steps] /\ fr' \in [Requests -> Frame]
           /\ FramesOK'
<1>1. "failed" \in Steps /\ FrameFits("failed", Blank)'
    BY DEF Steps, FrameFits
<1> QED
    BY <1>1, BlankType, MovesType

\* The next step of a handler, with the same frame.
LEMMA GotoType ==
    ASSUME NEW r \in Requests, NEW p \in Steps, BasicInv, Grows, Goto(r, p),
           FrameFits(p, fr[r])'
    PROVE  /\ pc' \in [Requests -> Steps] /\ fr' \in [Requests -> Frame]
           /\ FramesOK'
<1>1. fr[r] \in Frame /\ Turn(r, p, fr[r]) /\ fr' = fr
    BY DEF BasicInv, Goto, Turn
<1> QED
    BY <1>1, MovesType DEF FrameFits

\* What With adds and what it keeps.
LEMMA WithType ==
    ASSUME NEW f, NEW x, NEW v
    PROVE  /\ DOMAIN With(f, x, v) = DOMAIN f \cup {x}
           /\ With(f, x, v)[x] = v
           /\ \A y \in DOMAIN f \ {x} : With(f, x, v)[y] = f[y]
BY DEF With

\* The type of what With returns.
LEMMA WithInto ==
    ASSUME NEW S, NEW f, NEW x, NEW v \in S, \A y \in DOMAIN f : f[y] \in S
    PROVE  With(f, x, v) \in [DOMAIN f \cup {x} -> S]
BY DEF With

\* Init establishes the basic invariant.
LEMMA InitBasic == Init => BasicInv
BY BlankType DEF Init, BasicInv, TablesOK, FramesOK, FrameFits, NoRows,
    Steps

\* What a step does to the tables.
Written == TablesOK' /\ Grows

Untouched == UNCHANGED <<now, tables, mailed, shown, ghosts>>

\* A step that reads only.
LEMMA UntouchedWritten == ASSUME BasicInv, Untouched PROVE Written
BY DEF BasicInv, TablesOK, Grows, Written, Untouched, tables

\* The control flow of a handler that has written its tables.
Control == /\ pc' \in [Requests -> Steps] /\ fr' \in [Requests -> Frame]
           /\ FramesOK'

\* Each query of register keeps types and frames.
LEMMA RegisterBasic ==
    ASSUME BasicInv, NEW r \in Requests, Register(r)
    PROVE  Written /\ Control
<1> USE DEF BasicInv
<1>f. FrameFits(pc[r], fr[r]) /\ fr[r] \in Frame
    BY DEF FramesOK
<1>1. CASE RegFind(r)
    <2>1. Written
        BY <1>1, UntouchedWritten DEF RegFind, Untouched
    <2>2. Control
        BY <1>1, <1>f, <2>1, LeaveType, GotoType
            DEF RegFind, Written, Control, FrameFits, Steps, Goto
    <2> QED
        BY <2>1, <2>2
<1>2. CASE RegCreate(r)
    <2> DEFINE u == fr[r].user
    <2>0. u \in Emails
        BY <1>2, <1>f DEF RegCreate, FrameFits
    <2>1. CASE u \in users
        <3>1. Written /\ Leave(r)
            BY <1>2, <2>1, UntouchedWritten DEF RegCreate, Untouched, tables
        <3> QED
            BY <3>1, LeaveType DEF Written, Control
    <2>2. CASE u \notin users
        <3>1. /\ users' = users \cup {u} /\ local' = With(local, u, FALSE)
              /\ Goto(r, "row")
              /\ UNCHANGED <<now, links, social, factor, mailed, shown, ghosts>>
            BY <1>2, <2>2 DEF RegCreate
        <3>2. local' \in [DOMAIN local \cup {u} -> BOOLEAN]
            BY <3>1, WithInto DEF TablesOK
        <3>3. Written
            BY <2>0, <3>1, <3>2 DEF TablesOK, Grows, Written
        <3>4. FrameFits("row", fr[r])' /\ "row" \in Steps
            BY <3>1, <3>2 DEF FrameFits, Steps, Goto
        <3>5. Control
            BY <3>1, <3>3, <3>4, GotoType DEF Written, Control
        <3> QED
            BY <3>3, <3>5
    <2> QED
        BY <2>1, <2>2
<1>3. CASE RegRow(r)
    <2>1. fr[r].user \in DOMAIN local
        BY <1>3, <1>f DEF RegRow, FrameFits
    <2>2. /\ links' = With(links, fr[r].user, Link(r)) /\ Goto(r, "mail")
          /\ UNCHANGED <<now, users, local, social, factor, mailed, shown,
                         ghosts>>
        BY <1>3 DEF RegRow
    <2>3. Link(r) \in [token : Requests, exp : Nat, used : BOOLEAN]
        BY DEF Link, TablesOK
    <2>4. links' \in [DOMAIN links \cup {fr[r].user}
                        -> [token : Requests, exp : Nat, used : BOOLEAN]]
        BY <2>2, <2>3, WithInto DEF TablesOK
    <2>5. Written
        BY <2>1, <2>2, <2>4 DEF TablesOK, Grows, Written
    <2>6. Control
        BY <2>1, <2>2, <2>5, GotoType
            DEF Written, Control, FrameFits, Steps, Goto
    <2> QED
        BY <2>5, <2>6
<1>4. CASE Mail(r)
    <2>1. fr[r].user \in DOMAIN local
        BY <1>4, <1>f DEF Mail, FrameFits
    <2>2. Written
        BY <1>4, <2>1 DEF Mail, TablesOK, Grows, Written, tables
    <2>3. Control
        BY <1>4, <2>2, GotoType DEF Mail, Written, Control, FrameFits, Steps
    <2> QED
        BY <2>2, <2>3
<1> QED
    BY <1>1, <1>2, <1>3, <1>4 DEF Register

\* The same for resendVerification,
LEMMA ResendBasic ==
    ASSUME BasicInv, NEW r \in Requests, Resend(r)
    PROVE  Written /\ Control
<1> USE DEF BasicInv
<1>f. FrameFits(pc[r], fr[r]) /\ fr[r] \in Frame
    BY DEF FramesOK
<1>1. CASE ResFind(r)
    <2>1. Written
        BY <1>1, UntouchedWritten DEF ResFind, Untouched
    <2>2. CASE Leave(r)
        BY <2>1, <2>2, LeaveType DEF Written, Control
    <2>3. CASE Goto(r, "resUpdate") /\ fr[r].user \in DOMAIN local
        BY <1>1, <2>1, <2>3, GotoType
            DEF ResFind, Written, Control, FrameFits, Steps, Goto, tables
    <2> QED
        BY <1>1, <2>1, <2>2, <2>3 DEF ResFind
<1>2. CASE ResUpdate(r)
    <2> DEFINE u == fr[r].user
    <2>1. /\ links' = links \/ links' = [links EXCEPT ![u] = Link(r)]
          /\ Goto(r, "mail")
          /\ UNCHANGED <<now, users, local, social, factor, mailed, shown,
                         ghosts>>
        BY <1>2 DEF ResUpdate, Renew
    <2>2. Link(r) \in [token : Requests, exp : Nat, used : BOOLEAN]
        BY DEF Link, TablesOK
    <2>3. /\ DOMAIN links' = DOMAIN links
          /\ \A v \in DOMAIN links :
                links'[v] \in [token : Requests, exp : Nat, used : BOOLEAN]
        BY <2>1, <2>2 DEF TablesOK
    <2>4. Written
        BY <2>1, <2>3 DEF TablesOK, Grows, Written
    <2>5. u \in DOMAIN local
        BY <1>2, <1>f DEF ResUpdate, Renew, FrameFits
    <2>6. Control
        BY <2>1, <2>4, <2>5, GotoType
            DEF Written, Control, FrameFits, Steps, Goto
    <2> QED
        BY <2>4, <2>6
<1> QED
    BY <1>1, <1>2 DEF Resend

\* for verifyEmail,
LEMMA VerifyBasic ==
    ASSUME BasicInv, NEW r \in Requests, VerifyEmail(r)
    PROVE  Written /\ Control
<1> USE DEF BasicInv
<1>f. FrameFits(pc[r], fr[r]) /\ fr[r] \in Frame
    BY DEF FramesOK
<1>1. CASE VerFind(r)
    <2>1. Written
        BY <1>1, UntouchedWritten DEF VerFind, Untouched
    <2>2. CASE Leave(r)
        BY <2>1, <2>2, LeaveType DEF Written, Control
    <2>3. ASSUME NEW u \in DOMAIN links,
                 Turn(r, "verCommit", [fr[r] EXCEPT !.user = u])
          PROVE  Control
        <3> DEFINE f == [fr[r] EXCEPT !.user = u]
        <3>1. u \in Emails
            BY DEF TablesOK
        <3>2. f \in Frame
            BY <1>f, <3>1 DEF Frame, Opt
        <3>3. f.user = u
            BY <1>f DEF Frame
        <3>4. FrameFits("verCommit", f)
            BY <3>3 DEF FrameFits
        <3>5. "verCommit" \in Steps
            BY DEF Steps
        <3> HIDE DEF f
        <3> QED
            BY <2>1, <2>3, <3>2, <3>4, <3>5, TurnType DEF Written, Control, f
    <2> QED
        BY <1>1, <2>1, <2>2, <2>3 DEF VerFind
<1>2. CASE VerCommit(r)
    <2>1. /\ links' = [links EXCEPT ![fr[r].user].used = TRUE]
          /\ local' = [u \in DOMAIN local |-> local[u] \/ u \in {fr[r].user}]
          /\ Goto(r, "ok")
          /\ UNCHANGED <<now, users, social, factor, mailed, shown, ghosts>>
        BY <1>2 DEF VerCommit, Verified
    <2>2. /\ DOMAIN links' = DOMAIN links
          /\ \A v \in DOMAIN links :
                links'[v] \in [token : Requests, exp : Nat, used : BOOLEAN]
        BY <2>1 DEF TablesOK
    <2>3. local' \in [DOMAIN local -> BOOLEAN]
        BY <2>1
    <2>4. Written
        BY <2>1, <2>2, <2>3 DEF TablesOK, Grows, Written
    <2>5. Control
        BY <2>1, <2>4, GotoType DEF Written, Control, FrameFits, Steps
    <2> QED
        BY <2>4, <2>5
<1> QED
    BY <1>1, <1>2 DEF VerifyEmail

\* for upsertSocialAccount,
LEMMA SocialBasic ==
    ASSUME BasicInv, NEW r \in Requests, Social(r)
    PROVE  Written /\ Control
<1> USE DEF BasicInv
<1>f. FrameFits(pc[r], fr[r]) /\ fr[r] \in Frame
    BY DEF FramesOK
<1>1. CASE SocFind(r)
    <2>1. Written
        BY <1>1, UntouchedWritten DEF SocFind, Untouched
    <2>2. Control
        BY <1>1, <1>f, <2>1, GotoType
            DEF SocFind, Written, Control, FrameFits, Steps, Goto
    <2> QED
        BY <2>1, <2>2
<1>o. ASSUME NEW b \in BOOLEAN, NEW p \in Steps,
             FrameFits("socUpsert", fr[r]), p \in {"socUpsert", "ok"},
             Turn(r, p, [fr[r] EXCEPT !.fresh = b]), Grows
      PROVE  Control
    <2> DEFINE f == [fr[r] EXCEPT !.fresh = b]
    <2>1. f \in Frame /\ f.user = fr[r].user /\ f.arg = fr[r].arg
        BY <1>f DEF Frame
    <2>2. FrameFits(p, f)
        BY <1>o, <2>1 DEF FrameFits
    <2> HIDE DEF f
    <2> QED
        BY <1>o, <2>1, <2>2, TurnType DEF Control, f
<1>2. CASE SocCreate(r)
    <2>1. Written /\ FrameFits("socUpsert", fr[r]) /\ "socUpsert" \in Steps
        BY <1>2, <1>f, UntouchedWritten
            DEF SocCreate, Untouched, FrameFits, Steps
    <2>2. CASE Leave(r)
        BY <2>1, <2>2, LeaveType DEF Written, Control
    <2>3. CASE Turn(r, "socUpsert", [fr[r] EXCEPT !.fresh = TRUE])
        BY <2>1, <2>3, <1>o DEF Written
    <2> QED
        BY <1>2, <2>1, <2>2, <2>3 DEF SocCreate
<1>3. CASE SocUpsert(r)
    <2> DEFINE p == fr[r].arg
               u == fr[r].user
    <2>0. p \in Profiles /\ u \in Emails /\ FrameFits("socUpsert", fr[r])
        BY <1>3, <1>f DEF SocUpsert, FrameFits
    <2>1. CASE /\ Leave(r) /\ UNCHANGED <<users, social, signed>>
               /\ UNCHANGED <<now, local, links, factor, mailed, shown, proven,
                              stranded>>
        <3>1. Written
            BY <2>1 DEF TablesOK, Grows, Written
        <3> QED
            BY <2>1, <3>1, LeaveType DEF Written, Control
    <2>2. CASE /\ users' = users \cup {u}
               /\ social' = IF p \in DOMAIN social THEN social
                            ELSE With(social, p, u)
               /\ signed' = signed \cup {<<p, u>>}
               /\ Turn(r, "ok", [fr[r] EXCEPT !.fresh = FALSE])
               /\ UNCHANGED <<now, local, links, factor, mailed, shown, proven,
                              stranded>>
        <3>1. /\ social' \in [DOMAIN social' -> users']
              /\ DOMAIN social' \subseteq Profiles
            <4>1. With(social, p, u) \in [DOMAIN social \cup {p} -> users \cup {u}]
                BY WithInto DEF TablesOK
            <4>2. social \in [DOMAIN social -> users \cup {u}]
                BY DEF TablesOK
            <4> QED
                BY <2>0, <2>2, <4>1, <4>2 DEF TablesOK
        <3>2. Written
            BY <2>0, <2>2, <3>1 DEF TablesOK, Grows, Written
        <3>3. Control
            BY <1>o, <2>0, <2>2, <3>2 DEF Written, Steps
        <3> QED
            BY <3>2, <3>3
    <2> QED
        BY <1>3, <2>1, <2>2 DEF SocUpsert
<1> QED
    BY <1>1, <1>2, <1>3 DEF Social

\* and for the set-up and confirmation of a second factor.
LEMMA MfaBasic ==
    ASSUME BasicInv, NEW r \in Requests, Mfa(r)
    PROVE  Written /\ Control
<1> USE DEF BasicInv
<1>f. FrameFits(pc[r], fr[r]) /\ fr[r] \in Frame
    BY DEF FramesOK
<1>1. CASE Setup(r)
    <2> DEFINE u == fr[r].user
               v == u \in DOMAIN factor /\ factor[u].verified
    <2>1. /\ factor' = With(factor, u, [secret |-> r, verified |-> v])
          /\ shown' = shown \cup {[user |-> u, secret |-> r]}
          /\ Goto(r, "ok")
          /\ UNCHANGED <<now, users, local, links, social, mailed, ghosts>>
        BY <1>1 DEF Setup, NewSecret
    <2>2. u \in users
        BY <1>1, <1>f DEF Setup, NewSecret, FrameFits
    <2>3. v \in BOOLEAN
        BY DEF TablesOK
    <2>4. [secret |-> r, verified |-> v] \in [secret : Requests, verified : BOOLEAN]
        BY <2>3
    <2>5. factor' \in [DOMAIN factor \cup {u}
                         -> [secret : Requests, verified : BOOLEAN]]
        BY <2>1, <2>4, WithInto DEF TablesOK
    <2>6. Written
        BY <2>1, <2>2, <2>5 DEF TablesOK, Grows, Written
    <2>7. Control
        BY <2>1, <2>6, GotoType DEF Written, Control, FrameFits, Steps
    <2> QED
        BY <2>6, <2>7
<1>2. CASE ConFind(r)
    <2>1. Written
        BY <1>2, UntouchedWritten DEF ConFind, Untouched
    <2>2. CASE Leave(r)
        BY <2>1, <2>2, LeaveType DEF Written, Control
    <2>3. CASE Goto(r, "conCommit") /\ fr[r].user \in DOMAIN factor
        BY <1>2, <2>1, <2>3, GotoType
            DEF ConFind, Written, Control, FrameFits, Steps, Goto, tables
    <2> QED
        BY <1>2, <2>1, <2>2, <2>3 DEF ConFind
<1>3. CASE ConCommit(r)
    <2>1. /\ factor' = [factor EXCEPT ![fr[r].user].verified = TRUE]
          /\ Goto(r, "ok")
          /\ UNCHANGED <<now, users, local, links, social, mailed, shown,
                         ghosts>>
        BY <1>3 DEF ConCommit
    <2>2. /\ DOMAIN factor' = DOMAIN factor
          /\ \A v \in DOMAIN factor :
                factor'[v] \in [secret : Requests, verified : BOOLEAN]
        BY <2>1 DEF TablesOK
    <2>3. Written
        BY <2>1, <2>2 DEF TablesOK, Grows, Written
    <2>4. Control
        BY <2>1, <2>3, GotoType DEF Written, Control, FrameFits, Steps
    <2> QED
        BY <2>3, <2>4
<1> QED
    BY <1>1, <1>2, <1>3 DEF Mfa

\* What an arriving request puts into its frame.
LEMMA ArriveBasic ==
    ASSUME BasicInv, NEW r \in Requests, Arrive(r)
    PROVE  Written /\ Control
<1> USE DEF BasicInv
<1>b. ASSUME NEW op \in AllOps, NEW p \in Steps, NEW u \in Opt(Emails),
             NEW a \in Opt(Requests \cup Profiles), Begin(r, op, p, u, a),
             proven' = proven \/ \E m \in mailed : proven' = proven \cup {m.to},
             \A f \in Frame : f.user = u /\ f.arg = a => FrameFits(p, f)
      PROVE  Written /\ Control
    <2> DEFINE f == [Blank EXCEPT !.op = op, !.user = u, !.arg = a, !.at = now]
    <2>1. f \in Frame /\ f.user = u /\ f.arg = a
        BY DEF Frame, Blank, Opt, TablesOK
    <2>2. Turn(r, p, f) /\ UNCHANGED <<now, tables, mailed, shown, signed, stranded>>
        BY <1>b DEF Begin
    <2>3. Written
        BY <1>b, <2>2 DEF Written, TablesOK, Grows, tables
    <2> HIDE DEF f
    <2> QED
        BY <1>b, <2>1, <2>2, <2>3, TurnType DEF Written, Control
<1>1. ASSUME NEW u \in Emails, proven' = proven,
             Begin(r, "register", "find", u, None) \/ Begin(r, "resend", "resFind", u, None)
      PROVE  Written /\ Control
    BY <1>1, <1>b DEF FrameFits, Opt, AllOps, Steps
<1>2. ASSUME NEW m \in mailed, Begin(r, "verify", "verFind", None, m.token),
             proven' = proven \cup {m.to}
      PROVE  Written /\ Control
    <2>1. m.token \in Requests
        BY DEF TablesOK
    <2> QED
        BY <1>2, <1>b, <2>1 DEF FrameFits, Opt, AllOps, Steps
<1>3. ASSUME NEW p \in Profiles, NEW u \in Emails,
             Begin(r, "social", "socFind", u, p),
             proven' = proven
      PROVE  Written /\ Control
    BY <1>3, <1>b DEF FrameFits, Opt, AllOps, Steps
<1>4. ASSUME NEW u \in users, Begin(r, "setup", "setup", u, None),
             proven' = proven
      PROVE  Written /\ Control
    <2>1. u \in Emails
        BY DEF TablesOK
    <2> QED
        BY <1>4, <1>b, <2>1 DEF FrameFits, Opt, AllOps, Steps
<1>5. ASSUME NEW s \in shown, Begin(r, "confirm", "conFind", s.user, s.secret),
             proven' = proven
      PROVE  Written /\ Control
    <2>1. s.user \in users /\ s.user \in Emails /\ s.secret \in Requests
        BY DEF TablesOK
    <2> QED
        BY <1>5, <1>b, <2>1 DEF FrameFits, Opt, AllOps, Steps
<1> QED
    BY <1>1, <1>2, <1>3, <1>4, <1>5 DEF Arrive

\* Every step keeps the basic invariant, and no step deletes a row.
LEMMA NextBasic == BasicInv /\ [Next]_vars => BasicInv' /\ Grows
<1> SUFFICES ASSUME BasicInv, [Next]_vars PROVE BasicInv' /\ Grows
    OBVIOUS
<1>w. Written /\ Control => BasicInv' /\ Grows
    BY DEF Written, Control, BasicInv
<1>1. ASSUME NEW r \in Requests,
             \/ Arrive(r) \/ Register(r) \/ Resend(r) \/ VerifyEmail(r)
             \/ Social(r) \/ Mfa(r)
      PROVE  Written /\ Control
    BY <1>1, ArriveBasic, RegisterBasic, ResendBasic, VerifyBasic, SocialBasic,
       MfaBasic
<1>2. ASSUME NEW r \in Requests, Answer(r) \/ Throw(r)
      PROVE  Written /\ Control
    <2>1. CASE Answer(r)
        <3>1. Untouched /\ Leave(r)
            BY <2>1 DEF Answer, Untouched
        <3> QED
            BY <3>1, UntouchedWritten, LeaveType DEF Written, Control
    <2>2. CASE Throw(r)
        <3>1. /\ Turn(r, "failed", Blank)
              /\ UNCHANGED <<now, tables, mailed, shown, proven, signed>>
              /\ stranded' = stranded \/ (/\ pc[r] = "row"
                                         /\ stranded' = stranded \cup {fr[r].user})
            BY <2>2 DEF Throw
        <3>2. pc[r] = "row" => fr[r].user \in users
            BY DEF BasicInv, FramesOK, FrameFits, TablesOK
        <3>3. Written
            BY <3>1, <3>2 DEF BasicInv, TablesOK, Grows, Written, tables
        <3> QED
            BY <3>1, <3>3, FailType DEF Written, Control
    <2> QED
        BY <1>2, <2>1, <2>2
<1>3. CASE Tick \/ UNCHANGED vars
    BY <1>3 DEF Tick, vars, tables, BasicInv, TablesOK, FramesOK, FrameFits,
        Grows
<1> QED
    BY <1>w, <1>1, <1>2, <1>3 DEF Next, Finished

\* Types: the tables, frames and control state keep their types, for any
\* requests, addresses and profiles.
THEOREM AccountTypes == Spec => []TypeOK
<1>1. BasicInv => TypeOK
    BY DEF BasicInv
<1> QED
    BY <1>1, InitBasic, NextBasic, PTL DEF Spec
-----------------------------------------------------------------------------
(* A verified factor stays verified.                                       *)

\* Each step leaves a verified factor verified.
LEMMA FactorSteps ==
    ASSUME BasicInv, [Next]_vars,
           NEW u \in DOMAIN factor, factor[u].verified
    PROVE  u \in DOMAIN factor' /\ factor'[u].verified
<1> DEFINE Goal == u \in DOMAIN factor' /\ factor'[u].verified
<1>0. ASSUME UNCHANGED factor PROVE Goal
    BY <1>0
<1>1. ASSUME NEW r \in Requests, Setup(r) PROVE Goal
    BY <1>1 DEF Setup, NewSecret, With
<1>2. ASSUME NEW r \in Requests, ConCommit(r) PROVE Goal
    <2>1. factor[u] \in [secret : Requests, verified : BOOLEAN]
        BY DEF BasicInv, TablesOK
    <2> QED
        BY <1>2, <2>1 DEF ConCommit
<1>3. ASSUME NEW r \in Requests,
             \/ Arrive(r) \/ Register(r) \/ Resend(r) \/ VerifyEmail(r)
             \/ Social(r) \/ ConFind(r) \/ Answer(r) \/ Throw(r)
      PROVE  UNCHANGED factor
    BY <1>3 DEF Arrive, Begin, Register, RegFind, RegCreate, RegRow, Mail, Resend,
        ResFind, ResUpdate, Renew, VerifyEmail, VerFind, VerCommit, Verified,
        Social, SocFind, SocCreate, SocUpsert, ConFind, Answer, Throw, tables
<1>4. CASE Tick \/ UNCHANGED vars
    BY <1>4 DEF Tick, vars, tables
<1> QED
    BY <1>0, <1>1, <1>2, <1>3, <1>4 DEF Next, Finished, Mfa

\* No set-up, abandoned or overlapping a confirmation, turns a verified factor
\* off, for any number of users and requests.
THEOREM FactorsStayVerified == Spec => FactorStaysVerified
<1>1. BasicInv /\ [Next]_vars
      => [\A u \in DOMAIN factor : factor[u].verified =>
            u \in DOMAIN factor' /\ factor'[u].verified]_vars
    BY FactorSteps
<1> QED
    BY <1>1, InitBasic, NextBasic, PTL DEF Spec, FactorStaysVerified
-----------------------------------------------------------------------------
(* Verified accounts.                                                      *)

\* Init establishes the mailbox invariant.
LEMMA InitMailbox == Init => MailboxInv
BY DEF Init, MailboxInv, TokensOK, ProvenOK, VerifiedByMailbox, NoRows

\* How the control state moves in one step: one request at most, and never
\* back from an answer to the mail.
Forward ==
    /\ \A r \in Requests : pc[r] \in {"ok"} \cup Over => pc'[r] \in {"ok"} \cup Over
    /\ \A r \in Requests :
          pc[r] = "mail" => /\ pc'[r] \in {"mail", "ok"} \cup Over
                            /\ pc'[r] = "mail" => fr'[r].user = fr[r].user

\* A step of r leaves the other requests alone.
Alone(r) == \A q \in Requests \ {r} : pc'[q] = pc[q] /\ fr'[q] = fr[q]

\* Steps that neither store nor mail a token.
LEMMA TokensKept ==
    ASSUME BasicInv, TokensOK, Forward, mailed' = mailed,
           DOMAIN links' = DOMAIN links,
           \A u \in DOMAIN links : links'[u].token = links[u].token
    PROVE  TokensOK'
BY DEF BasicInv, TablesOK, TokensOK, Forward

\* The request that stores a token has not mailed it before.
LEMMA TokenStored ==
    ASSUME BasicInv, TokensOK, NEW r \in Requests, NEW u,
           pc[r] \in {"row", "resUpdate"}, fr[r].user = u,
           Goto(r, "mail"), mailed' = mailed, u \in DOMAIN links',
           links'[u].token = r, DOMAIN links' \subseteq DOMAIN links \cup {u},
           \A v \in DOMAIN links \ {u} : links'[v].token = links[v].token
    PROVE  TokensOK'
<1>1. /\ pc'[r] = "mail" /\ fr'[r].user = u
      /\ \A q \in Requests \ {r} : pc'[q] = pc[q] /\ fr'[q] = fr[q]
    BY DEF Goto, BasicInv
<1>2. \A m \in mailed : m.token \in Requests /\ m.token # r
    BY DEF TokensOK, BasicInv, TablesOK
<1>3. \A v \in DOMAIN links : links[v].token \in Requests /\ links[v].token # r
    BY DEF TokensOK, BasicInv, TablesOK
<1>4. ASSUME NEW v \in DOMAIN links'
      PROVE  LET t == links'[v].token IN
             /\ pc'[t] \in {"mail", "ok"} \cup Over
             /\ pc'[t] = "mail" => fr'[t].user = v
    <2>1. CASE v = u
        BY <1>1, <2>1
    <2>2. CASE v # u
        BY <1>1, <1>3, <2>2 DEF TokensOK
    <2> QED
        BY <2>1, <2>2
<1>5. ASSUME NEW m \in mailed, NEW v \in DOMAIN links', links'[v].token = m.token
      PROVE  v = m.to
    BY <1>2, <1>5 DEF TokensOK
<1>6. \A m \in mailed : pc'[m.token] \in {"ok"} \cup Over
    BY <1>1, <1>2 DEF TokensOK
<1> QED
    BY <1>4, <1>5, <1>6 DEF TokensOK

\* A mail carries the token its request has stored for that user.
LEMMA TokenMailed ==
    ASSUME BasicInv, TokensOK, NEW r \in Requests, Mail(r)
    PROVE  TokensOK'
<1>1. /\ pc[r] = "mail" /\ pc'[r] = "ok" /\ links' = links /\ fr' = fr
      /\ \A q \in Requests \ {r} : pc'[q] = pc[q]
      /\ mailed' = mailed \cup {[to |-> fr[r].user, token |-> r]}
    BY DEF Mail, Goto, BasicInv, tables
<1>2. ASSUME NEW m \in mailed'
      PROVE  /\ pc'[m.token] \in {"ok"} \cup Over
             /\ \A v \in DOMAIN links' : links'[v].token = m.token => v = m.to
    <2>1. CASE m \in mailed
        BY <1>1, <2>1 DEF TokensOK, BasicInv, TablesOK
    <2>2. CASE m = [to |-> fr[r].user, token |-> r]
        BY <1>1, <2>2 DEF TokensOK
    <2> QED
        BY <1>1, <2>1, <2>2
<1>3. ASSUME NEW v \in DOMAIN links'
      PROVE  LET t == links'[v].token IN
             /\ pc'[t] \in {"mail", "ok"} \cup Over
             /\ pc'[t] = "mail" => fr'[t].user = v
    BY <1>1 DEF TokensOK, BasicInv, TablesOK
<1> QED
    BY <1>2, <1>3 DEF TokensOK

\* What keeps the invariant of a step of r that presents no link and verifies
\* nothing, once the tokens are dealt with.
LEMMA MailboxKept ==
    ASSUME BasicInv, MailboxInv, NEW r \in Requests, TokensOK', Alone(r),
           pc'[r] \notin {"verFind", "verCommit"}, mailed \subseteq mailed',
           proven' = proven,
           \A u \in DOMAIN local' : local'[u] => u \in DOMAIN local /\ local[u]
    PROVE  MailboxInv'
<1>1. ProvenOK'
    BY DEF MailboxInv, ProvenOK, Alone
<1>2. VerifiedByMailbox'
    BY DEF MailboxInv, VerifiedByMailbox
<1> QED
    BY <1>1, <1>2 DEF MailboxInv

\* Steps that touch no links, mails, or verifications at all.
Plain(r) ==
    /\ UNCHANGED <<mailed, links, proven>> /\ Alone(r)
    /\ pc'[r] \notin {"verFind", "verCommit"}
    /\ pc'[r] \in Over \/ pc[r] \notin {"mail", "ok"} \cup Over
    /\ \A u \in DOMAIN local' : local'[u] => u \in DOMAIN local /\ local[u]

\* Plain steps keep the mailbox invariant.
LEMMA PlainMailbox ==
    ASSUME BasicInv, MailboxInv, NEW r \in Requests, Plain(r)
    PROVE  MailboxInv'
<1>1. Forward
    BY DEF Forward, Plain, Alone
<1>2. TokensOK'
    BY <1>1, TokensKept DEF Plain, MailboxInv
<1> QED
    BY <1>2, MailboxKept DEF Plain

\* The plain steps.
LEMMA PlainSteps ==
    ASSUME BasicInv, NEW r \in Requests,
           \/ RegFind(r) \/ RegCreate(r) \/ ResFind(r) \/ Social(r) \/ Mfa(r)
           \/ Answer(r) \/ Throw(r)
    PROVE  Plain(r)
<1> USE DEF BasicInv, Goto, Turn, Leave
<1>1. CASE RegFind(r) \/ ResFind(r) \/ Answer(r) \/ Throw(r)
    BY <1>1 DEF RegFind, ResFind, Answer, Throw, Plain, Alone, tables, InFlight
<1>2. CASE RegCreate(r)
    <2> DEFINE u == fr[r].user
    <2>1. \/ local' = local /\ pc'[r] = "done"
          \/ local' = With(local, u, FALSE) /\ pc'[r] = "row"
        BY <1>2 DEF RegCreate
    <2>2. ASSUME NEW v \in DOMAIN local', local'[v]
          PROVE  v \in DOMAIN local /\ local[v]
        <3>1. CASE local' = local
            BY <2>2, <3>1
        <3>2. CASE local' = With(local, u, FALSE)
            <4>1. v # u
                <5>1. local'[u] = FALSE
                    BY <3>2 DEF With
                <5> QED
                    BY <2>2, <5>1
            <4>2. v \in DOMAIN local /\ local'[v] = local[v]
                BY <3>2, <4>1 DEF With
            <4> QED
                BY <2>2, <4>2
        <3> QED
            BY <2>1, <3>1, <3>2
    <2>3. UNCHANGED <<mailed, links, proven>> /\ Alone(r) /\ pc[r] = "create"
        BY <1>2 DEF RegCreate, Alone
    <2> QED
        BY <2>1, <2>2, <2>3 DEF Plain
<1>3. CASE Social(r)
    BY <1>3 DEF Social, SocFind, SocCreate, SocUpsert, Plain, Alone, tables
<1>4. CASE Mfa(r)
    BY <1>4 DEF Mfa, Setup, NewSecret, ConFind, ConCommit, Plain, Alone, tables
<1> QED
    BY <1>1, <1>2, <1>3, <1>4

\* The two queries that store a token.
LEMMA RowMailbox ==
    ASSUME BasicInv, MailboxInv, NEW r \in Requests, RegRow(r) \/ ResUpdate(r)
    PROVE  MailboxInv'
<1> DEFINE u == fr[r].user
<1>1. /\ Goto(r, "mail") /\ UNCHANGED <<local, mailed, proven>>
      /\ pc[r] \in {"row", "resUpdate"}
    BY DEF RegRow, ResUpdate, Renew
<1>2. \/ links' = With(links, u, Link(r))
      \/ u \in DOMAIN links /\ links' = [links EXCEPT ![u] = Link(r)]
      \/ links' = links
    BY DEF RegRow, ResUpdate, Renew
<1>3. CASE links' = links
    <2>1. Forward
        BY <1>1 DEF Forward, Goto, BasicInv
    <2> QED
        BY <1>1, <1>3, <2>1, TokensKept, MailboxKept
            DEF MailboxInv, Alone, Goto, BasicInv
<1>4. CASE /\ u \in DOMAIN links' /\ links'[u] = Link(r)
           /\ DOMAIN links' \subseteq DOMAIN links \cup {u}
           /\ \A v \in DOMAIN links \ {u} : links'[v] = links[v]
    <2>1. links'[u].token = r
        BY <1>4 DEF Link
    <2>2. TokensOK'
        BY <1>1, <1>4, <2>1, TokenStored DEF MailboxInv
    <2>3. Alone(r) /\ pc'[r] = "mail"
        BY <1>1 DEF Alone, Goto, BasicInv
    <2> QED
        BY <1>1, <2>2, <2>3, MailboxKept
<1> QED
    BY <1>2, <1>3, <1>4 DEF With

\* The mail.
LEMMA MailMailbox ==
    ASSUME BasicInv, MailboxInv, NEW r \in Requests, Mail(r)
    PROVE  MailboxInv'
<1>1. TokensOK'
    BY TokenMailed DEF MailboxInv
<1>2. /\ Alone(r) /\ pc'[r] = "ok" /\ mailed \subseteq mailed'
      /\ proven' = proven /\ local' = local
    BY DEF Mail, Alone, Goto, BasicInv, tables
<1> QED
    BY <1>1, <1>2, MailboxKept

\* The query of verifyEmail finds the row of the user who was mailed the token.
LEMMA VerifyMailbox ==
    ASSUME BasicInv, MailboxInv, NEW r \in Requests, VerifyEmail(r)
    PROVE  MailboxInv'
<1> USE DEF BasicInv, MailboxInv
<1>1. CASE VerFind(r)
    <2>1. Alone(r) /\ pc[r] = "verFind" /\ UNCHANGED <<tables, mailed, proven>>
        BY <1>1 DEF VerFind, Alone, Leave, Turn
    <2>2. \/ pc'[r] = "done"
          \/ \E u \in DOMAIN links : /\ links[u].token = fr[r].arg
                                     /\ pc'[r] = "verCommit" /\ fr'[r].user = u
        BY <1>1 DEF VerFind, Leave, Turn, Frame
    <2>3. CASE pc'[r] = "done"
        BY <2>1, <2>3, PlainMailbox DEF Plain, tables
    <2>4. ASSUME NEW u \in DOMAIN links, links[u].token = fr[r].arg,
                 pc'[r] = "verCommit", fr'[r].user = u
          PROVE  MailboxInv'
        <3>1. u \in proven
            BY <2>1, <2>4 DEF ProvenOK, TokensOK
        <3>2. ProvenOK'
            BY <2>1, <2>4, <3>1 DEF ProvenOK, Alone
        <3>3. Forward
            BY <2>1 DEF Forward, Alone
        <3>4. TokensOK'
            BY <2>1, <3>3, TokensKept DEF tables
        <3>5. VerifiedByMailbox'
            BY <2>1 DEF VerifiedByMailbox, tables
        <3> QED
            BY <3>2, <3>4, <3>5
    <2> QED
        BY <2>2, <2>3, <2>4
<1>2. CASE VerCommit(r)
    <2> DEFINE u == fr[r].user
    <2>1. /\ links' = [links EXCEPT ![u].used = TRUE]
          /\ local' = [v \in DOMAIN local |-> local[v] \/ v \in {u}]
          /\ Alone(r) /\ pc[r] = "verCommit" /\ pc'[r] = "ok"
          /\ UNCHANGED <<mailed, proven>>
        BY <1>2 DEF VerCommit, Verified, Alone, Goto
    <2>2. u \in proven
        BY <2>1 DEF ProvenOK
    <2>3. /\ DOMAIN links' = DOMAIN links
          /\ \A v \in DOMAIN links : links'[v].token = links[v].token
        BY <2>1 DEF TablesOK
    <2>4. Forward
        BY <2>1 DEF Forward, Alone
    <2>5. TokensOK'
        BY <2>1, <2>3, <2>4, TokensKept
    <2>6. ProvenOK'
        BY <2>1 DEF ProvenOK, Alone
    <2>7. VerifiedByMailbox'
        BY <2>1, <2>2 DEF VerifiedByMailbox
    <2> QED
        BY <2>5, <2>6, <2>7
<1> QED
    BY <1>1, <1>2 DEF VerifyEmail

\* A request that presents a link has the mailbox it was sent to.
LEMMA ArriveMailbox ==
    ASSUME BasicInv, MailboxInv, NEW r \in Requests, Arrive(r)
    PROVE  MailboxInv'
<1> USE DEF BasicInv, MailboxInv
<1>1. /\ pc[r] = "new" /\ Alone(r) /\ UNCHANGED <<tables, mailed>>
      /\ pc'[r] \notin {"new", "verCommit"}
    BY DEF Arrive, Begin, Turn, Alone
<1>2. Forward
    BY <1>1 DEF Forward, Alone
<1>3. TokensOK'
    BY <1>1, <1>2, TokensKept DEF tables
<1>4. /\ proven \subseteq proven'
      /\ pc'[r] = "verFind" =>
            \E m \in mailed : m.token = fr'[r].arg /\ m.to \in proven'
    <2>1. CASE pc'[r] = "verFind"
        <3>1. PICK m \in mailed :
                    /\ Begin(r, "verify", "verFind", None, m.token)
                    /\ proven' = proven \cup {m.to}
            BY <2>1 DEF Arrive, Begin, Turn
        <3>2. fr'[r].arg = m.token
            BY <3>1 DEF Begin, Turn, Blank
        <3> QED
            BY <3>1, <3>2
    <2>2. CASE pc'[r] # "verFind"
        BY <2>2 DEF Arrive, Begin, Turn
    <2> QED
        BY <2>1, <2>2
<1>5. ProvenOK'
    BY <1>1, <1>4 DEF ProvenOK, Alone
<1>6. VerifiedByMailbox'
    BY <1>1, <1>4 DEF VerifiedByMailbox, tables
<1> QED
    BY <1>3, <1>5, <1>6

\* Every step keeps the mailbox invariant.
LEMMA NextMailbox ==
    ASSUME BasicInv, MailboxInv, [Next]_vars
    PROVE  MailboxInv'
<1>1. ASSUME NEW r \in Requests,
             \/ Arrive(r) \/ RegRow(r) \/ ResUpdate(r) \/ Mail(r) \/ VerifyEmail(r)
      PROVE  MailboxInv'
    BY <1>1, ArriveMailbox, RowMailbox, MailMailbox, VerifyMailbox
<1>2. ASSUME NEW r \in Requests,
             \/ RegFind(r) \/ RegCreate(r) \/ ResFind(r) \/ Social(r) \/ Mfa(r)
             \/ Answer(r) \/ Throw(r)
      PROVE  MailboxInv'
    BY <1>2, PlainSteps, PlainMailbox
<1>3. CASE Tick \/ UNCHANGED vars
    BY <1>3 DEF Tick, vars, tables, MailboxInv, TokensOK, ProvenOK,
        VerifiedByMailbox
<1> QED
    BY <1>1, <1>2, <1>3 DEF Next, Finished, Register, Resend

\* A local account is verified only when a link mailed to its address has been
\* presented, whatever is renewed, used or expires at the same time.
THEOREM VerifiedWasProven == Spec => []VerifiedByMailbox
<1>1. MailboxInv => VerifiedByMailbox
    BY DEF MailboxInv
<1> QED
    BY <1>1, InitBasic, InitMailbox, NextBasic, NextMailbox, PTL DEF Spec
-----------------------------------------------------------------------------
(* The link behind a successful answer.                                     *)

\* Which operation is at a step, and that it came in before now.
OpFits(p, f) ==
    /\ f.at <= now
    /\ p \in {"verFind", "verCommit"} => f.op = "verify"
    /\ p \in {"socFind", "socCreate", "socUpsert"} => f.op = "social"
    /\ p = "setup" => f.op = "setup"
    /\ p \in {"conFind", "conCommit"} => f.op = "confirm"

OpsOK == \A r \in Requests : OpFits(pc[r], fr[r])

\* A link that was used has verified its account.
UsedOK == \A u \in DOMAIN links : links[u].used => local[u]

\* The request has stored a link, or found that none is to be renewed.
Sends(p, f) == p = "mail" \/ (p = "ok" /\ f.op \in {"register", "resend"})

RenewedOK ==
    \A r \in Requests : Sends(pc[r], fr[r]) =>
        LET u == fr[r].user IN
        /\ u \in DOMAIN local
        /\ u \in DOMAIN links => local[u] \/ links[u].exp >= fr[r].at + VerifyTtl

Unfailing == \A q \in Requests : pc[q] # "failed"

\* While no request has failed, every account has a link or is about to get one,
\* and every link is in its mailbox or about to be mailed.
StoredOK ==
    Unfailing => \A u \in DOMAIN local \ DOMAIN links :
                    \E q \in Requests : pc[q] = "row" /\ fr[q].user = u
ReachedOK ==
    Unfailing => \A u \in DOMAIN links :
                    LET t == links[u].token
                    IN  \/ pc[t] = "mail" /\ fr[t].user = u
                        \/ [to |-> u, token |-> t] \in mailed

LinkInv == OpsOK /\ UsedOK /\ RenewedOK /\ StoredOK /\ ReachedOK

\* Init establishes it.
LEMMA InitLink == Init => LinkInv
BY DEF Init, LinkInv, OpsOK, OpFits, UsedOK, RenewedOK, Sends, StoredOK, ReachedOK,
   NoRows, Blank

\* A step that moves r keeps the others' operations, and r's.
Moves(r) ==
    /\ Alone(r) /\ now' = now
    /\ OpFits(pc'[r], fr'[r])
    /\ pc[r] = "failed" => pc'[r] = "failed"

\* The frame of a request that goes on keeps its operation and its arrival.
LEMMA FrameKept ==
    ASSUME NEW f \in Frame
    PROVE  /\ \A u : LET g == [f EXCEPT !.user = u] IN g.op = f.op /\ g.at = f.at
           /\ \A b : LET g == [f EXCEPT !.fresh = b] IN g.op = f.op /\ g.at = f.at
BY DEF Frame

\* Every step of a request moves it alone.
LEMMA RequestMoves ==
    ASSUME BasicInv, OpsOK, NEW r \in Requests,
           \/ Arrive(r) \/ Register(r) \/ Resend(r) \/ VerifyEmail(r)
           \/ Social(r) \/ Mfa(r) \/ Answer(r) \/ Throw(r)
    PROVE  Moves(r)
<1>1. /\ fr[r] \in Frame /\ OpFits(pc[r], fr[r]) /\ now \in Nat
      /\ pc \in [Requests -> Steps] /\ fr \in [Requests -> Frame]
    BY DEF BasicInv, TablesOK, OpsOK
<1>2. ASSUME NEW p, Goto(r, p), now' = now, pc[r] # "failed", OpFits(p, fr[r])
      PROVE  Moves(r)
    BY <1>1, <1>2 DEF Goto, Moves, Alone, OpFits
<1>3. ASSUME NEW p, NEW f, Turn(r, p, f), now' = now, pc[r] # "failed", OpFits(p, f)
      PROVE  Moves(r)
    BY <1>1, <1>3 DEF Turn, Moves, Alone, OpFits
<1>4. OpFits("done", Blank) /\ OpFits("failed", Blank)
    BY <1>1 DEF OpFits, Blank
<1>5. CASE Register(r)
    BY <1>1, <1>2, <1>3, <1>4, <1>5 DEF Register, RegFind, RegCreate, RegRow, Mail, Leave,
       OpFits
<1>6. CASE Resend(r)
    BY <1>1, <1>2, <1>3, <1>4, <1>6 DEF Resend, ResFind, ResUpdate, Renew, Leave, OpFits
<1>7. CASE VerifyEmail(r)
    <2>1. CASE VerFind(r)
        <3>1. pc[r] = "verFind" /\ now' = now
            BY <2>1 DEF VerFind
        <3>2. ASSUME NEW u, Turn(r, "verCommit", [fr[r] EXCEPT !.user = u]) PROVE Moves(r)
            <4>1. OpFits("verCommit", [fr[r] EXCEPT !.user = u])
                BY <1>1, <3>1, FrameKept DEF OpFits
            <4> QED
                BY <1>3, <3>1, <3>2, <4>1
        <3>3. CASE Leave(r)
            BY <1>3, <1>4, <3>1, <3>3 DEF Leave
        <3> QED
            BY <2>1, <3>2, <3>3 DEF VerFind
    <2>2. CASE VerCommit(r)
        BY <1>1, <1>2, <2>2 DEF VerCommit, Verified, OpFits
    <2> QED
        BY <1>7, <2>1, <2>2 DEF VerifyEmail
<1>8. CASE Social(r)
    <2>1. CASE SocFind(r)
        BY <1>1, <1>2, <2>1 DEF SocFind, OpFits
    <2>2. ASSUME NEW b, NEW p \in {"socUpsert", "ok"}, now' = now,
                 Turn(r, p, [fr[r] EXCEPT !.fresh = b]),
                 pc[r] \in {"socCreate", "socUpsert"}
          PROVE  Moves(r)
        <3>1. OpFits(p, [fr[r] EXCEPT !.fresh = b])
            BY <1>1, <2>2, FrameKept DEF OpFits
        <3> QED
            BY <1>3, <2>2, <3>1
    <2>3. CASE SocCreate(r)
        BY <1>3, <1>4, <2>2, <2>3 DEF SocCreate, Leave
    <2>4. CASE SocUpsert(r)
        <3>1. CASE Leave(r)
            BY <1>3, <1>4, <2>4, <3>1 DEF SocUpsert, Leave
        <3>2. CASE Turn(r, "ok", [fr[r] EXCEPT !.fresh = FALSE])
            BY <2>2, <2>4, <3>2 DEF SocUpsert
        <3> QED
            BY <2>4, <3>1, <3>2 DEF SocUpsert
    <2> QED
        BY <1>8, <2>1, <2>3, <2>4 DEF Social
<1>9. CASE Mfa(r)
    BY <1>1, <1>2, <1>3, <1>4, <1>9 DEF Mfa, Setup, NewSecret, ConFind, ConCommit, Leave,
       OpFits
<1>10. CASE Answer(r) \/ Throw(r)
    BY <1>1, <1>3, <1>4, <1>10 DEF Answer, Throw, Leave, InFlight
<1>11. CASE Arrive(r)
    <2>1. ASSUME NEW op, NEW p, NEW u, NEW a, Begin(r, op, p, u, a),
                 <<op, p>> \in {<<"register", "find">>, <<"resend", "resFind">>,
                                <<"verify", "verFind">>, <<"social", "socFind">>,
                                <<"setup", "setup">>, <<"confirm", "conFind">>}
          PROVE  Moves(r)
        <3> DEFINE f == [Blank EXCEPT !.op = op, !.user = u, !.arg = a, !.at = now]
        <3>1. f.op = op /\ f.at = now
            BY DEF Blank
        <3>2. Turn(r, p, f) /\ now' = now /\ pc[r] = "new"
            BY <2>1 DEF Begin
        <3> HIDE DEF f
        <3>3. OpFits(p, f)
            BY <1>1, <2>1, <3>1 DEF OpFits
        <3> QED
            BY <1>3, <3>2, <3>3
    <2>2. CASE \E u \in Emails : \/ Begin(r, "register", "find", u, None)
                                 \/ Begin(r, "resend", "resFind", u, None)
        BY <2>1, <2>2
    <2>3. CASE \E m \in mailed : Begin(r, "verify", "verFind", None, m.token)
        BY <2>1, <2>3
    <2>4. CASE \E p \in Profiles, u \in Emails : Begin(r, "social", "socFind", u, p)
        BY <2>1, <2>4
    <2>5. CASE \E u \in users : Begin(r, "setup", "setup", u, None)
        BY <2>1, <2>5
    <2>6. CASE \E s \in shown : Begin(r, "confirm", "conFind", s.user, s.secret)
        BY <2>1, <2>6
    <2> QED
        BY <1>11, <2>2, <2>3, <2>4, <2>5, <2>6 DEF Arrive
<1> QED
    BY <1>5, <1>6, <1>7, <1>8, <1>9, <1>10, <1>11

\* A step that writes no link and no account, and sends nothing.
Silent(r) ==
    /\ Moves(r) /\ UNCHANGED <<links, local, mailed>>
    /\ ~Sends(pc'[r], fr'[r])
    /\ pc[r] \in {"row", "mail"} => pc'[r] = "failed"

\* The silent steps.
LEMMA SilentSteps ==
    ASSUME BasicInv, OpsOK, NEW r \in Requests,
           \/ Arrive(r) \/ RegFind(r) \/ (RegCreate(r) /\ fr[r].user \in users)
           \/ ResFind(r) \/ VerFind(r) \/ Social(r) \/ Mfa(r) \/ Answer(r) \/ Throw(r)
    PROVE  Silent(r)
<1>1. /\ fr[r] \in Frame /\ OpFits(pc[r], fr[r])
      /\ pc \in [Requests -> Steps] /\ fr \in [Requests -> Frame]
    BY DEF BasicInv, OpsOK
<1>2. Moves(r)
    BY RequestMoves DEF Register, Resend, VerifyEmail
<1>3. CASE Arrive(r)
    <2>1. \E op, p, u, a : /\ Begin(r, op, p, u, a)
                           /\ p \in {"find", "resFind", "verFind", "socFind", "setup",
                                     "conFind"}
        BY <1>3, Zenon DEF Arrive
    <2> QED
        BY <1>1, <1>2, <2>1 DEF Begin, Turn, Silent, Sends, tables
<1>4. CASE \/ RegFind(r) \/ (RegCreate(r) /\ fr[r].user \in users) \/ ResFind(r)
           \/ VerFind(r) \/ Answer(r) \/ Throw(r)
    BY <1>1, <1>2, <1>4 DEF RegFind, RegCreate, ResFind, VerFind, Answer, Throw, Leave,
       Turn, Goto, Silent, Sends, tables
<1>5. CASE Social(r)
    <2>1. pc[r] \in {"socFind", "socCreate", "socUpsert"} /\ fr[r].op = "social"
        BY <1>1, <1>5 DEF Social, SocFind, SocCreate, SocUpsert, OpFits
    <2>2. UNCHANGED <<links, local, mailed>> /\ pc'[r] # "mail"
        BY <1>1, <1>5 DEF Social, SocFind, SocCreate, SocUpsert, Goto, Turn, Leave, tables
    <2>3. pc'[r] = "ok" => fr'[r].op = "social"
        <3>1. SUFFICES ASSUME pc'[r] = "ok" PROVE fr'[r].op = "social"
            OBVIOUS
        <3>2. Turn(r, "ok", [fr[r] EXCEPT !.fresh = FALSE])
            BY <1>1, <1>5, <3>1 DEF Social, SocFind, SocCreate, SocUpsert, Goto, Turn, Leave
        <3> QED
            BY <1>1, <2>1, <3>2, FrameKept DEF Turn
    <2> QED
        BY <1>2, <2>1, <2>2, <2>3 DEF Silent, Sends
<1>6. CASE Mfa(r)
    <2>1. /\ pc[r] \in {"setup", "conFind", "conCommit"}
          /\ fr[r].op \in {"setup", "confirm"}
        BY <1>1, <1>6 DEF Mfa, Setup, NewSecret, ConFind, ConCommit, OpFits
    <2>2. UNCHANGED <<links, local, mailed>> /\ pc'[r] # "mail"
        BY <1>1, <1>6 DEF Mfa, Setup, NewSecret, ConFind, ConCommit, Goto, Turn, Leave, tables
    <2>3. pc'[r] = "ok" => fr' = fr
        BY <1>1, <1>6 DEF Mfa, Setup, NewSecret, ConFind, ConCommit, Goto, Turn, Leave
    <2> QED
        BY <1>2, <2>1, <2>2, <2>3 DEF Silent, Sends
<1> QED
    BY <1>3, <1>4, <1>5, <1>6

\* A request that has failed stays so.
LEMMA FailureStays ==
    ASSUME NEW r \in Requests, Moves(r), Unfailing'
    PROVE  Unfailing
BY DEF Moves, Alone, Unfailing

\* The operations fit after a step of r.
LEMMA OpsMove ==
    ASSUME OpsOK, NEW r \in Requests, Moves(r)
    PROVE  OpsOK'
BY DEF Moves, Alone, OpsOK, OpFits

\* Silent steps keep the invariant.
LEMMA SilentLink ==
    ASSUME BasicInv, LinkInv, NEW r \in Requests, Silent(r)
    PROVE  LinkInv'
<1>1. /\ Moves(r) /\ Alone(r) /\ UNCHANGED <<links, local, mailed>>
      /\ ~Sends(pc'[r], fr'[r])
    BY DEF Silent, Moves
<1>2. OpsOK' /\ UsedOK'
    BY <1>1, OpsMove DEF LinkInv, UsedOK
<1>3. RenewedOK'
    BY <1>1 DEF LinkInv, RenewedOK, Alone
<1>4. Unfailing' => Unfailing /\ pc[r] \notin {"row", "mail"}
    BY <1>1, FailureStays DEF Silent, Unfailing
<1>5. StoredOK'
    BY <1>1, <1>4 DEF LinkInv, StoredOK, Alone
<1>6. ReachedOK'
    <2> SUFFICES ASSUME Unfailing', NEW u \in DOMAIN links
                 PROVE  LET t == links[u].token
                        IN  \/ pc'[t] = "mail" /\ fr'[t].user = u
                            \/ [to |-> u, token |-> t] \in mailed
        BY <1>1 DEF ReachedOK
    <2>1. links[u].token \in Requests
        BY DEF BasicInv, TablesOK
    <2> QED
        BY <1>1, <1>4, <2>1 DEF LinkInv, ReachedOK, Alone
<1> QED
    BY <1>2, <1>3, <1>5, <1>6 DEF LinkInv

\* A new account awaits its link.
LEMMA CreateLink ==
    ASSUME BasicInv, LinkInv, NEW r \in Requests, RegCreate(r), fr[r].user \notin users
    PROVE  LinkInv'
<1> DEFINE u == fr[r].user
<1>1. /\ pc[r] = "create" /\ local' = With(local, u, FALSE) /\ Goto(r, "row")
      /\ UNCHANGED <<links, mailed>>
    BY DEF RegCreate
<1>2. Moves(r) /\ Alone(r) /\ pc'[r] = "row" /\ fr' = fr
    BY <1>1, RequestMoves DEF Register, LinkInv, Moves, Goto, BasicInv
<1>3. /\ u \notin DOMAIN local /\ DOMAIN local' = DOMAIN local \cup {u}
      /\ \A v \in DOMAIN local : local'[v] = local[v]
      /\ DOMAIN links \subseteq DOMAIN local
    BY <1>1 DEF BasicInv, TablesOK, With
<1>4. OpsOK' /\ UsedOK'
    BY <1>1, <1>2, <1>3, OpsMove DEF LinkInv, UsedOK
<1>5. RenewedOK'
    BY <1>1, <1>2, <1>3 DEF LinkInv, RenewedOK, Alone, Sends
<1>6. Unfailing' => Unfailing
    BY <1>2, FailureStays
<1>7. StoredOK'
    <2> SUFFICES ASSUME Unfailing', NEW v \in DOMAIN local' \ DOMAIN links
                 PROVE  \E q \in Requests : pc'[q] = "row" /\ fr[q].user = v
        BY <1>1, <1>2 DEF StoredOK
    <2>1. CASE v = u
        BY <1>2, <2>1
    <2>2. CASE v # u
        <3>1. PICK q \in Requests : pc[q] = "row" /\ fr[q].user = v
            BY <1>3, <1>6, <2>2 DEF LinkInv, StoredOK
        <3> QED
            BY <1>1, <1>2, <3>1 DEF Alone
    <2> QED
        BY <2>1, <2>2
<1>8. ReachedOK'
    BY <1>1, <1>2, <1>6 DEF LinkInv, ReachedOK, Alone, BasicInv, TablesOK
<1> QED
    BY <1>4, <1>5, <1>7, <1>8 DEF LinkInv

\* A link is stored, or none is there to be renewed.
LEMMA StoreLink ==
    ASSUME BasicInv, LinkInv, NEW r \in Requests, RegRow(r) \/ ResUpdate(r)
    PROVE  LinkInv'
<1> DEFINE u == fr[r].user
<1>1. /\ Goto(r, "mail") /\ UNCHANGED <<now, local, mailed>>
      /\ pc[r] \in {"row", "resUpdate"}
    BY DEF RegRow, ResUpdate, Renew
<1>2. Moves(r) /\ Alone(r) /\ pc'[r] = "mail" /\ fr' = fr
    BY <1>1, RequestMoves DEF Register, Resend, LinkInv, Moves, Goto, BasicInv
<1>3. /\ u \in DOMAIN local /\ now \in Nat /\ fr[r].at <= now
      /\ \A q \in Requests : fr[q].at \in Nat /\ fr[q].at <= now
      /\ DOMAIN links \subseteq DOMAIN local
    BY <1>1 DEF BasicInv, FramesOK, FrameFits, TablesOK, LinkInv, OpsOK, OpFits, Frame
<1>4. \/ /\ DOMAIN links' = DOMAIN links \cup {u} /\ links'[u] = Link(r)
         /\ \A v \in DOMAIN links \ {u} : links'[v] = links[v]
      \/ /\ links' = links /\ pc[r] = "resUpdate"
         /\ u \in DOMAIN links => links[u].used
    <2>1. CASE RegRow(r)
        <3>1. links' = With(links, u, Link(r))
            BY <2>1 DEF RegRow
        <3> QED
            BY <3>1 DEF With
    <2>2. CASE ResUpdate(r)
        BY <2>2 DEF ResUpdate, Renew
    <2> QED
        BY <2>1, <2>2
<1>5. Link(r).token = r /\ Link(r).exp = now + VerifyTtl /\ Link(r).used = FALSE
    BY DEF Link
<1>6. Unfailing' => Unfailing
    BY <1>2, FailureStays
<1>7. CASE /\ DOMAIN links' = DOMAIN links \cup {u} /\ links'[u] = Link(r)
           /\ \A v \in DOMAIN links \ {u} : links'[v] = links[v]
    <2>1. OpsOK' /\ UsedOK'
        BY <1>1, <1>2, <1>5, <1>7, OpsMove DEF LinkInv, UsedOK
    <2>2. RenewedOK'
        <3> SUFFICES ASSUME NEW q \in Requests, Sends(pc'[q], fr[q])
                     PROVE  LET v == fr[q].user IN
                            /\ v \in DOMAIN local
                            /\ v \in DOMAIN links' =>
                                  local[v] \/ links'[v].exp >= fr[q].at + VerifyTtl
            BY <1>1, <1>2 DEF RenewedOK
        <3>1. CASE fr[q].user = u
            BY <1>3, <1>5, <1>7, <3>1
        <3>2. CASE fr[q].user # u
            BY <1>2, <1>7, <3>2 DEF LinkInv, RenewedOK, Alone
        <3> QED
            BY <3>1, <3>2
    <2>3. StoredOK'
        <3> SUFFICES ASSUME Unfailing', NEW v \in DOMAIN local \ DOMAIN links'
                     PROVE  \E q \in Requests : pc'[q] = "row" /\ fr[q].user = v
            BY <1>1, <1>2 DEF StoredOK
        <3>1. PICK q \in Requests : pc[q] = "row" /\ fr[q].user = v
            BY <1>6, <1>7 DEF LinkInv, StoredOK
        <3>2. q # r
            BY <1>7, <3>1
        <3> QED
            BY <1>2, <3>1, <3>2 DEF Alone
    <2>4. ReachedOK'
        <3> SUFFICES ASSUME Unfailing', NEW v \in DOMAIN links'
                     PROVE  LET t == links'[v].token
                            IN  \/ pc'[t] = "mail" /\ fr[t].user = v
                                \/ [to |-> v, token |-> t] \in mailed
            BY <1>1, <1>2 DEF ReachedOK
        <3>1. CASE v = u
            BY <1>2, <1>5, <1>7, <3>1
        <3>2. CASE v # u
            <4>1. links'[v] = links[v] /\ links[v].token \in Requests
                BY <1>7, <3>2 DEF BasicInv, TablesOK
            <4> QED
                BY <1>1, <1>2, <1>6, <1>7, <3>2, <4>1 DEF LinkInv, ReachedOK, Alone
        <3> QED
            BY <3>1, <3>2
    <2> QED
        BY <2>1, <2>2, <2>3, <2>4 DEF LinkInv
<1>8. CASE links' = links /\ pc[r] = "resUpdate" /\ (u \in DOMAIN links => links[u].used)
    <2>1. OpsOK' /\ UsedOK'
        BY <1>1, <1>2, <1>8, OpsMove DEF LinkInv, UsedOK
    <2>2. u \in DOMAIN links => local[u]
        BY <1>8 DEF LinkInv, UsedOK
    <2>3. RenewedOK'
        BY <1>1, <1>2, <1>3, <1>8, <2>2 DEF LinkInv, RenewedOK, Alone
    <2>4. StoredOK'
        BY <1>1, <1>2, <1>6, <1>8 DEF LinkInv, StoredOK, Alone
    <2>5. ReachedOK'
        BY <1>1, <1>2, <1>6, <1>8 DEF LinkInv, ReachedOK, Alone, BasicInv, TablesOK
    <2> QED
        BY <2>1, <2>3, <2>4, <2>5 DEF LinkInv
<1> QED
    BY <1>4, <1>7, <1>8

\* The mail reaches its mailbox.
LEMMA MailLink ==
    ASSUME BasicInv, LinkInv, NEW r \in Requests, Mail(r)
    PROVE  LinkInv'
<1>1. /\ pc[r] = "mail" /\ Goto(r, "ok") /\ UNCHANGED <<links, local>>
      /\ mailed' = mailed \cup {[to |-> fr[r].user, token |-> r]}
    BY DEF Mail, tables
<1>2. Moves(r) /\ Alone(r) /\ pc'[r] = "ok" /\ fr' = fr
    BY <1>1, RequestMoves DEF Register, LinkInv, Moves, Goto, BasicInv
<1>3. OpsOK' /\ UsedOK'
    BY <1>1, <1>2, OpsMove DEF LinkInv, UsedOK
<1>4. RenewedOK'
    BY <1>1, <1>2 DEF LinkInv, RenewedOK, Alone, Sends
<1>5. Unfailing' => Unfailing
    BY <1>2, FailureStays
<1>6. StoredOK'
    BY <1>1, <1>2, <1>5 DEF LinkInv, StoredOK, Alone
<1>7. ReachedOK'
    BY <1>1, <1>2, <1>5 DEF LinkInv, ReachedOK, Alone, BasicInv, TablesOK
<1> QED
    BY <1>3, <1>4, <1>6, <1>7 DEF LinkInv

\* A link is used, and its account verified.
LEMMA VerifyLink ==
    ASSUME BasicInv, LinkInv, NEW r \in Requests, VerCommit(r)
    PROVE  LinkInv'
<1> DEFINE u == fr[r].user
<1>1. /\ links' = [links EXCEPT ![u].used = TRUE]
      /\ local' = [v \in DOMAIN local |-> local[v] \/ v \in {u}]
      /\ pc[r] = "verCommit" /\ Goto(r, "ok") /\ UNCHANGED mailed
    BY DEF VerCommit, Verified
<1>2. Moves(r) /\ Alone(r) /\ pc'[r] = "ok" /\ fr' = fr
    BY <1>1, RequestMoves DEF VerifyEmail, LinkInv, Moves, Goto, BasicInv
<1>3. /\ DOMAIN links' = DOMAIN links /\ DOMAIN links \subseteq DOMAIN local
      /\ \A v \in DOMAIN links : /\ links'[v].token = links[v].token
                                 /\ links'[v].exp = links[v].exp
                                 /\ v # u => links'[v].used = links[v].used
                                 /\ links[v].token \in Requests
    BY <1>1 DEF BasicInv, TablesOK
<1>4. OpsOK'
    BY <1>2, OpsMove DEF LinkInv
<1>5. UsedOK'
    BY <1>1, <1>3 DEF LinkInv, UsedOK
<1>6. RenewedOK'
    <2>1. fr[r].op = "verify"
        BY <1>1 DEF LinkInv, OpsOK, OpFits
    <2> QED
        BY ZenonT(40), <1>1, <1>2, <1>3, <2>1 DEF LinkInv, RenewedOK, Alone, Sends
<1>7. Unfailing' => Unfailing
    BY <1>2, FailureStays
<1>8. StoredOK'
    BY <1>1, <1>2, <1>3, <1>7 DEF LinkInv, StoredOK, Alone
<1>9. ReachedOK'
    <2> SUFFICES ASSUME Unfailing', NEW v \in DOMAIN links
                 PROVE  LET t == links[v].token
                        IN  \/ pc'[t] = "mail" /\ fr[t].user = v
                            \/ [to |-> v, token |-> t] \in mailed
        BY <1>1, <1>2, <1>3 DEF ReachedOK
    <2>1. links[v].token \in Requests
        BY <1>3
    <2> QED
        BY <1>1, <1>2, <1>7, <2>1 DEF LinkInv, ReachedOK, Alone
<1> QED
    BY <1>4, <1>5, <1>6, <1>8, <1>9 DEF LinkInv

\* Every step keeps it.
LEMMA NextLink ==
    ASSUME BasicInv, LinkInv, [Next]_vars
    PROVE  LinkInv'
<1>1. ASSUME NEW r \in Requests,
             \/ Arrive(r) \/ RegFind(r) \/ (RegCreate(r) /\ fr[r].user \in users)
             \/ ResFind(r) \/ VerFind(r) \/ Social(r) \/ Mfa(r) \/ Answer(r) \/ Throw(r)
      PROVE  LinkInv'
    BY <1>1, SilentSteps, SilentLink DEF LinkInv
<1>2. ASSUME NEW r \in Requests,
             \/ (RegCreate(r) /\ fr[r].user \notin users)
             \/ RegRow(r) \/ ResUpdate(r) \/ Mail(r) \/ VerCommit(r)
      PROVE  LinkInv'
    BY <1>2, CreateLink, StoreLink, MailLink, VerifyLink
<1>3. CASE Tick
    <2>1. now' = now + 1 /\ now \in Nat /\ UNCHANGED <<links, local, mailed, pc, fr>>
        BY <1>3 DEF Tick, tables, BasicInv, TablesOK
    <2>2. \A r \in Requests : fr[r].at \in Nat
        BY DEF BasicInv, Frame
    <2>3. OpsOK'
        BY <2>1, <2>2 DEF LinkInv, OpsOK, OpFits
    <2> QED
        BY <2>1, <2>3 DEF LinkInv, UsedOK, RenewedOK, StoredOK, ReachedOK, Unfailing
<1>4. CASE UNCHANGED vars
    BY <1>4 DEF vars, tables, LinkInv, OpsOK, OpFits, UsedOK, RenewedOK, StoredOK,
       ReachedOK, Unfailing
<1> QED
    BY <1>1, <1>2, <1>3, <1>4 DEF Next, Finished, Register, Resend, VerifyEmail

\* A registration or a resending that is answered with success, with no other
\* request at work and none that has failed, leaves an account that is verified
\* or the stored link in its mailbox, good for the whole time to live counted
\* from the request: however many requests had renewed it at once.
THEOREM AnswersAreGood == Spec => []AnsweredLinkIsGood
<1>1. BasicInv /\ LinkInv => AnsweredLinkIsGood
    <2> SUFFICES ASSUME BasicInv, LinkInv, NEW r \in Requests, pc[r] = "ok",
                        fr[r].op \in {"register", "resend"}, InFlight = {r}, Unfailing
                 PROVE  LET u == fr[r].user IN
                        \/ local[u]
                        \/ /\ u \in DOMAIN links
                           /\ [to |-> u, token |-> links[u].token] \in mailed
                           /\ links[u].exp >= fr[r].at + VerifyTtl
        BY DEF AnsweredLinkIsGood, Unfailing
    <2> DEFINE u == fr[r].user
    <2>1. u \in DOMAIN local
        BY DEF LinkInv, RenewedOK, Sends
    <2>2. \A q \in Requests : pc[q] \notin {"row", "mail"}
        <3>1. \A q \in Requests : pc[q] \in {"row", "mail"} => q \in InFlight
            BY DEF InFlight
        <3> QED
            BY <3>1
    <2>3. u \in DOMAIN links
        BY <2>1, <2>2 DEF LinkInv, StoredOK
    <2>4. \/ pc[links[u].token] = "mail" /\ fr[links[u].token].user = u
          \/ [to |-> u, token |-> links[u].token] \in mailed
        BY <2>3 DEF LinkInv, ReachedOK
    <2>5. links[u].token \in Requests
        BY <2>3 DEF BasicInv, TablesOK
    <2> QED
        BY <2>2, <2>3, <2>4, <2>5 DEF LinkInv, RenewedOK, Sends
<1> QED
    BY <1>1, InitBasic, InitLink, NextBasic, NextLink, PTL DEF Spec
-----------------------------------------------------------------------------
(* Users without an account to log in with.                                 *)

\* An account without a link has its registration at work, or that has failed.
UnlinkedOK ==
    \A u \in DOMAIN local \ DOMAIN links :
        u \in stranded \/ \E q \in Requests : pc[q] = "row" /\ fr[q].user = u

\* A user without a local account comes from a social login, whose account it
\* has, or whose account is another user's.
SocialUsersOK ==
    \A u \in users \ DOMAIN local :
        \E p \in DOMAIN social : social[p] = u \/ <<p, u>> \in signed

OrphanInv == UnlinkedOK /\ SocialUsersOK

\* A registration leaves the step between its two inserts with a link or failed.
LEMMA NextUnlinked ==
    ASSUME BasicInv, LinkInv, UnlinkedOK, [Next]_vars
    PROVE  UnlinkedOK'
<1>g. Grows /\ BasicInv'
    BY NextBasic
<1>k. ASSUME stranded \subseteq stranded', DOMAIN local' = DOMAIN local,
             \A q \in Requests : pc[q] = "row" =>
                \/ pc'[q] = "row" /\ fr'[q].user = fr[q].user
                \/ fr[q].user \in DOMAIN links' \cup stranded'
      PROVE  UnlinkedOK'
    BY <1>g, <1>k DEF UnlinkedOK, Grows
<1>1. ASSUME NEW r \in Requests,
             \/ Arrive(r) \/ RegFind(r) \/ (RegCreate(r) /\ fr[r].user \in users)
             \/ ResFind(r) \/ ResUpdate(r) \/ Mail(r) \/ VerifyEmail(r) \/ Social(r)
             \/ Mfa(r) \/ Answer(r)
      PROVE  UnlinkedOK'
    <2>1. Alone(r) /\ pc[r] # "row"
        <3>1. Alone(r)
            BY <1>1, RequestMoves DEF LinkInv, Moves, Register, Resend
        <3>2. CASE Arrive(r)
            BY <3>1, <3>2 DEF Arrive, Begin
        <3>3. CASE \/ RegFind(r) \/ RegCreate(r) \/ ResFind(r) \/ ResUpdate(r)
                   \/ Mail(r) \/ VerifyEmail(r) \/ Answer(r)
            BY <3>1, <3>3 DEF RegFind, RegCreate, ResFind, ResUpdate, Renew, Mail, VerifyEmail,
               VerFind, VerCommit, Verified, Answer
        <3>4. CASE Social(r) \/ Mfa(r)
            BY <3>1, <3>4 DEF Social, SocFind, SocCreate, SocUpsert, Mfa, Setup, NewSecret,
               ConFind, ConCommit
        <3> QED
            BY <1>1, <3>1, <3>2, <3>3, <3>4
    <2>2. stranded' = stranded /\ DOMAIN local' = DOMAIN local
        BY <1>1 DEF Arrive, Begin, RegFind, RegCreate, ResFind, ResUpdate, Renew, Mail,
           VerifyEmail, VerFind, VerCommit, Verified, Social, SocFind, SocCreate,
           SocUpsert, Mfa, Setup, NewSecret, ConFind, ConCommit, Answer, tables
    <2> QED
        BY <1>k, <2>1, <2>2 DEF Alone
<1>2. ASSUME NEW r \in Requests, RegCreate(r), fr[r].user \notin users
      PROVE  UnlinkedOK'
    <2> DEFINE u == fr[r].user
    <2>1. /\ local' = With(local, u, FALSE) /\ Goto(r, "row") /\ links' = links
          /\ stranded' = stranded
        BY <1>2 DEF RegCreate
    <2>2. DOMAIN local' = DOMAIN local \cup {u}
        BY <2>1 DEF With
    <2>3. pc'[r] = "row" /\ fr' = fr /\ Alone(r)
        BY <2>1 DEF Goto, Alone, BasicInv
    <2>4. pc[r] = "create"
        BY <1>2 DEF RegCreate
    <2>5. \A q \in Requests : pc[q] = "row" => pc'[q] = "row" /\ fr'[q] = fr[q]
        BY <2>3, <2>4 DEF Alone
    <2>6. \A v \in DOMAIN local' \ DOMAIN links' : v = u \/ v \in DOMAIN local \ DOMAIN links
        BY <2>1, <2>2
    <2> QED
        BY <2>1, <2>3, <2>5, <2>6 DEF UnlinkedOK
<1>3. ASSUME NEW r \in Requests, RegRow(r) PROVE UnlinkedOK'
    <2>1. /\ links' = With(links, fr[r].user, Link(r)) /\ Goto(r, "mail")
          /\ local' = local /\ stranded' = stranded
        BY <1>3 DEF RegRow
    <2>2. fr[r].user \in DOMAIN links'
        BY <2>1 DEF With
    <2>3. Alone(r)
        BY <2>1 DEF Goto, Alone, BasicInv
    <2> QED
        BY <1>k, <2>1, <2>2, <2>3 DEF Alone
<1>4. ASSUME NEW r \in Requests, Throw(r) PROVE UnlinkedOK'
    <2>1. /\ local' = local /\ stranded \subseteq stranded'
          /\ pc[r] = "row" => fr[r].user \in stranded'
        BY <1>4 DEF Throw, tables
    <2>2. Alone(r)
        BY <1>4, RequestMoves DEF LinkInv, Moves
    <2> QED
        BY <1>k, <2>1, <2>2 DEF Alone
<1>5. CASE Tick \/ UNCHANGED vars
    BY <1>5 DEF Tick, vars, tables, UnlinkedOK
<1> QED
    BY <1>1, <1>2, <1>3, <1>4, <1>5 DEF Next, Finished, Register, Resend

\* A step that adds a user adds its local account, or finds or makes the social
\* account it was added for; accounts stay with their users.
LEMMA NextSocialUsers ==
    ASSUME BasicInv, SocialUsersOK, [Next]_vars
    PROVE  SocialUsersOK'
<1>g. Grows
    BY NextBasic
<1>0. ASSUME UNCHANGED <<users, social, signed>> PROVE SocialUsersOK'
    BY <1>g, <1>0 DEF SocialUsersOK, Grows
<1>1. ASSUME NEW r \in Requests, RegCreate(r) PROVE SocialUsersOK'
    <2>1. CASE fr[r].user \in users
        BY <1>0, <1>1, <2>1 DEF RegCreate
    <2>2. CASE fr[r].user \notin users
        <3>1. /\ users' = users \cup {fr[r].user} /\ UNCHANGED <<social, signed>>
              /\ local' = With(local, fr[r].user, FALSE)
            BY <1>1, <2>2 DEF RegCreate
        <3>2. fr[r].user \in DOMAIN local'
            BY <3>1 DEF With
        <3> QED
            BY <1>g, <3>1, <3>2 DEF SocialUsersOK, Grows
    <2> QED
        BY <2>1, <2>2
<1>2. ASSUME NEW r \in Requests, SocUpsert(r) PROVE SocialUsersOK'
    <2> DEFINE p == fr[r].arg
               u == fr[r].user
    <2>1. CASE UNCHANGED <<users, social, signed>>
        BY <1>0, <2>1
    <2>2. CASE /\ users' = users \cup {u} /\ signed' = signed \cup {<<p, u>>}
               /\ social' = IF p \in DOMAIN social THEN social
                            ELSE With(social, p, u)
        <3>1. /\ p \in DOMAIN social' /\ <<p, u>> \in signed'
              /\ \A x \in DOMAIN social : x \in DOMAIN social' /\ social'[x] = social[x]
            BY <2>2 DEF With
        <3>2. ASSUME NEW v \in users' \ DOMAIN local'
              PROVE  \E x \in DOMAIN social' : social'[x] = v \/ <<x, v>> \in signed'
            <4>1. CASE v = u
                BY <3>1, <4>1
            <4>2. CASE v # u
                BY <1>g, <2>2, <3>1, <3>2, <4>2 DEF SocialUsersOK, Grows
            <4> QED
                BY <4>1, <4>2
        <3> QED
            BY <3>2 DEF SocialUsersOK
    <2> QED
        BY <1>2, <2>1, <2>2 DEF SocUpsert
<1>3. ASSUME NEW r \in Requests,
             \/ Arrive(r) \/ RegFind(r) \/ RegRow(r) \/ Mail(r) \/ Resend(r)
             \/ VerifyEmail(r) \/ SocFind(r) \/ SocCreate(r) \/ Mfa(r)
             \/ Answer(r) \/ Throw(r)
      PROVE  UNCHANGED <<users, social, signed>>
    BY <1>3 DEF Arrive, Begin, RegFind, RegRow, Mail, Resend, ResFind, ResUpdate,
        Renew, VerifyEmail, VerFind, VerCommit, Verified, SocFind, SocCreate,
        Mfa, Setup, NewSecret, ConFind, ConCommit, Answer, Throw, tables
<1>4. CASE Tick \/ UNCHANGED vars
    BY <1>0, <1>4 DEF Tick, vars, tables
<1> QED
    BY <1>0, <1>1, <1>2, <1>3, <1>4 DEF Next, Finished, Register, Social

\* An address taken without an account to log in with goes back to a registration
\* that failed between its two inserts, or to a social login whose account
\* belongs to another user, for any requests, addresses and profiles, whatever
\* else fails and however registrations, links and social logins overlap.
THEOREM OrphansAreExplained == Spec => []OrphansHaveCause
<1>1. Init => OrphanInv
    BY DEF Init, OrphanInv, UnlinkedOK, SocialUsersOK, NoRows
<1>2. BasicInv /\ LinkInv /\ OrphanInv /\ [Next]_vars => OrphanInv'
    BY NextUnlinked, NextSocialUsers DEF OrphanInv
<1>3. BasicInv /\ LinkInv /\ OrphanInv => OrphansHaveCause
    <2> SUFFICES ASSUME BasicInv, LinkInv, OrphanInv, NEW u \in users, ~HasAccount(u)
                 PROVE  \/ \E r \in Requests : pc[r] = "row" /\ fr[r].user = u
                        \/ u \in stranded
                        \/ \E p \in DOMAIN social : social[p] # u /\ <<p, u>> \in signed
        BY DEF OrphansHaveCause
    <2>1. CASE u \in DOMAIN local
        <3>1. u \notin DOMAIN links
            BY <2>1 DEF HasAccount, LinkInv, UsedOK
        <3> QED
            BY <2>1, <3>1 DEF OrphanInv, UnlinkedOK
    <2>2. CASE u \notin DOMAIN local
        BY <2>2 DEF OrphanInv, SocialUsersOK, HasAccount
    <2> QED
        BY <2>1, <2>2
<1> QED
    BY <1>1, <1>2, <1>3, InitBasic, InitLink, NextBasic, NextLink, PTL DEF Spec
=============================================================================
