-------------------------- MODULE CredentialsProofs --------------------------
(* Proofs about Credentials for every value of its constants.               *)
EXTENDS Credentials, TLAPS

USE CredentialsAssumption
-----------------------------------------------------------------------------
(* The inductive invariant.                                                 *)

InTransaction == {"account", "sweep", "commit"}

\* What each step of a request q finds in its frame.
WhoFits(p, f) ==
    /\ f.at <= now
    /\ p \in {"logFind", "reqFind"} => f.user \in Emails
    /\ p \in {"logSession", "reqRow", "reqMail", "conFind", "chgFind"} \cup InTransaction
          => f.user \in Users
    /\ p = "conFind" => f.op = "confirm"
    /\ p = "chgFind" => f.op = "change"
    /\ p \in InTransaction => f.op \in Changing
    /\ p \in {"logFind", "logSession", "reqFind", "reqRow", "reqMail"} =>
          f.op \notin Changing

\* The links of those who ask for one and of those who present one.
LinkFits(q, p, f) ==
    /\ p = "reqMail" => q \in DOMAIN resets /\ resets[q].user = f.user
    /\ f.op = "confirm" /\ p \in InTransaction \cup {"conFind", "ok"} =>
          /\ f.arg \in DOMAIN resets /\ resets[f.arg].user = f.user
          /\ [to |-> f.user, token |-> f.arg] \in mailed
    /\ f.op = "confirm" /\ p \in InTransaction \cup {"ok"} =>
          /\ f.at < resets[f.arg].exp
          /\ resets[f.arg].by \subseteq f.met \cup {q}
    /\ f.op = "confirm" /\ p = "ok" => resets[f.arg].used

\* A password that was checked is that of the account, or a change is at work.
PasswordFits(q, p, f) ==
    /\ p = "logSession" /\ f.arg # None =>
          f.user \in Local /\ (f.arg = password[f.user] \/ f.met # {})
    /\ p = "chgFind" /\ f.user \in Local => password[f.user] \in f.met \cup {f.was}
    /\ f.op = "change" /\ p \in InTransaction => f.arg \in f.met \cup {f.was}
    /\ f.op \in Changing /\ p = "ok" /\ f.user \in Local =>
          password[f.user] \in f.met \cup {q}

\* The sessions that a change has yet to end, is about to end and has ended.
SessionFits(p, f) ==
    /\ f.had \subseteq DOMAIN sessions
    /\ p = "commit" => \A s \in ActiveOf(f.user) :
                          s \in f.swept \/ (s \notin f.had /\ sessions[s].met # {})
    /\ f.op \in Changing /\ p = "ok" => f.had \cap ActiveOf(f.user) = {}

Fits(q, p, f) == /\ WhoFits(p, f) /\ LinkFits(q, p, f)
                 /\ PasswordFits(q, p, f) /\ SessionFits(p, f)

FramesOK == \A q \in Requests : Fits(q, pc[q], fr[q])

\* Each request knows the changes of its user's password it has overlapped.
MetOK ==
    \A q, p \in InFlight :
        q # p /\ fr[q].user = fr[p].user /\ fr[p].op \in Changing => p \in fr[q].met

\* A row is inserted once; a link that was used is spent.
RowsOK ==
    /\ \A t \in DOMAIN resets : /\ pc[t] \in {"reqMail", "ok", "done"}
                                /\ resets[t].by # {} => resets[t].used
    /\ \A s \in DOMAIN sessions : /\ pc[s] \in {"ok", "done"}
                                  /\ sessions[s].pw # None => sessions[s].user \in Local

IInv == TypeOK /\ FramesOK /\ MetOK /\ RowsOK /\ OldPasswordOverlaps
-----------------------------------------------------------------------------
(* Lemmas.                                                                  *)

\* The blank frame is a frame that fits the end of a request.
LEMMA BlankType ==
    ASSUME now \in Nat, NEW q PROVE Blank \in Frame /\ Fits(q, "done", Blank)
BY DEF Blank, Frame, Opt, Fits, WhoFits, LinkFits, PasswordFits, SessionFits,
       InTransaction, Changing

\* r moves, the others stay.
LEMMA Moves ==
    ASSUME TypeOK, NEW r \in Requests, NEW p \in Steps, NEW f \in Frame, Turn(r, p, f)
    PROVE  /\ pc' \in [Requests -> Steps] /\ fr' \in [Requests -> Frame]
           /\ pc'[r] = p /\ fr'[r] = f
           /\ \A q \in Requests \ {r} : pc'[q] = pc[q] /\ fr'[q] = fr[q]
BY DEF Turn, TypeOK

\* Nothing a request has met is forgotten while it and the other stay at work,
\* with the same operation and user.
LEMMA MovesMet ==
    ASSUME TypeOK, MetOK, NEW r \in InFlight, NEW p \in Steps, NEW f \in Frame,
           Turn(r, p, f),
           p = "done" \/ (f.user = fr[r].user /\ f.op = fr[r].op /\ f.met = fr[r].met)
    PROVE  MetOK'
<1>1. r \in Requests
    BY DEF InFlight
<1>2. /\ pc'[r] = p /\ fr'[r] = f
      /\ \A q \in Requests \ {r} : pc'[q] = pc[q] /\ fr'[q] = fr[q]
    BY <1>1, Moves
<1>3. InFlight' \subseteq InFlight /\ (p = "done" => r \notin InFlight')
    BY <1>1, <1>2 DEF InFlight
<1>4. ASSUME NEW q \in InFlight'
      PROVE  /\ q \in InFlight /\ fr'[q].user = fr[q].user
             /\ fr'[q].op = fr[q].op /\ fr'[q].met = fr[q].met
    <2>1. q \in Requests /\ q \in InFlight
        BY <1>3 DEF InFlight
    <2>2. CASE q = r
        BY <1>2, <1>3, <2>1, <2>2
    <2>3. CASE q # r
        BY <1>2, <2>1, <2>3
    <2> QED
        BY <2>2, <2>3
<1> QED
    BY <1>4 DEF MetOK

Untouched == UNCHANGED <<now, tables, mailed>>

\* A step of a request that reads only.
LEMMA ReadStep ==
    ASSUME IInv, Untouched, NEW r \in InFlight, NEW p \in Steps, NEW f \in Frame,
           Turn(r, p, f), Fits(r, p, f),
           p = "done" \/ (f.user = fr[r].user /\ f.op = fr[r].op /\ f.met = fr[r].met),
           pc[r] \in {"reqMail", "ok"} => p = "done"
    PROVE  IInv'
<1>1. r \in Requests /\ TypeOK /\ pc[r] \notin {"new", "done"}
    BY DEF InFlight, IInv
<1>2. /\ pc' \in [Requests -> Steps] /\ fr' \in [Requests -> Frame]
      /\ pc'[r] = p /\ fr'[r] = f
      /\ \A q \in Requests \ {r} : pc'[q] = pc[q] /\ fr'[q] = fr[q]
    BY <1>1, Moves
<1>3. UNCHANGED <<now, password, resets, sessions, mailed>>
    BY DEF Untouched, tables
<1>4. TypeOK'
    BY <1>2, <1>3 DEF IInv, TypeOK, TablesOK
<1>5. FramesOK'
    <2> SUFFICES ASSUME NEW q \in Requests PROVE Fits(q, pc[q], fr[q])'
        BY DEF FramesOK
    <2>1. Fits(q, pc'[q], fr'[q])
        BY <1>2 DEF IInv, FramesOK
    <2> QED
        BY <1>3, <2>1 DEF Fits, WhoFits, LinkFits, PasswordFits, SessionFits, ActiveOf
<1>6. MetOK'
    BY MovesMet DEF IInv
<1>7. RowsOK'
    <2>1. DOMAIN resets \subseteq Requests /\ DOMAIN sessions \subseteq Requests
        BY DEF IInv, TypeOK, TablesOK
    <2>2. \A q \in Requests : /\ pc[q] \in {"reqMail", "ok", "done"} =>
                                    pc'[q] \in {"reqMail", "ok", "done"}
                              /\ pc[q] \in {"ok", "done"} => pc'[q] \in {"ok", "done"}
        BY <1>1, <1>2
    <2> QED
        BY <1>3, <2>1, <2>2 DEF IInv, RowsOK
<1>8. OldPasswordOverlaps'
    BY <1>3 DEF IInv, OldPasswordOverlaps
<1> QED
    BY <1>4, <1>5, <1>6, <1>7, <1>8 DEF IInv

\* The same with an unchanged frame.
LEMMA ReadGoto ==
    ASSUME IInv, Untouched, NEW r \in InFlight, NEW p \in Steps, Goto(r, p),
           Fits(r, p, fr[r]), pc[r] \notin {"reqMail", "ok"}
    PROVE  IInv'
<1>1. fr[r] \in Frame /\ Turn(r, p, fr[r])
    BY DEF InFlight, IInv, TypeOK, Goto, Turn
<1> QED
    BY <1>1, ReadStep

\* The end of a request.
LEMMA LeaveStep == ASSUME IInv, Untouched, NEW r \in InFlight, Leave(r) PROVE IInv'
<1>1. now \in Nat /\ "done" \in Steps
    BY DEF IInv, TypeOK, TablesOK, Steps
<1> QED
    BY <1>1, BlankType, ReadStep DEF Leave
-----------------------------------------------------------------------------
(* Arrivals.                                                                *)

\* A request comes in with a frame that fits.
LEMMA BeginStep ==
    ASSUME IInv, NEW r \in Requests, NEW op \in AllOps, NEW u \in Emails,
           NEW arg \in Opt(Passwords),
           NEW step \in {"logFind", "logSession", "reqFind", "conFind", "chgFind"},
           Begin(r, op, step, u, arg),
           step \in {"logSession", "conFind", "chgFind"} => u \in Users,
           step = "conFind" <=> op = "confirm",
           step = "chgFind" <=> op = "change",
           step = "logSession" => arg = None,
           step = "conFind" => /\ [to |-> u, token |-> arg] \in mailed
                               /\ arg \in DOMAIN resets /\ resets[arg].user = u
    PROVE  IInv'
<1> DEFINE new == [op |-> op, user |-> u, arg |-> arg, swept |-> {}, at |-> now,
                   was |-> IF u \in Local THEN password[u] ELSE None,
                   had |-> ActiveOf(u),
                   met |-> {p \in AtWork(u) : fr[p].op \in Changing}]
<1>1. /\ TypeOK /\ TablesOK /\ pc \in [Requests -> Steps] /\ fr \in [Requests -> Frame]
      /\ DOMAIN sessions \subseteq Requests /\ now \in Nat
      /\ pc[r] = "new" /\ r \notin InFlight /\ step \in Steps
    BY DEF IInv, TypeOK, TablesOK, Begin, InFlight, Steps
<1>2. AtWork(u) \subseteq InFlight /\ InFlight \subseteq Requests
    BY DEF AtWork, InFlight
<1>3. new \in Frame
    <2>1. ActiveOf(u) \subseteq Requests
        BY <1>1 DEF ActiveOf
    <2>2. (IF u \in Local THEN password[u] ELSE None) \in Opt(Passwords)
        BY <1>1 DEF TablesOK, Opt
    <2> QED
        BY <1>1, <1>2, <2>1, <2>2 DEF Frame, Opt
<1>4. /\ new.op = op /\ new.user = u /\ new.arg = arg /\ new.at = now
      /\ new.was = (IF u \in Local THEN password[u] ELSE None)
      /\ new.had = ActiveOf(u)
      /\ new.met = {p \in AtWork(u) : fr[p].op \in Changing}
    OBVIOUS
<1> HIDE DEF new
<1>5. /\ pc' = [pc EXCEPT ![r] = step]
      /\ fr' = [q \in Requests |->
                   IF q = r THEN new
                   ELSE IF q \in AtWork(u) /\ op \in Changing
                   THEN [fr[q] EXCEPT !.met = @ \cup {r}] ELSE fr[q]]
      /\ UNCHANGED <<now, password, resets, sessions, mailed>>
    BY DEF Begin, tables, new
<1>6. ASSUME NEW q \in Requests \ {r}
      PROVE  /\ fr'[q] \in Frame /\ pc'[q] = pc[q]
             /\ fr'[q].op = fr[q].op /\ fr'[q].user = fr[q].user
             /\ fr'[q].arg = fr[q].arg /\ fr'[q].at = fr[q].at
             /\ fr'[q].was = fr[q].was /\ fr'[q].had = fr[q].had
             /\ fr'[q].swept = fr[q].swept
             /\ fr[q].met \subseteq fr'[q].met
             /\ q \in AtWork(u) /\ op \in Changing => r \in fr'[q].met
    <2>1. fr[q] \in Frame
        BY <1>1
    <2>2. CASE q \in AtWork(u) /\ op \in Changing
        <3>1. fr'[q] = [fr[q] EXCEPT !.met = @ \cup {r}]
            BY <1>5, <2>2
        <3> QED
            BY <1>1, <1>5, <2>1, <3>1 DEF Frame
    <2>3. CASE ~(q \in AtWork(u) /\ op \in Changing)
        BY <1>1, <1>5, <2>1, <2>3
    <2> QED
        BY <2>2, <2>3
<1>7. fr'[r] = new /\ pc'[r] = step
    BY <1>1, <1>5
<1>8. /\ pc' \in [Requests -> Steps]
      /\ fr' \in [Requests -> Frame]
    <2>1. \A q \in Requests : fr'[q] \in Frame
        BY <1>3, <1>6, <1>7
    <2> QED
        BY <1>1, <1>5, <2>1
<1>9. TypeOK'
    BY <1>1, <1>5, <1>8 DEF TypeOK, TablesOK
<1>10. FramesOK'
    <2> SUFFICES ASSUME NEW q \in Requests PROVE Fits(q, pc[q], fr[q])'
        BY DEF FramesOK
    <2>1. CASE q # r
        <3>1. Fits(q, pc[q], fr[q])
            BY DEF IInv, FramesOK
        <3>2. WhoFits(pc[q], fr[q])' /\ SessionFits(pc[q], fr[q])'
            BY <1>5, <1>6, <2>1, <3>1 DEF Fits, WhoFits, SessionFits, ActiveOf
        <3>3. LinkFits(q, pc[q], fr[q])'
            BY <1>5, <1>6, <2>1, <3>1 DEF Fits, LinkFits
        <3>4. PasswordFits(q, pc[q], fr[q])'
            BY <1>5, <1>6, <2>1, <3>1 DEF Fits, PasswordFits
        <3> QED
            BY <3>2, <3>3, <3>4 DEF Fits
    <2>2. CASE q = r
        <3>1. WhoFits(pc[q], fr[q])' /\ SessionFits(pc[q], fr[q])'
            BY <1>1, <1>4, <1>5, <1>7, <2>2
            DEF WhoFits, SessionFits, ActiveOf, InTransaction, Changing
        <3>2. LinkFits(q, pc[q], fr[q])'
            BY <1>4, <1>5, <1>7, <2>2 DEF LinkFits, InTransaction
        <3>3. PasswordFits(q, pc[q], fr[q])'
            BY <1>4, <1>5, <1>7, <2>2 DEF PasswordFits, InTransaction
        <3> QED
            BY <3>1, <3>2, <3>3 DEF Fits
    <2> QED
        BY <2>1, <2>2
<1>11. MetOK'
    <2> SUFFICES ASSUME NEW q \in InFlight', NEW p \in InFlight', q # p,
                        fr'[q].user = fr'[p].user, fr'[p].op \in Changing
                 PROVE  p \in fr'[q].met
        BY DEF MetOK
    <2>1. q \in Requests /\ p \in Requests
        BY DEF InFlight
    <2>2. ASSUME NEW x \in InFlight', x # r PROVE x \in InFlight
        BY <1>6, <2>2 DEF InFlight
    <2>3. CASE q = r
        <3>1. p \in InFlight /\ fr[p].user = u /\ fr[p].op \in Changing
            BY <1>4, <1>6, <1>7, <2>1, <2>2, <2>3
        <3> QED
            BY <1>4, <1>7, <2>3, <3>1 DEF AtWork
    <2>4. CASE p = r
        <3>1. q \in InFlight /\ fr[q].user = u /\ op \in Changing
            BY <1>4, <1>6, <1>7, <2>1, <2>2, <2>4
        <3> QED
            BY <1>6, <2>1, <2>4, <3>1 DEF AtWork
    <2>5. CASE q # r /\ p # r
        BY <1>6, <2>1, <2>2, <2>5 DEF IInv, MetOK
    <2> QED
        BY <2>3, <2>4, <2>5
<1>12. RowsOK'
    <2>1. DOMAIN resets \subseteq Requests /\ DOMAIN sessions \subseteq Requests
        BY <1>1 DEF TablesOK
    <2>2. \A x \in DOMAIN resets \cup DOMAIN sessions : pc[x] \in {"reqMail", "ok", "done"}
        BY DEF IInv, RowsOK
    <2>3. \A x \in DOMAIN resets \cup DOMAIN sessions : pc'[x] = pc[x]
        BY <1>1, <1>6, <2>1, <2>2
    <2> QED
        BY <1>5, <2>3 DEF IInv, RowsOK
<1>13. OldPasswordOverlaps'
    BY <1>5 DEF IInv, OldPasswordOverlaps
<1> QED
    BY <1>9, <1>10, <1>11, <1>12, <1>13 DEF IInv

LEMMA ArriveStep == ASSUME IInv, NEW r \in Requests, Arrive(r) PROVE IInv'
<1>1. \A m \in mailed : m.token \in DOMAIN resets /\ m.to = resets[m.token].user
      /\ resets[m.token] \in ResetRow /\ m.token \in Requests
    BY DEF IInv, TypeOK, TablesOK
<1>2. Typed \subseteq Opt(Passwords) /\ Requests \subseteq Opt(Passwords)
    BY DEF Typed, Opt, Passwords
<1>3. ASSUME NEW u \in Emails, NEW p \in Typed, Begin(r, "login", "logFind", u, p)
      PROVE  IInv'
    BY <1>2, <1>3, BeginStep DEF AllOps, Changing
<1>4. ASSUME NEW u \in Users, Begin(r, "social", "logSession", u, None) PROVE IInv'
    BY <1>4, BeginStep DEF AllOps, Changing, Opt
<1>5. ASSUME NEW u \in Emails, Begin(r, "forgot", "reqFind", u, None) PROVE IInv'
    BY <1>5, BeginStep DEF AllOps, Changing, Opt
<1>6. ASSUME NEW m \in mailed, Begin(r, "confirm", "conFind", m.to, m.token)
      PROVE  IInv'
    <2>1. /\ m.to \in Users /\ m.token \in Opt(Passwords)
          /\ m.token \in DOMAIN resets /\ resets[m.token].user = m.to
        BY <1>1, <1>2 DEF ResetRow
    <2>2. [to |-> m.to, token |-> m.token] \in mailed
        BY DEF IInv, TypeOK, TablesOK
    <2> QED
        BY <1>6, <2>1, <2>2, BeginStep DEF AllOps, Changing
<1>7. ASSUME NEW u \in Users, NEW p \in Typed, Begin(r, "change", "chgFind", u, p)
      PROVE  IInv'
    BY <1>2, <1>7, BeginStep DEF AllOps, Changing
<1> QED
    BY <1>3, <1>4, <1>5, <1>6, <1>7 DEF Arrive
-----------------------------------------------------------------------------
(* Steps that read.                                                         *)

LEMMA ReaderStep ==
    ASSUME IInv, NEW r \in Requests,
           \/ LogFind(r) \/ ReqFind(r) \/ ConFind(r) \/ ChgFind(r) \/ Account(r)
           \/ Sweep(r) \/ Answer(r) \/ Throw(r)
    PROVE  IInv'
<1> DEFINE F == fr[r]
<1>1. /\ F \in Frame /\ Fits(r, pc[r], F) /\ now \in Nat
      /\ F.met \subseteq Requests /\ TypeOK /\ TablesOK
    BY DEF IInv, TypeOK, TablesOK, FramesOK, Frame
<1>2. \A p \in Steps \ {"new", "done"} : pc[r] = p => r \in InFlight
    BY DEF InFlight
<1> USE DEF Fits, WhoFits, LinkFits, PasswordFits, SessionFits, InTransaction
<1>3. CASE LogFind(r)
    <2>1. pc[r] = "logFind" /\ r \in InFlight /\ Untouched
        BY <1>2, <1>3 DEF LogFind, Untouched, Steps
    <2>2. CASE Leave(r)
        BY <2>1, <2>2, LeaveStep
    <2>3. CASE F.user \in Verified /\ password[F.user] = F.arg /\ Goto(r, "logSession")
        <3>1. Fits(r, "logSession", F) /\ "logSession" \in Steps
            BY <1>1, <2>1, <2>3 DEF Steps
        <3> QED
            BY <2>1, <2>3, <3>1, ReadGoto
    <2> QED
        BY <1>3, <2>2, <2>3 DEF LogFind
<1>4. CASE ReqFind(r)
    <2>1. pc[r] = "reqFind" /\ r \in InFlight /\ Untouched
        BY <1>2, <1>4 DEF ReqFind, Untouched, Steps
    <2>2. CASE F.user \in Users /\ Goto(r, "reqRow")
        <3>1. Fits(r, "reqRow", F) /\ "reqRow" \in Steps
            BY <1>1, <2>1, <2>2 DEF Steps
        <3> QED
            BY <2>1, <2>2, <3>1, ReadGoto
    <2>3. CASE Goto(r, "ok")
        <3>1. Fits(r, "ok", F) /\ "ok" \in Steps
            BY <1>1, <2>1 DEF Steps, Changing
        <3> QED
            BY <2>1, <2>3, <3>1, ReadGoto
    <2> QED
        BY <1>4, <2>2, <2>3 DEF ReqFind
<1>5. CASE ConFind(r)
    <2>1. pc[r] = "conFind" /\ r \in InFlight /\ Untouched
        BY <1>2, <1>5 DEF ConFind, Confirms, Untouched, Steps
    <2>2. CASE Leave(r)
        BY <2>1, <2>2, LeaveStep
    <2>3. CASE /\ F.arg \in DOMAIN resets /\ ~resets[F.arg].used /\ resets[F.arg].exp > now
               /\ Turn(r, "account", [F EXCEPT !.user = resets[F.arg].user])
        <3>1. F.op = "confirm" /\ resets[F.arg].user = F.user
            BY <1>1, <2>1
        <3>2. [F EXCEPT !.user = resets[F.arg].user] = F
            BY <1>1, <3>1 DEF Frame
        <3>3. resets[F.arg].by = {} /\ resets[F.arg].exp \in Nat /\ F.at \in Nat
            BY <1>1, <2>3 DEF IInv, RowsOK, TablesOK, ResetRow, Frame
        <3>4. Fits(r, "account", F) /\ "account" \in Steps
            BY <1>1, <2>1, <2>3, <3>1, <3>3 DEF Steps, Changing
        <3> QED
            BY <1>1, <2>1, <2>3, <3>2, <3>4, ReadStep
    <2> QED
        BY <1>5, <2>2, <2>3 DEF ConFind, Confirms
<1>6. CASE ChgFind(r)
    <2>1. pc[r] = "chgFind" /\ r \in InFlight /\ Untouched
        BY <1>2, <1>6 DEF ChgFind, Untouched, Steps
    <2>2. CASE Leave(r)
        BY <2>1, <2>2, LeaveStep
    <2>3. CASE F.user \in Local /\ password[F.user] = F.arg /\ Goto(r, "account")
        <3>1. Fits(r, "account", F) /\ "account" \in Steps
            BY <1>1, <2>1, <2>3 DEF Steps, Changing
        <3> QED
            BY <2>1, <2>3, <3>1, ReadGoto
    <2> QED
        BY <1>6, <2>2, <2>3 DEF ChgFind
<1>7. CASE Account(r)
    <2>1. pc[r] = "account" /\ r \in InFlight /\ Untouched /\ Goto(r, "sweep")
        BY <1>2, <1>7 DEF Account, Untouched, Steps
    <2>2. Fits(r, "sweep", F) /\ "sweep" \in Steps
        BY <1>1, <2>1 DEF Steps
    <2> QED
        BY <2>1, <2>2, ReadGoto
<1>8. CASE Sweep(r)
    <2> DEFINE G == [F EXCEPT !.swept = ActiveOf(F.user)]
    <2>1. pc[r] = "sweep" /\ r \in InFlight /\ Untouched /\ Turn(r, "commit", G)
        BY <1>2, <1>8 DEF Sweep, Sweeps, Untouched, Steps
    <2>2. /\ G \in Frame /\ G.swept = ActiveOf(F.user) /\ G.op = F.op /\ G.user = F.user
          /\ G.arg = F.arg /\ G.at = F.at /\ G.was = F.was /\ G.had = F.had
          /\ G.met = F.met
        <3>1. ActiveOf(F.user) \subseteq Requests
            BY <1>1 DEF ActiveOf, TablesOK
        <3> QED
            BY <1>1, <3>1 DEF Frame
    <2> HIDE DEF G
    <2>3. Fits(r, "commit", G) /\ "commit" \in Steps
        BY <1>1, <2>1, <2>2 DEF Steps
    <2> QED
        BY <2>1, <2>2, <2>3, ReadStep
<1>9. CASE Answer(r) \/ Throw(r)
    <2>1. r \in InFlight /\ Untouched /\ Leave(r)
        BY <1>2, <1>9 DEF Answer, Throw, Untouched, Steps
    <2> QED
        BY <2>1, LeaveStep
<1> QED
    BY <1>3, <1>4, <1>5, <1>6, <1>7, <1>8, <1>9
-----------------------------------------------------------------------------
(* Steps that write.                                                        *)

\* A session that is opened while a change is at work has met it.
LEMMA LogSessionStep == ASSUME IInv, NEW r \in Requests, LogSession(r) PROVE IInv'
<1> DEFINE F == fr[r]
           Row == [user |-> F.user, active |-> TRUE, pw |-> F.arg, met |-> F.met]
<1>1. /\ F \in Frame /\ Fits(r, pc[r], F) /\ pc[r] = "logSession" /\ r \in InFlight
      /\ TypeOK /\ TablesOK /\ Goto(r, "ok") /\ r \notin DOMAIN sessions
      /\ sessions' = With(sessions, r, Row)
      /\ UNCHANGED <<now, password, resets, mailed>>
    BY DEF IInv, TypeOK, FramesOK, LogSession, RowsOK, InFlight
<1>2. Turn(r, "ok", F) /\ "ok" \in Steps
    BY <1>1 DEF Goto, Turn, TypeOK, Steps
<1>3. /\ pc' \in [Requests -> Steps] /\ fr' \in [Requests -> Frame] /\ fr' = fr
      /\ pc'[r] = "ok" /\ \A q \in Requests \ {r} : pc'[q] = pc[q]
    BY <1>1, <1>2, Moves DEF Goto
<1>4. Row \in SessionRow
    BY <1>1 DEF Fits, WhoFits, Frame, SessionRow
<1>5. /\ Row.user = F.user /\ Row.pw = F.arg /\ Row.met = F.met
    OBVIOUS
<1> HIDE DEF Row
<1>6. /\ sessions' \in [DOMAIN sessions' -> SessionRow]
      /\ DOMAIN sessions' = DOMAIN sessions \cup {r} /\ sessions'[r] = Row
      /\ \A s \in DOMAIN sessions : sessions'[s] = sessions[s]
    <2>1. sessions' = [y \in DOMAIN sessions \cup {r} |-> IF y = r THEN Row ELSE sessions[y]]
        BY <1>1 DEF With
    <2>2. \A y \in DOMAIN sessions : sessions[y] \in SessionRow
        BY <1>1 DEF TablesOK
    <2> QED
        BY <1>1, <1>4, <2>1, <2>2
<1>7. TypeOK'
    BY <1>1, <1>3, <1>6 DEF TypeOK, TablesOK
<1>8. FramesOK'
    <2> SUFFICES ASSUME NEW q \in Requests PROVE Fits(q, pc[q], fr[q])'
        BY DEF FramesOK
    <2>1. Fits(q, pc[q], fr[q]) /\ fr[q] \in Frame
        BY DEF IInv, FramesOK, TypeOK
    <2>2. CASE q = r
        BY <1>1, <1>3, <1>6, <2>2
        DEF Fits, WhoFits, LinkFits, PasswordFits, SessionFits, Changing, InTransaction
    <2>3. CASE q # r
        <3>1. WhoFits(pc[q], fr[q])' /\ LinkFits(q, pc[q], fr[q])'
              /\ PasswordFits(q, pc[q], fr[q])'
            BY <1>1, <1>3, <2>1, <2>3 DEF Fits, WhoFits, LinkFits, PasswordFits
        <3>2. ActiveOf(fr[q].user)' \subseteq ActiveOf(fr[q].user) \cup {r}
            BY <1>3, <1>6 DEF ActiveOf
        <3>3. r \notin fr[q].had /\ fr[q].had \subseteq DOMAIN sessions'
            BY <1>1, <1>6, <2>1 DEF Fits, SessionFits
        <3>4. ASSUME r \in ActiveOf(fr[q].user)', pc[q] = "commit"
              PROVE  sessions'[r].met # {}
            <4>1. F.user = fr[q].user
                BY <1>3, <1>5, <1>6, <3>4 DEF ActiveOf
            <4>2. q \in InFlight /\ fr[q].op \in Changing
                BY <2>1, <3>4 DEF InFlight, Fits, WhoFits, InTransaction
            <4>3. q \in F.met
                BY <1>1, <2>3, <4>1, <4>2 DEF IInv, MetOK
            <4> QED
                BY <1>5, <1>6, <4>3
        <3>5. SessionFits(pc[q], fr[q])'
            <4>1. ASSUME pc[q] = "commit", NEW s \in ActiveOf(fr[q].user)'
                  PROVE  s \in fr[q].swept \/ (s \notin fr[q].had /\ sessions'[s].met # {})
                <5>1. CASE s = r
                    BY <3>3, <3>4, <4>1, <5>1
                <5>2. CASE s # r
                    <6>1. s \in ActiveOf(fr[q].user) /\ sessions'[s] = sessions[s]
                        BY <1>6, <3>2, <4>1, <5>2 DEF ActiveOf
                    <6> QED
                        BY <2>1, <4>1, <6>1 DEF Fits, SessionFits
                <5> QED
                    BY <5>1, <5>2
            <4>2. fr[q].op \in Changing /\ pc[q] = "ok" =>
                     fr[q].had \cap ActiveOf(fr[q].user)' = {}
                BY <2>1, <3>2, <3>3 DEF Fits, SessionFits
            <4> QED
                BY <1>3, <2>3, <3>3, <4>1, <4>2 DEF SessionFits
        <3> QED
            BY <3>1, <3>5 DEF Fits
    <2> QED
        BY <2>2, <2>3
<1>9. MetOK'
    BY <1>1, <1>2, MovesMet DEF IInv
<1>10. RowsOK'
    <2>1. F.arg # None => F.user \in Local
        BY <1>1 DEF Fits, PasswordFits
    <2>2. \A t \in DOMAIN resets : pc'[t] \in {"reqMail", "ok", "done"}
        BY <1>1, <1>3 DEF IInv, RowsOK, TablesOK
    <2>3. \A s \in DOMAIN sessions' :
             /\ pc'[s] \in {"ok", "done"}
             /\ sessions'[s].pw # None => sessions'[s].user \in Local
        BY <1>1, <1>3, <1>5, <1>6, <2>1 DEF IInv, RowsOK, TablesOK
    <2> QED
        BY <1>1, <2>2, <2>3 DEF IInv, RowsOK
<1>11. OldPasswordOverlaps'
    <2>1. F.arg # None => F.arg = password[F.user] \/ F.met # {}
        BY <1>1 DEF Fits, PasswordFits
    <2> QED
        BY <1>1, <1>5, <1>6, <2>1 DEF IInv, OldPasswordOverlaps
<1> QED
    BY <1>7, <1>8, <1>9, <1>10, <1>11 DEF IInv

\* A link is stored before it is mailed.
LEMMA ForgotStep ==
    ASSUME IInv, NEW r \in Requests, ReqRow(r) \/ ReqMail(r) PROVE IInv'
<1> DEFINE F == fr[r]
           Row == [user |-> F.user, exp |-> now + ResetTtl, used |-> FALSE, by |-> {}]
<1>1. /\ F \in Frame /\ Fits(r, pc[r], F) /\ pc[r] \in {"reqRow", "reqMail"}
      /\ r \in InFlight /\ TypeOK /\ TablesOK
      /\ UNCHANGED <<now, password, sessions>>
    BY DEF IInv, TypeOK, FramesOK, ReqRow, ReqMail, InFlight, tables
<1>2. PICK p \in {"reqMail", "ok"} :
         /\ Goto(r, p) /\ Turn(r, p, F)
         /\ p = "reqMail" <=> ReqRow(r)
         /\ p = "ok" <=> ReqMail(r)
    BY <1>1 DEF ReqRow, ReqMail, Goto, Turn, TypeOK
<1>3. /\ pc' \in [Requests -> Steps] /\ fr' \in [Requests -> Frame] /\ fr' = fr
      /\ pc'[r] = p /\ \A q \in Requests \ {r} : pc'[q] = pc[q]
    BY <1>1, <1>2, Moves DEF Goto, Steps
<1>4. /\ resets' \in [DOMAIN resets' -> ResetRow] /\ DOMAIN resets' \subseteq Requests
      /\ DOMAIN resets \subseteq DOMAIN resets'
      /\ \A t \in DOMAIN resets : resets'[t] = resets[t]
      /\ \A t \in DOMAIN resets' \ DOMAIN resets : t = r /\ resets'[t].by = {}
      /\ r \in DOMAIN resets' /\ resets'[r].user = F.user
    <2>1. CASE ReqRow(r)
        <3>1. Row \in ResetRow /\ Row.user = F.user /\ Row.by = {}
            BY <1>1 DEF Fits, WhoFits, ResetRow, TablesOK
        <3>2. resets' = With(resets, r, Row) /\ r \notin DOMAIN resets
            BY <2>1 DEF ReqRow, IInv, RowsOK
        <3> HIDE DEF Row
        <3>3. \A y \in DOMAIN resets : resets[y] \in ResetRow
            BY <1>1 DEF TablesOK
        <3>4. /\ resets' \in [DOMAIN resets \cup {r} -> ResetRow]
              /\ resets'[r] = Row /\ \A y \in DOMAIN resets \ {r} : resets'[y] = resets[y]
            <4>1. resets' = [y \in DOMAIN resets \cup {r} |->
                                IF y = r THEN Row ELSE resets[y]]
                BY <3>2 DEF With
            <4> QED
                BY <3>1, <3>3, <4>1
        <3> QED
            BY <1>1, <3>1, <3>2, <3>4 DEF TablesOK
    <2>2. CASE ReqMail(r)
        BY <1>1, <2>2 DEF ReqMail, tables, Fits, LinkFits, TablesOK
    <2> QED
        BY <1>2, <2>1, <2>2
<1>5. mailed \subseteq mailed' /\ mailed' \subseteq mailed \cup {[to |-> F.user, token |-> r]}
    BY <1>2 DEF ReqRow, ReqMail
<1>6. TypeOK'
    <2>1. F.user \in Users
        BY <1>1 DEF Fits, WhoFits
    <2>2. mailed' \subseteq [to : Users, token : Requests]
        BY <1>1, <1>5, <2>1 DEF TablesOK
    <2>3. \A m \in mailed' : m.token \in DOMAIN resets' /\ m.to = resets'[m.token].user
        BY <1>1, <1>4, <1>5 DEF TablesOK
    <2> QED
        BY <1>1, <1>3, <1>4, <2>2, <2>3 DEF TypeOK, TablesOK
<1>7. FramesOK'
    <2> SUFFICES ASSUME NEW q \in Requests PROVE Fits(q, pc[q], fr[q])'
        BY DEF FramesOK
    <2>1. Fits(q, pc[q], fr[q]) /\ fr[q] \in Frame
        BY DEF IInv, FramesOK, TypeOK
    <2>2. CASE q = r
        BY <1>1, <1>3, <1>4, <1>5, <2>1, <2>2
        DEF Fits, WhoFits, LinkFits, PasswordFits, SessionFits, ActiveOf, Changing,
            InTransaction
    <2>3. CASE q # r
        BY <1>1, <1>3, <1>4, <1>5, <2>1, <2>3
        DEF Fits, WhoFits, LinkFits, PasswordFits, SessionFits, ActiveOf
    <2> QED
        BY <2>2, <2>3
<1>8. MetOK'
    BY <1>1, <1>2, MovesMet DEF IInv, Steps
<1>9. RowsOK'
    <2>1. \A t \in DOMAIN resets' : pc'[t] \in {"reqMail", "ok", "done"}
        BY <1>1, <1>3, <1>4 DEF IInv, RowsOK, TablesOK
    <2>2. \A s \in DOMAIN sessions : pc'[s] \in {"ok", "done"}
        BY <1>1, <1>3 DEF IInv, RowsOK, TablesOK
    <2> QED
        BY <1>1, <1>4, <2>1, <2>2 DEF IInv, RowsOK
<1>10. OldPasswordOverlaps'
    BY <1>1 DEF IInv, OldPasswordOverlaps
<1> QED
    BY <1>6, <1>7, <1>8, <1>9, <1>10 DEF IInv
\* A commit ends the sessions it has seen and those it has not seen were opened
\* by logins that had met it; whoever is at work with it has met it.
LEMMA CommitStep == ASSUME IInv, NEW r \in Requests, Commit(r) PROVE IInv'
<1> DEFINE F == fr[r]
<1>1. /\ F \in Frame /\ Fits(r, pc[r], F) /\ pc[r] = "commit" /\ r \in InFlight
      /\ TypeOK /\ TablesOK /\ Goto(r, "ok") /\ F.op \in Changing /\ F.user \in Users
      /\ UNCHANGED <<now, mailed>>
    BY DEF IInv, TypeOK, FramesOK, Commit, Commits, InFlight, Fits, WhoFits, InTransaction
<1>2. Turn(r, "ok", F) /\ "ok" \in Steps
    BY <1>1 DEF Goto, Turn, TypeOK, Steps
<1>3. /\ pc' \in [Requests -> Steps] /\ fr' \in [Requests -> Frame] /\ fr' = fr
      /\ pc'[r] = "ok" /\ \A q \in Requests \ {r} : pc'[q] = pc[q]
    BY <1>1, <1>2, Moves DEF Goto
<1>4. /\ password' \in [Local -> Passwords]
      /\ F.user \in Local => password'[F.user] = r
      /\ \A u \in Local \ {F.user} : password'[u] = password[u]
    BY <1>1 DEF Commit, Commits, TablesOK, Passwords
<1>5. DOMAIN sessions' = DOMAIN sessions /\ sessions' \in [DOMAIN sessions -> SessionRow]
    <2>1. sessions' = [s \in DOMAIN sessions |->
                          [sessions[s] EXCEPT !.active = @ /\ s \notin F.swept]]
        BY DEF Commit, Commits
    <2>2. \A s \in DOMAIN sessions :
             [sessions[s] EXCEPT !.active = @ /\ s \notin F.swept] \in SessionRow
        BY <1>1 DEF TablesOK, SessionRow
    <2> QED
        BY <2>1, <2>2
<1>6. ASSUME NEW s \in DOMAIN sessions
      PROVE  /\ sessions'[s].user = sessions[s].user /\ sessions'[s].pw = sessions[s].pw
             /\ sessions'[s].met = sessions[s].met
             /\ sessions'[s].active => sessions[s].active /\ s \notin F.swept
    <2>1. sessions'[s] = [sessions[s] EXCEPT !.active = @ /\ s \notin F.swept]
        BY DEF Commit, Commits
    <2>2. sessions[s] \in SessionRow
        BY <1>1 DEF TablesOK
    <2> QED
        BY <2>1, <2>2 DEF SessionRow
<1>7. ASSUME NEW t \in DOMAIN resets
      PROVE  /\ resets'[t] \in ResetRow
             /\ resets'[t].user = resets[t].user /\ resets'[t].exp = resets[t].exp
             /\ resets[t].used => resets'[t].used
             /\ resets[t].by \subseteq resets'[t].by
             /\ resets'[t].by \subseteq resets[t].by \cup {r}
             /\ resets'[t].by # resets[t].by => F.op = "confirm" /\ t = F.arg
             /\ F.op = "confirm" /\ t = F.arg => resets'[t].used
    <2>1. resets[t] \in ResetRow
        BY <1>1 DEF TablesOK
    <2>2. CASE F.op = "confirm" /\ t = F.arg
        <3>1. resets'[t] = [resets[t] EXCEPT !.used = TRUE, !.by = @ \cup {r}]
            BY <2>2 DEF Commit, Commits
        <3>2. /\ resets'[t].user = resets[t].user /\ resets'[t].exp = resets[t].exp
              /\ resets'[t].used = TRUE /\ resets'[t].by = resets[t].by \cup {r}
            BY <2>1, <3>1 DEF ResetRow
        <3>3. resets'[t] \in ResetRow
            BY <2>1, <3>1 DEF ResetRow
        <3> QED
            BY <2>2, <3>2, <3>3
    <2>3. CASE ~(F.op = "confirm" /\ t = F.arg)
        <3>1. resets'[t] = resets[t]
            BY <2>3 DEF Commit, Commits
        <3> QED
            BY <2>1, <2>3, <3>1
    <2> QED
        BY <2>2, <2>3
<1>8. DOMAIN resets' = DOMAIN resets /\ resets' \in [DOMAIN resets -> ResetRow]
    <2>1. /\ DOMAIN resets' = DOMAIN resets
          /\ resets' = [t \in DOMAIN resets |-> resets'[t]]
        BY DEF Commit, Commits
    <2> QED
        BY <1>7, <2>1
<1>9. TypeOK'
    BY <1>1, <1>3, <1>4, <1>5, <1>7, <1>8 DEF TypeOK, TablesOK
<1>10. ASSUME NEW u \in Users PROVE ActiveOf(u)' \subseteq ActiveOf(u) \ F.swept
    BY <1>5, <1>6 DEF ActiveOf
<1>11. FramesOK'
    <2> SUFFICES ASSUME NEW q \in Requests PROVE Fits(q, pc[q], fr[q])'
        BY DEF FramesOK
    <2>1. Fits(q, pc[q], fr[q]) /\ fr[q] \in Frame
        BY DEF IInv, FramesOK, TypeOK
    <2>2. CASE q = r
        <3>1. WhoFits(pc[q], fr[q])'
            BY <1>1, <1>3, <2>2 DEF Fits, WhoFits, InTransaction
        <3>2. LinkFits(q, pc[q], fr[q])'
            BY <1>1, <1>3, <1>7, <1>8, <2>2 DEF Fits, LinkFits, InTransaction
        <3>3. PasswordFits(q, pc[q], fr[q])'
            BY <1>1, <1>3, <1>4, <2>2 DEF PasswordFits, InTransaction
        <3>4. SessionFits(pc[q], fr[q])'
            BY <1>1, <1>3, <1>5, <1>10, <2>2 DEF Fits, SessionFits
        <3> QED
            BY <3>1, <3>2, <3>3, <3>4 DEF Fits
    <2>3. CASE q # r
        <3>1. q \in InFlight /\ fr[q].user = F.user => r \in fr[q].met
            BY <1>1, <2>3 DEF IInv, MetOK
        <3>2. WhoFits(pc[q], fr[q])'
            BY <1>1, <1>3, <2>1, <2>3 DEF Fits, WhoFits
        <3>3. LinkFits(q, pc[q], fr[q])'
            <4>1. ASSUME fr[q].op = "confirm", pc[q] \in InTransaction \cup {"conFind", "ok"}
                  PROVE  /\ fr[q].arg \in DOMAIN resets' /\ resets'[fr[q].arg].user = fr[q].user
                         /\ [to |-> fr[q].user, token |-> fr[q].arg] \in mailed'
                BY <1>1, <1>7, <1>8, <2>1, <4>1 DEF Fits, LinkFits
            <4>2. ASSUME fr[q].op = "confirm", pc[q] \in InTransaction \cup {"ok"}
                  PROVE  /\ fr[q].at < resets'[fr[q].arg].exp
                         /\ resets'[fr[q].arg].by \subseteq fr[q].met \cup {q}
                <5>1. /\ fr[q].arg \in DOMAIN resets /\ q \in InFlight
                      /\ resets[fr[q].arg].user = fr[q].user
                      /\ fr[q].at < resets[fr[q].arg].exp
                      /\ resets[fr[q].arg].by \subseteq fr[q].met \cup {q}
                    BY <2>1, <4>2 DEF Fits, LinkFits, InTransaction, InFlight
                <5>2. F.op = "confirm" => resets[F.arg].user = F.user
                    BY <1>1 DEF Fits, LinkFits, InTransaction
                <5>3. resets'[fr[q].arg].by # resets[fr[q].arg].by => r \in fr[q].met
                    BY <1>7, <3>1, <5>1, <5>2
                <5> QED
                    BY <1>7, <5>1, <5>3
            <4>3. pc[q] = "reqMail" => q \in DOMAIN resets' /\ resets'[q].user = fr[q].user
                BY <1>7, <1>8, <2>1 DEF Fits, LinkFits
            <4>4. fr[q].op = "confirm" /\ pc[q] = "ok" => resets'[fr[q].arg].used
                BY <1>7, <2>1 DEF Fits, LinkFits
            <4> QED
                BY <1>3, <2>3, <4>1, <4>2, <4>3, <4>4 DEF LinkFits
        <3>4. PasswordFits(q, pc[q], fr[q])'
            <4>1. pc[q] \in {"logSession", "chgFind", "ok"} => q \in InFlight
                BY DEF InFlight
            <4>2. pc'[q] = pc[q] /\ fr'[q] = fr[q]
                BY <1>3, <2>3
            <4> QED
                BY <1>4, <2>1, <3>1, <4>1, <4>2 DEF Fits, PasswordFits
        <3>5. SessionFits(pc[q], fr[q])'
            <4>1. ASSUME pc[q] \in {"commit", "ok"}, fr[q].op \in Changing \/ pc[q] = "commit"
                  PROVE  ActiveOf(fr[q].user)' \subseteq ActiveOf(fr[q].user)
                BY <1>3, <1>5, <1>6, <2>3 DEF ActiveOf
            <4>2. \A s \in ActiveOf(fr[q].user) : sessions'[s].met = sessions[s].met
                BY <1>6 DEF ActiveOf
            <4> QED
                BY <1>3, <1>5, <2>1, <2>3, <4>1, <4>2 DEF Fits, SessionFits
        <3> QED
            BY <3>2, <3>3, <3>4, <3>5 DEF Fits
    <2> QED
        BY <2>2, <2>3
<1>12. MetOK'
    BY <1>1, <1>2, MovesMet DEF IInv
<1>13. RowsOK'
    <2>1. \A t \in DOMAIN resets' : /\ pc'[t] \in {"reqMail", "ok", "done"}
                                    /\ resets'[t].by # {} => resets'[t].used
        BY <1>1, <1>3, <1>7, <1>8 DEF IInv, RowsOK, TablesOK
    <2>2. \A s \in DOMAIN sessions' :
             /\ pc'[s] \in {"ok", "done"}
             /\ sessions'[s].pw # None => sessions'[s].user \in Local
        BY <1>1, <1>3, <1>5, <1>6 DEF IInv, RowsOK, TablesOK
    <2> QED
        BY <2>1, <2>2 DEF RowsOK
<1>14. OldPasswordOverlaps'
    <2> SUFFICES ASSUME NEW s \in DOMAIN sessions, sessions'[s].active,
                        sessions'[s].pw # None,
                        sessions'[s].pw # password'[sessions'[s].user]
                 PROVE  sessions'[s].met # {}
        BY <1>5 DEF OldPasswordOverlaps
    <2>1. sessions[s].user \in Local /\ sessions[s].active /\ s \notin F.swept
        BY <1>6 DEF IInv, RowsOK
    <2>2. CASE sessions[s].user = F.user
        BY <1>1, <1>6, <2>1, <2>2 DEF ActiveOf, Fits, SessionFits
    <2>3. CASE sessions[s].user # F.user
        BY <1>4, <1>6, <2>1, <2>3 DEF IInv, OldPasswordOverlaps
    <2> QED
        BY <2>2, <2>3
<1> QED
    BY <1>9, <1>11, <1>12, <1>13, <1>14 DEF IInv
-----------------------------------------------------------------------------
(* The theorems.                                                            *)

LEMMA InitInv == Init => IInv
<1> SUFFICES ASSUME Init PROVE IInv
    OBVIOUS
<1>1. /\ now = 0 /\ mailed = {} /\ DOMAIN resets = {} /\ DOMAIN sessions = {}
      /\ password = [u \in Local |-> First] /\ pc = [q \in Requests |-> "new"]
      /\ fr = [q \in Requests |-> Blank]
    BY DEF Init, NoRows
<1>2. Blank \in Frame
    BY DEF Blank, Frame, Opt
<1>3. TypeOK
    <2>1. resets \in [{} -> ResetRow] /\ sessions \in [{} -> SessionRow]
        BY DEF Init, NoRows
    <2> QED
        BY <1>1, <1>2, <2>1 DEF TypeOK, TablesOK, Passwords, Steps
<1>4. ASSUME NEW q \in Requests PROVE Fits(q, "new", Blank)
    BY <1>1 DEF Blank, Fits, WhoFits, LinkFits, PasswordFits, SessionFits,
                InTransaction, Changing
<1>5. FramesOK /\ MetOK /\ RowsOK /\ OldPasswordOverlaps
    BY <1>1, <1>4 DEF FramesOK, MetOK, RowsOK, OldPasswordOverlaps, InFlight
<1> QED
    BY <1>3, <1>5 DEF IInv

LEMMA NextInv == IInv /\ [Next]_vars => IInv'
<1> SUFFICES ASSUME IInv, [Next]_vars PROVE IInv'
    OBVIOUS
<1>1. ASSUME NEW r \in Requests, Arrive(r) PROVE IInv'
    BY <1>1, ArriveStep
<1>2. ASSUME NEW r \in Requests,
             Login(r) \/ Forgot(r) \/ Change(r) \/ Answer(r) \/ Throw(r)
      PROVE  IInv'
    BY <1>2, ReaderStep, LogSessionStep, ForgotStep, CommitStep
    DEF Login, Forgot, Change
<1>3. CASE Tick
    <2>1. /\ now' = now + 1 /\ now \in Nat
          /\ UNCHANGED <<password, resets, sessions, mailed, pc, fr>>
        BY <1>3 DEF Tick, tables, IInv, TypeOK, TablesOK
    <2>2. TypeOK' /\ MetOK' /\ RowsOK' /\ OldPasswordOverlaps'
        BY <2>1 DEF IInv, TypeOK, TablesOK, MetOK, RowsOK, OldPasswordOverlaps, InFlight
    <2>3. ASSUME NEW q \in Requests PROVE Fits(q, pc[q], fr[q])'
        <3>1. Fits(q, pc[q], fr[q]) /\ fr[q].at \in Nat
            BY DEF IInv, FramesOK, TypeOK, Frame
        <3> QED
            BY <2>1, <3>1 DEF Fits, WhoFits, LinkFits, PasswordFits, SessionFits, ActiveOf
    <2> QED
        BY <2>2, <2>3 DEF IInv, FramesOK
<1>4. CASE UNCHANGED vars
    BY <1>4 DEF vars, tables, IInv, TypeOK, TablesOK, FramesOK, Fits, WhoFits, LinkFits,
                PasswordFits, SessionFits, ActiveOf, MetOK, RowsOK, OldPasswordOverlaps,
                InFlight
<1> QED
    BY <1>1, <1>2, <1>3, <1>4 DEF Next, Finished

LEMMA Inductive == Spec => []IInv
BY InitInv, NextInv, PTL DEF Spec

\* Rows, links, mails and the steps of the requests have their types.
THEOREM CredentialsTypes == Spec => []TypeOK
BY Inductive, PTL DEF IInv

\* A session outlives the password it was opened with only if its login was at
\* work together with the change: credentials-passwords.service.ts ends all
\* sessions in the transaction that sets the password.
THEOREM OldPasswordsEnd == Spec => []OldPasswordOverlaps
BY Inductive, PTL DEF IInv

\* A reset link is used again only by requests at work at the same time, and
\* never by one that came in when it had expired.
THEOREM LinksAreSpent == Spec => []LinkUsedOnce
<1>1. IInv => LinkUsedOnce
    BY DEF IInv, FramesOK, Fits, LinkFits, LinkUsedOnce
<1> QED
    BY <1>1, Inductive, PTL

\* A change or reset that was answered with success has ended the sessions of
\* its user, spent its link, and set the password unless another has since.
THEOREM AnswersHold == Spec => []AnsweredChangeHolds
<1>1. IInv => AnsweredChangeHolds
    BY DEF IInv, FramesOK, Fits, LinkFits, PasswordFits, SessionFits, AnsweredChangeHolds,
           Changing
<1> QED
    BY <1>1, Inductive, PTL

Proven(u, r) ==
    \/ fr[r].op = "confirm" /\ [to |-> u, token |-> fr[r].arg] \in mailed
    \/ /\ fr[r].op = "change" /\ fr[r].user = u
       /\ fr[r].arg \in fr[r].met \cup {fr[r].was}

\* A password is set by the holder of a link that was mailed to its user, or by
\* one who gave the current password.
THEOREM PasswordsAreProven == Spec => PasswordIsProven
<1>1. ASSUME IInv, [Next]_vars, NEW u \in Local, password'[u] # password[u]
      PROVE  Proven(u, password'[u])
    <2>1. UNCHANGED password => FALSE
        BY <1>1
    <2>2. PICK r \in Requests : Commit(r)
        BY ZenonT(40), <1>1, <2>1
        DEF Next, Arrive, Begin, Login, LogFind, LogSession, Forgot, ReqFind, ReqRow,
            ReqMail, Change, ConFind, Confirms, ChgFind, Account, Sweep, Sweeps, Answer,
            Throw, Tick, Finished, vars, tables
    <2>3. password'[u] = r /\ u = fr[r].user /\ pc[r] = "commit"
        BY <1>1, <2>2 DEF Commit, Commits, IInv, TypeOK, TablesOK
    <2>4. Fits(r, "commit", fr[r])
        BY <1>1, <2>3 DEF IInv, FramesOK
    <2> QED
        BY <2>3, <2>4 DEF Fits, WhoFits, LinkFits, PasswordFits, InTransaction, Changing,
                          Proven
<1>2. IInv /\ [Next]_vars =>
        [\A u \in Local : password'[u] # password[u] => Proven(u, password'[u])]_vars
    BY <1>1
<1> QED
    BY <1>2, Inductive, PTL DEF Spec, PasswordIsProven, Proven
=============================================================================
