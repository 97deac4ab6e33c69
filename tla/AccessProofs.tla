---------------------------- MODULE AccessProofs ----------------------------
(* Proofs about AccessControl for every value of its constants.            *)
EXTENDS AccessControl, TLAPS

USE AccessAssumption
-----------------------------------------------------------------------------
(* The inductive invariant.                                                *)

\* A call that has passed JwtAuthGuard, and one that has passed RolesGuard.
Authentic(f) == \/ f.route \in Public
                \/ f.token # None /\ f.at < tokens[f.token].exp
Permitted(f) == \/ Required(f.route) = {}
                \/ f.token # None /\ tokens[f.token].role \in Required(f.route)

\* What each step of a request finds in its frame.
FrameFits(p, f) ==
    /\ f.at <= now
    /\ p \in {"role", "sign"} => f.user \in Users /\ f.route = None
    /\ p = "sign" => f.role \in Roles /\ held[<<f.user, f.role>>] >= f.at
    /\ f.route # None => f.route \in Routes /\ f.token \in Opt(DOMAIN tokens)
    /\ p \in {"jwt", "guard"} => f.route # None
    /\ p \in {"guard", "served"} /\ f.route # None => Authentic(f)
    /\ p = "served" /\ f.route # None => Permitted(f)

FramesOK == \A r \in Requests : FrameFits(pc[r], fr[r])

\* A token is signed once, with a role that its user held meanwhile.
TokensOK ==
    \A t \in DOMAIN tokens :
        /\ pc[t] \in {"served", "done"}
        /\ held[<<tokens[t].user, tokens[t].role>>] >= tokens[t].began
        /\ tokens[t].exp = tokens[t].signed + AccessTtl

\* The history is that of the roles in force.
HeldOK ==
    \A x \in Users \X Roles :
        /\ held[x] <= now
        /\ assigned[x] # None /\ assigned[x] > now /\ x[2] \notin inactive =>
              held[x] = now

IInv == TypeOK /\ FramesOK /\ TokensOK /\ HeldOK
-----------------------------------------------------------------------------
(* Lemmas.                                                                 *)

\* Time and history go on, and tokens stay what they are.
Grows == /\ now <= now'
         /\ \A x \in Users \X Roles : held[x] <= held'[x]
         /\ DOMAIN tokens \subseteq DOMAIN tokens'
         /\ \A t \in DOMAIN tokens : tokens'[t] = tokens[t]

\* The blank frame is a frame.
LEMMA BlankType == Blank \in Frame
BY DEF Blank, Frame, Opt

\* A frame that fits a step fits it still when time has gone on.
LEMMA FitsStill ==
    ASSUME TypeOK, now' \in Nat, held' \in [Users \X Roles -> Nat \cup {Never}],
           Grows, NEW p, NEW f \in Frame, FrameFits(p, f)
    PROVE  FrameFits(p, f)'
<1>1. f.at \in Nat /\ f.user \in Opt(Users) /\ f.role \in Opt(Roles)
    BY DEF Frame
<1>2. f.at <= now'
    BY <1>1 DEF FrameFits, Grows, TypeOK
<1>3. p = "sign" => held'[<<f.user, f.role>>] >= f.at
    <2> SUFFICES ASSUME p = "sign" PROVE held'[<<f.user, f.role>>] >= f.at
        OBVIOUS
    <2>1. <<f.user, f.role>> \in Users \X Roles
        BY DEF FrameFits
    <2>2. /\ held[<<f.user, f.role>>] >= f.at
          /\ held[<<f.user, f.role>>] <= held'[<<f.user, f.role>>]
        BY <2>1 DEF FrameFits, Grows
    <2>3. /\ held[<<f.user, f.role>>] \in Int
          /\ held'[<<f.user, f.role>>] \in Int
        BY <2>1 DEF TypeOK, Never
    <2> QED
        BY <1>1, <2>2, <2>3
<1>4. f.route # None => f.token \in Opt(DOMAIN tokens')
    BY DEF FrameFits, Grows, Opt
<1>5. ASSUME f.route # None, f.token # None
      PROVE  tokens'[f.token] = tokens[f.token]
    BY <1>5 DEF FrameFits, Grows, Opt
<1>6. p \in {"guard", "served"} /\ f.route # None => Authentic(f)'
    BY <1>5 DEF FrameFits, Authentic
<1>7. p = "served" /\ f.route # None => Permitted(f)'
    BY <1>5 DEF FrameFits, Permitted
<1> QED
    BY <1>2, <1>3, <1>4, <1>6, <1>7 DEF FrameFits

\* The frames when one request moves to a step and a frame that fit.
LEMMA MovesFrames ==
    ASSUME IInv, now' \in Nat, held' \in [Users \X Roles -> Nat \cup {Never}],
           Grows, NEW r \in Requests, NEW p \in Steps, NEW f \in Frame,
           Turn(r, p, f), FrameFits(p, f)
    PROVE  /\ pc' \in [Requests -> Steps] /\ fr' \in [Requests -> Frame]
           /\ FramesOK'
           /\ \A q \in Requests \ {r} : pc'[q] = pc[q]
           /\ pc'[r] = p
<1>1. pc' \in [Requests -> Steps] /\ fr' \in [Requests -> Frame]
    BY DEF Turn, IInv, TypeOK
<1>2. /\ pc'[r] = p /\ fr'[r] = f
      /\ \A q \in Requests \ {r} : pc'[q] = pc[q] /\ fr'[q] = fr[q]
    BY DEF Turn, IInv, TypeOK
<1>3. ASSUME NEW q \in Requests PROVE FrameFits(pc[q], fr[q])'
    <2>1. CASE q = r
        <3>1. FrameFits(p, f)'
            BY FitsStill DEF IInv
        <3> QED
            BY <1>2, <2>1, <3>1 DEF FrameFits, Authentic, Permitted
    <2>2. CASE q # r
        <3>1. fr[q] \in Frame /\ FrameFits(pc[q], fr[q])
            BY DEF IInv, TypeOK, FramesOK
        <3>2. \A s : \A g \in Frame : FrameFits(s, g) => FrameFits(s, g)'
            BY FitsStill DEF IInv
        <3> QED
            BY ZenonT(40), <1>2, <2>2, <3>1, <3>2 DEF FrameFits, Authentic, Permitted
    <2> QED
        BY <2>1, <2>2
<1> QED
    BY <1>1, <1>2, <1>3 DEF FramesOK

\* A step of a request that signs nothing.
LEMMA ReadStep ==
    ASSUME IInv, UNCHANGED <<store, tokens>>,
           NEW r \in Requests, NEW p \in Steps, NEW f \in Frame,
           Turn(r, p, f), FrameFits(p, f),
           pc[r] \in {"served", "done"} => p \in {"served", "done"}
    PROVE  IInv'
<1>1. /\ UNCHANGED <<now, assigned, inactive, changes, held, tokens>>
      /\ now' \in Nat /\ held' \in [Users \X Roles -> Nat \cup {Never}]
    BY DEF store, IInv, TypeOK
<1>2. Grows
    <2>1. now \in Int /\ \A x \in Users \X Roles : held[x] \in Int
        BY DEF IInv, TypeOK, Never
    <2> QED
        BY <1>1, <2>1 DEF Grows
<1>3. /\ pc' \in [Requests -> Steps] /\ fr' \in [Requests -> Frame]
      /\ FramesOK' /\ pc'[r] = p
      /\ \A q \in Requests \ {r} : pc'[q] = pc[q]
    BY <1>1, <1>2, MovesFrames
<1>4. TypeOK'
    BY <1>1, <1>3 DEF IInv, TypeOK
<1>5. TokensOK'
    <2>1. DOMAIN tokens \subseteq Requests
        BY DEF IInv, TypeOK
    <2> QED
        BY <1>1, <1>3, <2>1 DEF IInv, TokensOK
<1>6. HeldOK'
    BY <1>1 DEF IInv, HeldOK
<1> QED
    BY <1>3, <1>4, <1>5, <1>6 DEF IInv

\* The same with an unchanged frame.
LEMMA ReadGoto ==
    ASSUME IInv, UNCHANGED <<store, tokens>>, NEW r \in Requests, NEW p \in Steps,
           Goto(r, p), FrameFits(p, fr[r]), pc[r] \notin {"served", "done"}
    PROVE  IInv'
<1>1. fr[r] \in Frame /\ Turn(r, p, fr[r])
    BY DEF IInv, TypeOK, Goto, Turn
<1> QED
    BY <1>1, ReadStep

\* No step of a request but Sign writes what others read.
LEMMA RequestStep ==
    ASSUME IInv, NEW r \in Requests,
           \/ \E u \in Users : BeginIssue(r, u)
           \/ GetActiveRole(r)
           \/ \E p \in Routes, t \in Opt(DOMAIN tokens) : BeginCall(r, t, p)
           \/ JwtGuard(r) \/ RolesGuard(r) \/ Answer(r)
    PROVE  IInv'
<1> DEFINE F == fr[r]
<1>0. /\ F \in Frame /\ pc[r] \in Steps /\ FrameFits(pc[r], F) /\ now \in Nat
      /\ DOMAIN tokens \subseteq Requests /\ tokens \in [DOMAIN tokens -> Token]
    BY DEF IInv, TypeOK, FramesOK
<1>1. ASSUME NEW u \in Users, BeginIssue(r, u) PROVE IInv'
    <2> DEFINE G == [Blank EXCEPT !.user = u, !.at = now]
    <2>1. G \in Frame /\ G.at = now /\ G.user = u /\ G.route = None
        BY <1>0, BlankType DEF Blank, Frame, Opt
    <2>2. FrameFits("role", G) /\ "role" \in Steps
        BY <1>0, <2>1 DEF FrameFits, Steps
    <2> QED
        BY <1>1, <2>1, <2>2, ReadStep DEF BeginIssue
<1>2. CASE GetActiveRole(r)
    <2>1. pc[r] = "role" /\ UNCHANGED <<store, tokens>>
        BY <1>2 DEF GetActiveRole
    <2>2. CASE Goto(r, "refused")
        <3>1. FrameFits("refused", F) /\ "refused" \in Steps
            BY <1>0, <2>1 DEF FrameFits, Steps
        <3> QED
            BY <2>1, <2>2, <3>1, ReadGoto
    <2>3. ASSUME NEW x \in AssignedRoles(F.user) \ inactive,
                 Turn(r, "sign", [F EXCEPT !.role = x])
          PROVE  IInv'
        <3> DEFINE G == [F EXCEPT !.role = x]
        <3>1. x \in Roles /\ x \notin inactive /\ F.user \in Users
            BY <1>0, <2>1, <2>3 DEF AssignedRoles, FrameFits
        <3>2. G \in Frame /\ G.role = x /\ G.user = F.user /\ G.at = F.at
              /\ G.route = F.route
            BY <1>0, <3>1 DEF Frame, Opt
        <3>3. held[<<F.user, x>>] = now
            <4>1. <<F.user, x>> \in Users \X Roles /\ <<F.user, x>>[2] = x
                BY <3>1
            <4>2. assigned[<<F.user, x>>] # None /\ assigned[<<F.user, x>>] > now
                BY <2>3 DEF AssignedRoles, IsAssigned
            <4> QED
                BY <3>1, <4>1, <4>2 DEF IInv, HeldOK
        <3>4. FrameFits("sign", G) /\ "sign" \in Steps
            BY <1>0, <2>1, <3>1, <3>2, <3>3 DEF FrameFits, Steps
        <3> QED
            BY <2>1, <2>3, <3>2, <3>4, ReadStep
    <2> QED
        BY <1>2, <2>2, <2>3 DEF GetActiveRole
<1>3. ASSUME NEW p \in Routes, NEW t \in Opt(DOMAIN tokens), BeginCall(r, t, p)
      PROVE  IInv'
    <2> DEFINE G == [Blank EXCEPT !.token = t, !.route = p, !.at = now]
    <2>1. G \in Frame /\ G.at = now /\ G.token = t /\ G.route = p
        BY <1>0, BlankType DEF Blank, Frame, Opt
    <2>2. FrameFits("jwt", G) /\ "jwt" \in Steps
        BY <1>0, <2>1 DEF FrameFits, Steps
    <2> QED
        BY <1>3, <2>1, <2>2, ReadStep DEF BeginCall
<1>4. CASE JwtGuard(r)
    <2>1. pc[r] = "jwt" /\ UNCHANGED <<store, tokens>>
        BY <1>4 DEF JwtGuard
    <2>2. CASE Goto(r, "refused")
        <3>1. FrameFits("refused", F) /\ "refused" \in Steps
            BY <1>0, <2>1 DEF FrameFits, Steps
        <3> QED
            BY <2>1, <2>2, <3>1, ReadGoto
    <2>3. CASE /\ F.route \in Public \/ (F.token # None /\ now < tokens[F.token].exp)
               /\ Goto(r, "guard")
        <3>1. F.at \in Nat /\ F.at <= now /\ F.route # None
              /\ F.token \in Opt(DOMAIN tokens)
            BY <1>0, <2>1 DEF FrameFits, Frame
        <3>2. ASSUME F.token # None PROVE tokens[F.token].exp \in Nat
            BY <1>0, <3>1, <3>2 DEF Opt, Token
        <3>3. Authentic(F)
            BY <1>0, <2>3, <3>1, <3>2 DEF Authentic
        <3>4. FrameFits("guard", F) /\ "guard" \in Steps
            BY <1>0, <2>1, <3>3 DEF FrameFits, Steps
        <3> QED
            BY <2>1, <2>3, <3>4, ReadGoto
    <2> QED
        BY <1>4, <2>2, <2>3 DEF JwtGuard
<1>5. CASE RolesGuard(r)
    <2>1. pc[r] = "guard" /\ UNCHANGED <<store, tokens>>
        BY <1>5 DEF RolesGuard
    <2>2. CASE Goto(r, "refused")
        <3>1. FrameFits("refused", F) /\ "refused" \in Steps
            BY <1>0, <2>1 DEF FrameFits, Steps
        <3> QED
            BY <2>1, <2>2, <3>1, ReadGoto
    <2>3. CASE Permitted(F) /\ Goto(r, "served")
        <3>1. FrameFits("served", F) /\ "served" \in Steps
            BY <1>0, <2>1, <2>3 DEF FrameFits, Steps
        <3> QED
            BY <2>1, <2>3, <3>1, ReadGoto
    <2> QED
        BY <1>5, <2>2, <2>3 DEF RolesGuard, Permitted
<1>6. CASE Answer(r)
    <2>1. FrameFits("done", Blank) /\ "done" \in Steps
        BY <1>0 DEF FrameFits, Steps, Blank
    <2> QED
        BY <1>6, <2>1, BlankType, ReadStep DEF Answer
<1> QED
    BY <1>1, <1>2, <1>3, <1>4, <1>5, <1>6

\* A token is signed by a request that has just found a role in force.
LEMMA SignStep == ASSUME IInv, NEW r \in Requests, Sign(r) PROVE IInv'
<1> DEFINE F == fr[r]
           T == [user |-> F.user, role |-> F.role, exp |-> now + AccessTtl,
                 began |-> F.at, signed |-> now]
<1>1. /\ F \in Frame /\ pc[r] = "sign" /\ FrameFits("sign", F) /\ now \in Nat
      /\ DOMAIN tokens \subseteq Requests /\ tokens \in [DOMAIN tokens -> Token]
      /\ r \notin DOMAIN tokens
    BY DEF IInv, TypeOK, FramesOK, TokensOK, Sign
<1>2. /\ UNCHANGED <<now, assigned, inactive, changes, held>>
      /\ now' \in Nat /\ held' \in [Users \X Roles -> Nat \cup {Never}]
      /\ tokens' = With(tokens, r, T)
    BY DEF Sign, store, IInv, TypeOK
<1>3. T \in Token
    BY <1>1 DEF FrameFits, Token, Frame
<1>4. /\ DOMAIN tokens' = DOMAIN tokens \cup {r} /\ tokens'[r] = T
      /\ \A t \in DOMAIN tokens : tokens'[t] = tokens[t]
      /\ tokens' \in [DOMAIN tokens' -> Token]
    BY <1>1, <1>2, <1>3 DEF With
<1>5. Grows
    <2>1. \A x \in Users \X Roles : held[x] \in Int
        BY DEF IInv, TypeOK, Never
    <2> QED
        BY <1>1, <1>2, <1>4, <2>1 DEF Grows
<1>6. FrameFits("served", F) /\ "served" \in Steps /\ Turn(r, "served", F)
    BY <1>1 DEF FrameFits, Steps, Sign, Goto, Turn, IInv, TypeOK
<1>7. /\ pc' \in [Requests -> Steps] /\ fr' \in [Requests -> Frame]
      /\ FramesOK' /\ pc'[r] = "served"
      /\ \A q \in Requests \ {r} : pc'[q] = pc[q]
    BY <1>1, <1>2, <1>5, <1>6, MovesFrames
<1>8. TypeOK'
    BY <1>1, <1>2, <1>4, <1>7 DEF IInv, TypeOK
<1>9. TokensOK'
    <2> SUFFICES ASSUME NEW t \in DOMAIN tokens'
                 PROVE  /\ pc'[t] \in {"served", "done"}
                        /\ held'[<<tokens'[t].user, tokens'[t].role>>] >= tokens'[t].began
                        /\ tokens'[t].exp = tokens'[t].signed + AccessTtl
        BY DEF TokensOK
    <2>1. CASE t = r
        <3>1. /\ T.user = F.user /\ T.role = F.role /\ T.began = F.at
              /\ T.exp = T.signed + AccessTtl
            OBVIOUS
        <3>2. held'[<<F.user, F.role>>] >= F.at
            BY <1>1, <1>2 DEF FrameFits
        <3> HIDE DEF T
        <3> QED
            BY <1>4, <1>7, <2>1, <3>1, <3>2
    <2>2. CASE t # r
        BY <1>1, <1>2, <1>4, <1>7, <2>2 DEF IInv, TokensOK
    <2> QED
        BY <2>1, <2>2
<1>10. HeldOK'
    BY <1>2 DEF IInv, HeldOK
<1> QED
    BY <1>7, <1>8, <1>9, <1>10 DEF IInv

\* Whatever is given, taken, switched or expires, the history keeps up.
LEMMA OutsideStep == ASSUME IInv, Administer \/ Tick PROVE IInv'
<1>1. /\ UNCHANGED <<tokens, pc, fr>> /\ now' \in Nat /\ now <= now'
      /\ changes' \in Nat /\ inactive' \subseteq Roles
      /\ assigned' \in [Users \X Roles -> Nat \cup {None}] /\ Refresh
    <2>1. CASE Tick
        BY <2>1 DEF Tick, IInv, TypeOK
    <2>2. CASE Administer
        <3>1. ASSUME NEW x \in Roles, Switch(x), UNCHANGED assigned
              PROVE  /\ inactive' \subseteq Roles
                     /\ assigned' \in [Users \X Roles -> Nat \cup {None}]
            BY <3>1 DEF Switch, IInv, TypeOK
        <3>2. ASSUME NEW x \in Roles, NEW u \in Users, Assign(u, x) \/ Revoke(u, x),
                     UNCHANGED inactive
              PROVE  /\ inactive' \subseteq Roles
                     /\ assigned' \in [Users \X Roles -> Nat \cup {None}]
            BY <3>2 DEF Assign, Revoke, IInv, TypeOK
        <3>3. /\ inactive' \subseteq Roles
              /\ assigned' \in [Users \X Roles -> Nat \cup {None}]
            BY <2>2, <3>1, <3>2 DEF Administer
        <3> QED
            BY <2>2, <3>3 DEF Administer, IInv, TypeOK
    <2> QED
        BY <2>1, <2>2
<1>2. /\ now \in Nat /\ held \in [Users \X Roles -> Nat \cup {Never}]
      /\ \A x \in Users \X Roles : held[x] \in Int /\ held[x] <= now
    BY DEF IInv, TypeOK, HeldOK, Never
<1>3. held' \in [Users \X Roles -> Nat \cup {Never}]
    BY <1>1, <1>2 DEF Refresh
<1>4. Grows
    <2>1. \A x \in Users \X Roles : held[x] <= held'[x]
        BY <1>1, <1>2 DEF Refresh
    <2> QED
        BY <1>1, <2>1 DEF Grows
<1>5. TypeOK'
    BY <1>1, <1>3 DEF IInv, TypeOK
<1>6. FramesOK'
    <2> SUFFICES ASSUME NEW q \in Requests PROVE FrameFits(pc[q], fr[q])'
        BY DEF FramesOK
    <2>1. fr[q] \in Frame /\ FrameFits(pc[q], fr[q])
        BY DEF IInv, TypeOK, FramesOK
    <2>2. \A s : \A g \in Frame : FrameFits(s, g) => FrameFits(s, g)'
        BY <1>1, <1>3, <1>4, FitsStill DEF IInv
    <2> QED
        BY <1>1, <2>1, <2>2 DEF FrameFits, Authentic, Permitted
<1>7. TokensOK'
    <2> SUFFICES ASSUME NEW t \in DOMAIN tokens
                 PROVE  held'[<<tokens[t].user, tokens[t].role>>] >= tokens[t].began
        BY <1>1 DEF TokensOK, IInv
    <2> DEFINE x == <<tokens[t].user, tokens[t].role>>
    <2>1. tokens[t] \in Token
        BY DEF IInv, TypeOK
    <2>2. x \in Users \X Roles /\ tokens[t].began \in Nat
        BY <2>1 DEF Token
    <2>3. held[x] >= tokens[t].began
        BY DEF IInv, TokensOK
    <2>4. held[x] \in Int /\ held'[x] \in Int /\ held[x] <= held'[x]
        BY <1>3, <1>2, <1>4, <2>2 DEF Grows, Never
    <2> HIDE DEF x
    <2>5. held'[x] >= tokens[t].began
        BY <2>2, <2>3, <2>4
    <2> QED
        BY <2>5 DEF x
<1>8. HeldOK'
    BY <1>1, <1>2 DEF Refresh, HeldOK
<1> QED
    BY <1>5, <1>6, <1>7, <1>8 DEF IInv
-----------------------------------------------------------------------------
(* Theorems.                                                               *)

\* The invariant holds at the start.
LEMMA InitInv == Init => IInv
BY BlankType DEF Init, IInv, TypeOK, FramesOK, FrameFits, TokensOK, HeldOK, NoRows,
    Steps, Blank, Never

\* Every step keeps the invariant.
LEMMA NextInv == IInv /\ [Next]_vars => IInv'
<1> SUFFICES ASSUME IInv, [Next]_vars PROVE IInv'
    OBVIOUS
<1>1. CASE UNCHANGED vars
    BY <1>1 DEF vars, IInv, TypeOK, FramesOK, FrameFits, Authentic, Permitted,
        TokensOK, HeldOK
<1>2. ASSUME NEW r \in Requests, Issue(r) \/ Call(r) \/ Answer(r) PROVE IInv'
    BY <1>2, RequestStep, SignStep DEF Issue, Call
<1>3. CASE Administer \/ Tick
    BY <1>3, OutsideStep
<1>4. CASE Finished
    BY <1>1, <1>4 DEF Finished
<1> QED
    BY <1>1, <1>2, <1>3, <1>4 DEF Next

\* The invariant contains what the runs check.
LEMMA InvLostRoleFades == IInv => LostRoleFades
<1> SUFFICES ASSUME IInv, NEW r \in Requests, pc[r] = "served", fr[r].route # None,
                    Required(fr[r].route) # {}
             PROVE  LET t == tokens[fr[r].token] IN
                    /\ t.role \in Required(fr[r].route)
                    /\ held[<<t.user, t.role>>] >= t.began
                    /\ fr[r].at < t.signed + AccessTtl
    BY DEF LostRoleFades
<1>1. /\ Authentic(fr[r]) /\ Permitted(fr[r])
      /\ fr[r].token \in Opt(DOMAIN tokens)
    BY DEF IInv, FramesOK, FrameFits
<1>2. fr[r].route \notin Public
    BY DEF Public, Required
<1>3. fr[r].token \in DOMAIN tokens /\ fr[r].at < tokens[fr[r].token].exp
    BY <1>1, <1>2 DEF Authentic, Opt
<1> QED
    BY <1>1, <1>3 DEF IInv, TokensOK, Permitted

\* The variables keep their types.
THEOREM AccessTypes == Spec => []TypeOK
<1>1. IInv => TypeOK
    BY DEF IInv
<1> QED
    BY <1>1, InitInv, NextInv, PTL DEF Spec

\* A call that needs a role is served only with one that the user of its token
\* held while the token was being issued, less than AccessTtl before.
THEOREM AccessFades == Spec => []LostRoleFades
BY InitInv, NextInv, InvLostRoleFades, PTL DEF Spec
=============================================================================
