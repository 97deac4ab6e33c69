---------------------------- MODULE AccessControl ----------------------------
(* Who may call what: a role is looked up when an access token is signed,    *)
(* the token carries its name, and the guards of a route trust the token.    *)
(* Roles are given and taken by something outside this code. One action is   *)
(* one query or one check of a request. A request gives its name to the      *)
(* token it signs. The session of a token is left to AuthSessions.           *)
EXTENDS Integers, FiniteSets

CONSTANTS
    Requests, Users, None,
    Roles,                   \* names of roles; upper and lower case differ
    AccessTtl,               \* how long an access token is good
    MaxInFlight, MaxTime, MaxChanges     \* bounds

\* One route for all that have the same decorators.
Routes == {"login", "logout", "revokeSession", "subscribe", "subscribers",
           "messages"}

\* The routes marked as public, and the roles that a route asks for.
Public      == {"login"}
Required(p) == CASE p \in {"revokeSession", "subscribers"} -> {"admin"}
                 [] p = "messages" -> {"ADMIN", "SUPPORT"}
                 [] OTHER -> {}

ASSUME AccessAssumption ==
    /\ None \notin Requests \cup Users \cup Roles \cup Routes
    /\ AccessTtl \in Nat /\ MaxInFlight \in Nat
    /\ MaxTime \in Nat /\ MaxChanges \in Nat

VARIABLES
    now,        \* the clock
    assigned,   \* user_role_assignments: when each role of a user expires;
                \* None: it is not assigned, or it was revoked
    inactive,   \* the roles that are switched off
    changes,    \* counts what was given and taken, for the bound
    tokens,     \* the access tokens that were signed
    held,       \* (not in the code) when a user last held a role
    pc, fr

vars == <<now, assigned, inactive, changes, tokens, held, pc, fr>>

Opt(S) == S \cup {None}
Never  == -1

Token == [user : Users, role : Roles, exp : Nat,
          began : Nat, signed : Nat]  \* (not in the code) its request came in, was signed
Frame == [user : Opt(Users), role : Opt(Roles), route : Opt(Routes),
          token : Opt(Requests),
          at : Nat]                   \* (not in the code) when it came in
Blank == [user |-> None, role |-> None, route |-> None, token |-> None, at |-> 0]

Steps == {"new", "role", "sign", "jwt", "guard", "served", "refused", "done"}

NoRows == [x \in {} |-> 0]
With(f, x, v) == [y \in DOMAIN f \cup {x} |-> IF y = x THEN v ELSE f[y]]

Init ==
    /\ now = 0 /\ inactive = {} /\ changes = 0 /\ tokens = NoRows
    /\ assigned = [x \in Users \X Roles |-> None]
    /\ held = [x \in Users \X Roles |-> Never]
    /\ pc = [r \in Requests |-> "new"]
    /\ fr = [r \in Requests |-> Blank]

InFlight == {r \in Requests : pc[r] \notin {"new", "done"}}

Goto(r, step)    == pc' = [pc EXCEPT ![r] = step] /\ fr' = fr
Turn(r, step, f) == pc' = [pc EXCEPT ![r] = step] /\ fr' = [fr EXCEPT ![r] = f]

store == <<now, assigned, inactive, changes, held>>

(* Roles, as the code reads them *)

\* Variant: the time of expiry is not looked at.
IsAssignedEver(u, x) == assigned[<<u, x>>] # None

IsAssigned(u, x) == assigned[<<u, x>>] # None /\ assigned[<<u, x>>] > now

AssignedRoles(u) == {x \in Roles : IsAssigned(u, x)}

(* A login or refresh: issueTokens, refreshTokens *)

BeginIssue(r, u) ==
    /\ pc[r] = "new" /\ Cardinality(InFlight) < MaxInFlight
    /\ Turn(r, "role", [Blank EXCEPT !.user = u, !.at = now])
    /\ UNCHANGED <<store, tokens>>

\* Variant: without the check of what was found.
GetActiveRoleUnchecked(r) ==
    LET found == AssignedRoles(fr[r].user) IN
    /\ pc[r] = "role"
    /\ \/ found = {} /\ Goto(r, "sign")
       \/ \E x \in found : Turn(r, "sign", [fr[r] EXCEPT !.role = x])
    /\ UNCHANGED <<store, tokens>>

\* Any of the assigned roles is found; if it is switched off, the others are not
\* looked at.
GetActiveRole(r) ==
    LET found == AssignedRoles(fr[r].user) IN
    /\ pc[r] = "role"
    /\ \/ found = {} /\ Goto(r, "refused")
       \/ found \cap inactive # {} /\ Goto(r, "refused")
       \/ \E x \in found \ inactive : Turn(r, "sign", [fr[r] EXCEPT !.role = x])
    /\ UNCHANGED <<store, tokens>>

Sign(r) ==
    /\ pc[r] = "sign"
    /\ tokens' = With(tokens, r, [user |-> fr[r].user, role |-> fr[r].role,
                                  exp |-> now + AccessTtl,
                                  began |-> fr[r].at, signed |-> now])
    /\ Goto(r, "served")
    /\ UNCHANGED store

(* A call of a route: JwtAuthGuard, then RolesGuard *)

BeginCall(r, t, p) ==
    /\ pc[r] = "new" /\ Cardinality(InFlight) < MaxInFlight
    /\ Turn(r, "jwt", [Blank EXCEPT !.token = t, !.route = p, !.at = now])
    /\ UNCHANGED <<store, tokens>>

\* Variant: the expiry is ignored.
JwtGuardEndless(r) ==
    /\ pc[r] = "jwt"
    /\ Goto(r, IF fr[r].route \in Public \/ fr[r].token # None THEN "guard" ELSE "refused")
    /\ UNCHANGED <<store, tokens>>

JwtGuard(r) ==
    LET t == fr[r].token IN
    /\ pc[r] = "jwt"
    /\ Goto(r, IF fr[r].route \in Public \/ (t # None /\ now < tokens[t].exp)
               THEN "guard" ELSE "refused")
    /\ UNCHANGED <<store, tokens>>

RolesGuard(r) ==
    LET t == fr[r].token
        required == Required(fr[r].route)
    IN /\ pc[r] = "guard"
       /\ Goto(r, IF required = {} \/ (t # None /\ tokens[t].role \in required)
                  THEN "served" ELSE "refused")
       /\ UNCHANGED <<store, tokens>>

Answer(r) == /\ pc[r] \in {"served", "refused"} /\ Turn(r, "done", Blank)
             /\ UNCHANGED <<store, tokens>>

(* Outside this code *)

\* What is held in the new state is held now.
Refresh == held' = [x \in Users \X Roles |->
                       IF /\ assigned'[x] # None /\ assigned'[x] > now'
                          /\ x[2] \notin inactive'
                       THEN now' ELSE held[x]]

\* A role that never expires outlives the instance.
Assign(u, x) ==
    \E exp \in now + 1 .. MaxTime + 1 : assigned' = [assigned EXCEPT ![<<u, x>>] = exp]
Revoke(u, x) == assigned' = [assigned EXCEPT ![<<u, x>>] = None]
Switch(x) == inactive' = IF x \in inactive THEN inactive \ {x} ELSE inactive \cup {x}

Administer ==
    /\ changes < MaxChanges /\ changes' = changes + 1
    /\ \E x \in Roles : \/ /\ \E u \in Users : Assign(u, x) \/ Revoke(u, x)
                           /\ UNCHANGED inactive
                        \/ Switch(x) /\ UNCHANGED assigned
    /\ UNCHANGED <<now, tokens, pc, fr>> /\ Refresh

Tick == /\ now < MaxTime /\ now' = now + 1
        /\ UNCHANGED <<assigned, inactive>> /\ Refresh
        /\ UNCHANGED <<changes, tokens, pc, fr>>

Finished == (\A r \in Requests : pc[r] = "done") /\ UNCHANGED vars

Issue(r) == \/ \E u \in Users : BeginIssue(r, u)
            \/ GetActiveRole(r) \/ Sign(r)
Call(r)  == \/ \E p \in Routes, t \in Opt(DOMAIN tokens) : BeginCall(r, t, p)
            \/ JwtGuard(r) \/ RolesGuard(r)

Next == \/ \E r \in Requests : Issue(r) \/ Call(r) \/ Answer(r)
        \/ Administer \/ Tick \/ Finished

Spec == Init /\ [][Next]_vars
-----------------------------------------------------------------------------
(* Properties *)

TypeOK ==
    /\ now \in Nat /\ changes \in Nat /\ inactive \subseteq Roles
    /\ assigned \in [Users \X Roles -> Nat \cup {None}]
    /\ held \in [Users \X Roles -> Nat \cup {Never}]
    /\ DOMAIN tokens \subseteq Requests /\ tokens \in [DOMAIN tokens -> Token]
    /\ pc \in [Requests -> Steps] /\ fr \in [Requests -> Frame]

\* A role that was lost fades: a call of a route that asks for roles is served
\* only with a token whose user held one of them, in force and switched on,
\* while the login or refresh that signed it was at work, and that was signed
\* less than AccessTtl before the call came in.
LostRoleFades ==
    \A r \in Requests :
        pc[r] = "served" /\ fr[r].route # None =>
            \/ Required(fr[r].route) = {}
            \/ LET t == tokens[fr[r].token] IN
               /\ t.role \in Required(fr[r].route)
               /\ held[<<t.user, t.role>>] >= t.began
               /\ fr[r].at < t.signed + AccessTtl
=============================================================================
