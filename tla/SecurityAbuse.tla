--------------------------- MODULE SecurityAbuse ---------------------------
(* The limits on logins, registrations and password reset requests: the    *)
(* table rate_limits with a counter per identifier, action and window, and *)
(* blocks, and the handlers that check, count, block and clear, one query  *)
(* at a time and interleaved with one another and with the clock.          *)
EXTENDS Integers, SequencesExt

CONSTANTS
    Attempts,                \* the requests of one behaviour
    Emails, Addresses,       \* who attempts (one social account per e-mail)
    None,
    Operations,              \* the operations of this instance
    Limit, Window, BlockTime,  \* the settings, per action
    MayFail,                 \* queries may throw
    MaxInFlight, MaxTime     \* bounds

AllOps  == {"login", "social", "register", "reset"}
Actions == {"LOGIN", "REGISTER", "PASSWORD_RESET"}
Blocks  == [LOGIN |-> "LOGIN_BLOCK", REGISTER |-> "REGISTER_BLOCK"]

ASSUME SettingsAssumption ==
    /\ None \notin Emails \cup Addresses
    /\ Operations \subseteq AllOps
    /\ Limit \in [Actions -> Nat] /\ Window \in [Actions -> Nat \ {0}]
    /\ BlockTime \in [{"LOGIN", "REGISTER"} -> Nat \ {0}]
    /\ MayFail \in BOOLEAN /\ MaxInFlight \in Nat /\ MaxTime \in Nat

VARIABLES
    now,      \* the clock
    rows,     \* rate_limits: count and expiry, by identifier, action, start
    pc, fr    \* of every request: its next query, and its local variables

vars == <<now, rows, pc, fr>>

Bucket(t, w) == (t \div w) * w

(* Identifiers, in the order in which they are checked and counted *)

Triple(kind, e, a) == <<<<kind, e, None>>, <<kind, None, a>>, <<kind, e, a>>>>

SocialIds(e, a) == <<<<"socialUser", e, None>>, <<"social", None, a>>,
                     <<"social", e, None>>, <<"social", e, a>>>>

\* The identifiers checked in the given round of an operation. The guard and
\* the service check a registration, AuthService and the credentials service
\* a login; a social login is checked before and after the provider is asked.
Ids(op, round, e, a) ==
    CASE op \in {"login", "register"} -> Triple(op, e, a)
      [] op = "social" -> IF round = 1 THEN <<<<op, None, a>>>>
                                       ELSE SocialIds(e, a)
      [] op = "reset"  -> <<<<op, e, None>>>>

ActionOf(op) == CASE op \in {"login", "social"} -> "LOGIN"
                  [] op = "register"            -> "REGISTER"
                  [] op = "reset"               -> "PASSWORD_RESET"

Kinds       == AllOps \cup {"socialUser"}
Identifiers == Kinds \X (Emails \cup {None}) \X (Addresses \cup {None})
Keys        == Identifiers \X (Actions \cup {"LOGIN_BLOCK", "REGISTER_BLOCK"})
                           \X Nat

Count(id, act, start) ==
    IF <<id, act, start>> \in DOMAIN rows THEN rows[<<id, act, start>>].count
                                          ELSE 0

\* The expiries of the blocks of an identifier that are in force at time t.
BlocksAt(op, id, t) ==
    {rows[k].exp : k \in {x \in DOMAIN rows :
                            /\ op # "reset" /\ x[1] = id
                            /\ x[2] = Blocks[ActionOf(op)]
                            /\ rows[x].exp > t}}

\* Variant: a row is created with the column's default.
UpsertZero(key, exp) ==
    rows' = [k \in DOMAIN rows \cup {key} |->
                IF k # key THEN rows[k]
                ELSE IF k \in DOMAIN rows
                     THEN [rows[k] EXCEPT !.count = @ + 1]
                     ELSE [count |-> 0, exp |-> exp]]

\* Prisma's upsert: ON CONFLICT increments the row that is there.
Upsert(key, exp) ==
    rows' = [k \in DOMAIN rows \cup {key} |->
                IF k # key THEN rows[k]
                ELSE IF k \in DOMAIN rows
                     THEN [rows[k] EXCEPT !.count = @ + 1]
                     ELSE [count |-> 1, exp |-> exp]]

(* Requests. `until`, `spent` and `cause` are not variables of the code: they *)
(* record, for the properties, how the tables stood when a request came in.   *)

Frame == [op : AllOps \cup {None}, email : Emails \cup {None},
          ip : Addresses \cup {None}, round : 0..2,
          left : Seq(Identifiers),   \* identifiers still to check or count
          at : Nat,                  \* the handler's `now`
          start : Nat,               \* the window it counts in
          until : SUBSET Nat,        \* when the blocks in force are over
          spent : SUBSET Identifiers,  \* at their limit, and not cleared since
          cause : BOOLEAN]           \* there was a reason to refuse, or another
                                     \* request was at work at the same time

Blank == [op |-> None, email |-> None, ip |-> None, round |-> 0, left |-> <<>>,
          at |-> 0, start |-> 0, until |-> {}, spent |-> {}, cause |-> FALSE]

Steps == {"new", "block", "count", "ban", "hit", "verify", "record", "clear",
          "in", "reclear", "refused", "done"}

Init ==
    /\ now = 0
    /\ rows = [k \in {} |-> 0]
    /\ pc = [r \in Attempts |-> "new"]
    /\ fr = [r \in Attempts |-> Blank]

InFlight == {r \in Attempts : pc[r] \notin {"new", "refused", "done"}}

Turn(r, step, f) == pc' = [pc EXCEPT ![r] = step] /\ fr' = [fr EXCEPT ![r] = f]
Leave(r)  == Turn(r, "done", Blank)
Refuse(r) == Turn(r, "refused", [Blank EXCEPT !.cause = fr[r].cause])

\* A round of checks begins: its `now` is read, and its identifiers are listed.
Round(f, n) == [f EXCEPT !.round = n, !.at = now,
                         !.left = Ids(f.op, n, f.email, f.ip)]

Spent(op, id, limit) ==
    Count(id, ActionOf(op), Bucket(now, Window[ActionOf(op)])) >= limit

\* A registration is counted twice, so its second check may refuse it one
\* earlier than the first.
Arrive(r) ==
    \E op \in Operations, e \in Emails, a \in Addresses :
        LET first == ToSet(Ids(op, 1, e, a))
            ids   == first \cup ToSet(Ids(op, 2, e, a))
            until == UNION {BlocksAt(op, id, now) : id \in ids}
            limit == Limit[ActionOf(op)]
            early == IF op = "register" THEN limit - 1 ELSE limit
            f     == [Blank EXCEPT
                        !.op = op, !.email = e, !.ip = a,
                        !.until = until,
                        !.spent = {id \in first : Spent(op, id, limit)},
                        !.cause = \/ until # {} \/ InFlight # {}
                                  \/ \E id \in ids : Spent(op, id, early)]
        IN /\ pc[r] = "new"
           /\ Cardinality(InFlight) < MaxInFlight
           /\ pc' = [pc EXCEPT ![r] = IF op = "reset" THEN "count" ELSE "block"]
           /\ fr' = [q \in Attempts |->
                        IF q = r THEN Round(f, 1)
                        ELSE [fr[q] EXCEPT !.cause = @ \/ q \in InFlight]]
           /\ UNCHANGED <<now, rows>>

\* The identifiers of a round have passed: the next round, or on.
EndRound(r) ==
    LET f == fr[r] IN
    IF f.round = 1 /\ f.op \in {"login", "register"}
    THEN Turn(r, "block", Round(f, 2))
    ELSE Turn(r, IF <<f.op, f.round>> \in {<<"login", 2>>, <<"social", 1>>}
                 THEN "verify" ELSE "in", [f EXCEPT !.left = <<>>])

\* Variant: the loop ends after the first identifier.
PassFirst(r) == EndRound(r)

\* The identifier at hand has passed.
Pass(r) ==
    IF Len(fr[r].left) > 1
    THEN Turn(r, "block", [fr[r] EXCEPT !.left = Tail(@)])
    ELSE EndRound(r)

\* Variant: blocks that never run out.
BlockedEver(f) == BlocksAt(f.op, Head(f.left), -1) # {}

Blocked(f) == BlocksAt(f.op, Head(f.left), f.at) # {}

CheckBlock(r) ==
    /\ pc[r] = "block"
    /\ IF Blocked(fr[r])
       THEN Refuse(r) ELSE Turn(r, "count", fr[r])
    /\ UNCHANGED <<now, rows>>

\* Variant: the limit is the last count that passes.
ExhaustedLate(f) == LET act == ActionOf(f.op) IN
    Count(Head(f.left), act, Bucket(f.at, Window[act])) > Limit[act]

Exhausted(f) == LET act == ActionOf(f.op) IN
    Count(Head(f.left), act, Bucket(f.at, Window[act])) >= Limit[act]

\* The window a registration is counted in is read anew by recordFailure, that
\* of a reset request is the one its check has used.
CheckCount(r) ==
    LET f == fr[r]
        t == IF f.op = "register" THEN now ELSE f.at
    IN /\ pc[r] = "count"
       /\ \/ /\ Exhausted(f)
             /\ IF f.op = "reset" THEN Refuse(r) ELSE Turn(r, "ban", f)
          \/ /\ ~Exhausted(f)
             /\ IF f.op \in {"login", "social"} THEN Pass(r)
                ELSE Turn(r, "hit", [f EXCEPT !.start =
                                        Bucket(t, Window[ActionOf(f.op)])])
       /\ UNCHANGED <<now, rows>>

\* blockLoginIdentifier, blockRegistrationIdentifier
Ban(r) ==
    LET act   == ActionOf(fr[r].op)
        start == Bucket(fr[r].at, BlockTime[act])
    IN /\ pc[r] = "ban"
       /\ Upsert(<<Head(fr[r].left), Blocks[act], start>>,
                 start + BlockTime[act])
       /\ Refuse(r)
       /\ UNCHANGED now

CountOne(f) == LET act == ActionOf(f.op) IN
    Upsert(<<Head(f.left), act, f.start>>, f.start + Window[act])

\* A registration or a reset request is counted when it is let in.
Hit(r) ==
    /\ pc[r] = "hit"
    /\ CountOne(fr[r])
    /\ Pass(r)
    /\ UNCHANGED now

\* Variant: the time is not read.
RecordStale(r, ids) == Turn(r, "record", [fr[r] EXCEPT !.left = ids])

\* recordFailure begins: it reads the time, and counts the given identifiers.
Record(r, ids) ==
    Turn(r, "record",
         [fr[r] EXCEPT !.left = ids,
                       !.start = Bucket(now, Window[ActionOf(fr[r].op)])])

\* The password, or the provider's token and profile, are verified. A profile
\* without a verified e-mail is counted by what it contains.
Verify(r) ==
    LET f == fr[r] IN
    /\ pc[r] = "verify"
    /\ \/ /\ f.op = "login"
          /\ \/ Turn(r, "clear", f)
             \/ Record(r, Ids("login", 1, f.email, f.ip))
       \/ /\ f.op = "social"
          /\ \/ Turn(r, "block", Round(f, 2))
             \/ \E ids \in {Ids("social", 1, f.email, f.ip),
                            SocialIds(f.email, f.ip),
                            SubSeq(SocialIds(f.email, f.ip), 1, 2)} :
                    Record(r, ids)
    /\ UNCHANGED <<now, rows>>

RecordNext(r) ==
    /\ pc[r] = "record"
    /\ CountOne(fr[r])
    /\ IF Len(fr[r].left) = 1 THEN Leave(r)
       ELSE Turn(r, "record", [fr[r] EXCEPT !.left = Tail(@)])
    /\ UNCHANGED now

\* The counters of all windows go, for the address those of other accounts too.
ClearRows(r, acts) ==
    LET ids == ToSet(Ids("login", 1, fr[r].email, fr[r].ip))
        kept == [q \in Attempts |-> [fr[q] EXCEPT !.spent = @ \ ids]]
    IN /\ rows' = [k \in {x \in DOMAIN rows : x[1] \notin ids \/ x[2] \notin acts}
                        |-> rows[k]]
       /\ \/ /\ pc[r] = "clear" /\ pc' = [pc EXCEPT ![r] = "in"]
             /\ fr' = kept
          \/ /\ pc[r] = "reclear" /\ pc' = [pc EXCEPT ![r] = "done"]
             /\ fr' = [kept EXCEPT ![r] = Blank]
       /\ UNCHANGED now

\* Variant: without the condition on the action.
ClearAll(r) == ClearRows(r, {"LOGIN", "LOGIN_BLOCK"})

Clear(r) == ClearRows(r, {"LOGIN"})

\* The request is let in: a session is opened, an account registered, a reset
\* mailed. A social login that fails here counts as a failure.
Enter(r) ==
    LET f == fr[r] IN
    /\ pc[r] = "in"
    /\ \/ f.op = "login" /\ Turn(r, "reclear", f)
       \/ f.op # "login" /\ Leave(r)
       \/ f.op = "social" /\ Record(r, SocialIds(f.email, f.ip))
    /\ UNCHANGED <<now, rows>>

Throw(r) ==
    /\ MayFail /\ r \in InFlight
    /\ Leave(r)
    /\ UNCHANGED <<now, rows>>

Tick == now < MaxTime /\ now' = now + 1 /\ UNCHANGED <<rows, pc, fr>>

Finished == (\A r \in Attempts : pc[r] \in {"refused", "done"}) /\ UNCHANGED vars

Handle(r) == CheckBlock(r) \/ CheckCount(r) \/ Ban(r) \/ Hit(r) \/ Verify(r)
             \/ RecordNext(r) \/ Clear(r) \/ Enter(r)

Next == \/ \E r \in Attempts : Arrive(r) \/ Handle(r) \/ Throw(r)
        \/ Tick \/ Finished

Spec == Init /\ [][Next]_vars
-----------------------------------------------------------------------------
(* Properties *)

TypeOK ==
    /\ now \in Nat
    /\ DOMAIN rows \subseteq Keys
    /\ \A k \in DOMAIN rows : rows[k] \in [count : Nat \ {0}, exp : Nat]
    /\ pc \in [Attempts -> Steps] /\ fr \in [Attempts -> Frame]

\* A login is past its checks when its password is compared, others when they
\* are let in.
Passed(r) == \/ pc[r] \in {"clear", "in", "reclear"}
             \/ /\ fr[r].op = "login"
                /\ pc[r] \in {"verify", "record"}

\* A request that came in while one of its identifiers was blocked is never let
\* past the checks before the block is over, whoever logs in meanwhile:
\* clearing the failures leaves the blocks alone.
BlockedIsRefused == \A r \in Attempts : Passed(r) =>
        \A t \in fr[r].until : t <= now

\* Nor is one that came in with a counter at its limit, unless a successful
\* login has cleared the counter since; that it lets go by the checks of other
\* identifiers first, or meets the end of the window, does not help it.
ExhaustedIsRefused == \A r \in Attempts : Passed(r) => fr[r].spent = {}

\* Checking and counting are separate queries, so concurrent requests pass the
\* limit; but by no more than the requests that were in flight. (An unverified
\* profile is counted under identifiers that were not checked.)
OvershootBounded ==
    \A k \in DOMAIN rows :
        LET unchecked == \/ k[1][1] = "socialUser"
                         \/ k[1][1] = "social" /\ k[1][2] # None
        IN  k[2] \in Actions /\ ~unchecked =>
                rows[k].count <= Limit[k[2]] - 1 + MaxInFlight

\* A request that no other was at work with is not refused unless it came in
\* blocked or at a limit (one less for a registration, which is counted twice):
\* blocks and counters run out by themselves, whatever races and failures there
\* were before.
RefusedForCause == \A r \in Attempts : pc[r] = "refused" => fr[r].cause
=============================================================================
