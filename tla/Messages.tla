------------------------------ MODULE Messages ------------------------------
(* Contact messages and the administrators who read and answer them. One    *)
(* action is one query of a handler; replyToMessage is an interactive       *)
(* transaction whose effects others see when it commits. A request gives    *)
(* its name to the message or reply it creates and to the times it records. *)
(* The order of creation is kept, as it is the order of the list; two       *)
(* messages are never created at the same time.                             *)
EXTENDS Integers, FiniteSets

CONSTANTS
    Requests, Admins, None,
    Operations,              \* the operations of this instance
    Limit,                   \* messages per page of the list
    MayFail,                 \* queries may fail
    MaxInFlight              \* bound

Settable == {"READ", "ARCHIVED", "SPAM"}
Statuses == Settable \cup {"NEW", "REPLIED"}
AllOps   == {"create", "status", "read", "reply", "list"}

ASSUME MessagesAssumption ==
    /\ None \notin Requests \cup Admins \cup Statuses
    /\ Operations \subseteq AllOps
    /\ Limit \in Nat \ {0} /\ MayFail \in BOOLEAN /\ MaxInFlight \in Nat

VARIABLES
    clock,     \* counts the times that the order of rows depends on
    rows,      \* contact_messages
    replies,   \* contact_message_replies
    exits,     \* (not in the code) how often a message left each status
    pc, fr

tables == <<rows, replies>>
vars   == <<clock, rows, replies, exits, pc, fr>>

Opt(S) == S \cup {None}

Row   == [status : Statuses, created : Nat, readAt : Opt(Requests),
          repliedAt : Opt(Requests), lastBy : Opt(Admins),
          by : Opt(Requests),      \* (not in the code) who wrote readAt
          setBy : Opt(Requests)]   \* (not in the code) who gave it its status
Reply == [to : Requests, author : Admins, at : Nat,
          met : SUBSET Requests]   \* (not in the code) requests it overlapped

Frame == [op : Opt(AllOps), msg : Opt(Requests), arg : Opt(Statuses \cup Admins),
          readAt : Opt(Requests),  \* of the message, when it was found
          at : Nat,                \* when the new row was stamped
          page : Nat, items : SUBSET Requests,
          \* (not in the code) the requests at work on the same message at some
          \* time, and for a reader of the list: what it has seen, what was there
          \* when it began, and exits then
          met : SUBSET Requests,
          seen : SUBSET Requests, base : SUBSET Requests, left : Nat]
Blank == [op |-> None, msg |-> None, arg |-> None, readAt |-> None, at |-> 0,
          page |-> 0, items |-> {}, met |-> {}, seen |-> {}, base |-> {},
          left |-> 0]

Steps == {"new", "insert", "staFind", "staUpdate", "readFind", "readUpdate",
          "repFind", "repInsert", "repUpdate", "repCommit", "items", "count",
          "listed", "ok", "done"}

NoRows == [x \in {} |-> 0]
With(f, x, v) == [y \in DOMAIN f \cup {x} |-> IF y = x THEN v ELSE f[y]]

Init ==
    /\ clock = 0 /\ rows = NoRows /\ replies = NoRows
    /\ exits = [s \in Statuses |-> 0]
    /\ pc = [r \in Requests |-> "new"]
    /\ fr = [r \in Requests |-> Blank]

InFlight == {r \in Requests : pc[r] \notin {"new", "done"}}

Goto(r, step)    == pc' = [pc EXCEPT ![r] = step] /\ fr' = fr
Turn(r, step, f) == pc' = [pc EXCEPT ![r] = step] /\ fr' = [fr EXCEPT ![r] = f]
Leave(r)         == Turn(r, "done", Blank)

(* Arrival: the identifier of a message may be one that does not exist yet *)

AtWork(m) == {q \in InFlight : fr[q].msg = m}
IsNew(m)  == m \in DOMAIN rows /\ rows[m].status = "NEW"

Begin(r, op, step, m, arg) ==
    /\ pc[r] = "new" /\ op \in Operations
    /\ Cardinality(InFlight) < MaxInFlight
    /\ pc' = [pc EXCEPT ![r] = step]
    /\ fr' = [q \in Requests |->
                 IF q = r
                 THEN [Blank EXCEPT !.op = op, !.msg = m, !.arg = arg, !.at = clock,
                                    !.met = AtWork(m)]
                 ELSE IF q \in AtWork(m) THEN [fr[q] EXCEPT !.met = @ \cup {r}]
                 ELSE fr[q]]
    /\ UNCHANGED <<tables, exits>>

Ids == {m \in Requests : fr[m].op = "create"} \cup DOMAIN rows

Arrive(r) ==
    \/ Begin(r, "create", "insert", r, None) /\ clock' = clock + 1
    \/ \E m \in Ids :
          /\ \/ \E s \in Settable \cup {"REPLIED"} : Begin(r, "status", "staFind", m, s)
             \/ Begin(r, "read", "readFind", m, None)
             \/ \E a \in Admins : Begin(r, "reply", "repFind", m, a)
          /\ UNCHANGED clock
    \/ \E s \in Opt(Statuses) : Begin(r, "list", "items", None, s) /\ UNCHANGED clock

(* create *)

Insert(r) ==
    /\ pc[r] = "insert"
    /\ rows' = With(rows, r, [status |-> "NEW", created |-> fr[r].at, readAt |-> None,
                              repliedAt |-> None, lastBy |-> None, by |-> None,
                              setBy |-> None])
    /\ Goto(r, "ok")
    /\ UNCHANGED <<clock, replies, exits>>

\* An update of a message waits for the transaction that holds its row.
RowLocked(m) == \E q \in Requests : pc[q] = "repCommit" /\ fr[q].msg = m

Update(m, row) ==
    /\ rows'  = [rows EXCEPT ![m] = row]
    /\ exits' = IF row.status = rows[m].status THEN exits
                ELSE [exits EXCEPT ![rows[m].status] = @ + 1]

(* updateStatus *)

Found(r, step) ==
    IF fr[r].msg \in DOMAIN rows
    THEN Turn(r, step, [fr[r] EXCEPT !.readAt = rows[fr[r].msg].readAt])
    ELSE Leave(r)

StaFind(r) ==
    /\ pc[r] = "staFind"
    /\ IF fr[r].arg = "REPLIED" THEN Leave(r) ELSE Found(r, "staUpdate")
    /\ UNCHANGED <<clock, tables, exits>>

SetStatus(r, readAt) ==
    LET m == fr[r].msg IN
    /\ pc[r] = "staUpdate" /\ ~RowLocked(m)
    /\ Update(m, [rows[m] EXCEPT !.status = fr[r].arg, !.readAt = readAt, !.by = r,
                                 !.setBy = r])
    /\ Goto(r, "ok")
    /\ UNCHANGED <<clock, replies>>

\* Variant: the time is recorded whenever the status is set to READ.
StaUpdateAlways(r) == SetStatus(r, IF fr[r].arg = "READ" THEN r ELSE fr[r].readAt)

\* The time of reading is written back as it was found.
StaUpdate(r) ==
    SetStatus(r, IF fr[r].arg = "READ" /\ fr[r].readAt = None THEN r ELSE fr[r].readAt)

(* markAsRead *)

\* Variant: a message that was replied to is marked as well.
ReadFindAny(r) ==
    /\ pc[r] = "readFind" /\ Found(r, "readUpdate")
    /\ UNCHANGED <<clock, tables, exits>>

ReadFind(r) ==
    /\ pc[r] = "readFind"
    /\ IF fr[r].msg \in DOMAIN rows /\ ~IsNew(fr[r].msg)
       THEN Goto(r, "ok") ELSE Found(r, "readUpdate")
    /\ UNCHANGED <<clock, tables, exits>>

ReadUpdate(r) ==
    LET m == fr[r].msg IN
    /\ pc[r] = "readUpdate" /\ ~RowLocked(m)
    /\ Update(m, [rows[m] EXCEPT !.status = "READ", !.readAt = r, !.by = r, !.setBy = r])
    /\ Goto(r, "ok")
    /\ UNCHANGED <<clock, replies>>

(* replyToMessage *)

RepFind(r) ==
    /\ pc[r] = "repFind"
    /\ IF fr[r].msg \in DOMAIN rows THEN Goto(r, "repInsert") ELSE Leave(r)
    /\ UNCHANGED <<clock, tables, exits>>

NewReply(r) == [to |-> fr[r].msg, author |-> fr[r].arg, at |-> fr[r].at,
                met |-> fr[r].met]

\* Variant: the reply is inserted outside the transaction.
RepInsertOutside(r) ==
    /\ pc[r] = "repInsert"
    /\ replies' = With(replies, r, NewReply(r))
    /\ Turn(r, "repUpdate", [fr[r] EXCEPT !.at = clock]) /\ clock' = clock + 1
    /\ UNCHANGED <<rows, exits>>

RepInsert(r) ==
    /\ pc[r] = "repInsert"
    /\ Turn(r, "repUpdate", [fr[r] EXCEPT !.at = clock]) /\ clock' = clock + 1
    /\ UNCHANGED <<tables, exits>>

RepUpdate(r) ==
    /\ pc[r] = "repUpdate" /\ ~RowLocked(fr[r].msg)
    /\ Goto(r, "repCommit")
    /\ UNCHANGED <<clock, tables, exits>>

Commits(r, lastBy) ==
    LET m == fr[r].msg IN
    /\ pc[r] = "repCommit"
    /\ replies' = With(replies, r, NewReply(r))
    /\ Update(m, [rows[m] EXCEPT !.status = "REPLIED", !.repliedAt = r,
                                 !.lastBy = lastBy, !.setBy = r])
    /\ Goto(r, "ok")
    /\ UNCHANGED clock

\* Variant: who replied first is kept.
RepCommitFirst(r) ==
    Commits(r, IF rows[fr[r].msg].lastBy = None THEN fr[r].arg ELSE rows[fr[r].msg].lastBy)

\* Variant: message and author are swapped.
RepCommitSwapped(r) == Commits(r, fr[r].msg)

RepCommit(r) == Commits(r, fr[r].arg)

(* findAll, by a client that asks for the pages one after the other *)

Matching(status) == {m \in DOMAIN rows : status \in {None, rows[m].status}}
Newer(m, S)      == {x \in S : rows[x].created > rows[m].created}

\* The rows of S at the positions skip + 1 to skip + Limit, the newest first.
Slice(S, skip) ==
    {m \in S : LET n == Cardinality(Newer(m, S)) IN skip <= n /\ n < skip + Limit}

Exited(status) == IF status = None THEN 0 ELSE exits[status]

ReadPage(r, skip) ==
    LET S == Matching(fr[r].arg) IN
    /\ pc[r] = "items"
    /\ Turn(r, "count",
            [fr[r] EXCEPT !.items = Slice(S, skip), !.seen = @ \cup Slice(S, skip),
                          !.base = IF fr[r].page = 0 THEN S ELSE @,
                          !.left = IF fr[r].page = 0 THEN Exited(fr[r].arg) ELSE @,
                          !.page = @ + 1])
    /\ UNCHANGED <<clock, tables, exits>>

\* Variant: pages are counted from one, but not in the rows to skip.
ItemsSkipping(r) == ReadPage(r, (fr[r].page + 1) * Limit)

\* The page asked for is fr[r].page + 1.
Items(r) == ReadPage(r, fr[r].page * Limit)

TotalPages(total) == (total + Limit - 1) \div Limit

\* The second statement of the batch sees what was committed after the first.
\* The client asks for the next page, or has come to the end.
Count(r) ==
    /\ pc[r] = "count"
    /\ Goto(r, IF fr[r].page < TotalPages(Cardinality(Matching(fr[r].arg)))
               THEN "items" ELSE "listed")
    /\ UNCHANGED <<clock, tables, exits>>

(* The system *)

Answer(r) == /\ pc[r] \in {"ok", "listed"} /\ Leave(r)
             /\ UNCHANGED <<clock, tables, exits>>

\* A query fails: an open transaction is rolled back.
Throw(r) == /\ MayFail /\ r \in InFlight /\ pc[r] \notin {"ok", "listed"}
            /\ Leave(r) /\ UNCHANGED <<clock, tables, exits>>

Finished == (\A r \in Requests : pc[r] = "done") /\ UNCHANGED vars

UpdateStatus(r) == StaFind(r) \/ StaUpdate(r)
MarkAsRead(r)   == ReadFind(r) \/ ReadUpdate(r)
ReplyTo(r)      == RepFind(r) \/ RepInsert(r) \/ RepUpdate(r) \/ RepCommit(r)
FindAll(r)      == Items(r) \/ Count(r)

Next == \/ \E r \in Requests : \/ Arrive(r) \/ Insert(r) \/ UpdateStatus(r)
                               \/ MarkAsRead(r) \/ ReplyTo(r) \/ FindAll(r)
                               \/ Answer(r) \/ Throw(r)
        \/ Finished

Spec == Init /\ [][Next]_vars
-----------------------------------------------------------------------------
(* Properties *)

TypeOK ==
    /\ clock \in Nat /\ exits \in [Statuses -> Nat]
    /\ DOMAIN rows \subseteq Requests /\ rows \in [DOMAIN rows -> Row]
    /\ DOMAIN replies \subseteq Requests /\ replies \in [DOMAIN replies -> Reply]
    /\ \A q \in DOMAIN replies : replies[q].to \in DOMAIN rows
    /\ pc \in [Requests -> Steps] /\ fr \in [Requests -> Frame]

RepliesOf(m) == {q \in DOMAIN replies : replies[q].to = m}

\* A message has a reply time and a last replier exactly when it has replies,
\* and the last replier wrote the newest reply, or one at work with the newest.
ThreadConsistent ==
    \A m \in DOMAIN rows :
        /\ rows[m].repliedAt # None <=> RepliesOf(m) # {}
        /\ rows[m].lastBy # None <=> RepliesOf(m) # {}
        /\ \A n \in RepliesOf(m) :
              (\A q \in RepliesOf(m) : replies[q].at <= replies[n].at) =>
                  \E q \in RepliesOf(m) : /\ replies[q].author = rows[m].lastBy
                                          /\ q \in replies[n].met \cup {n}

\* The write that marks a message as read comes after the status was looked at:
\* a status other than NEW is overwritten and lost, also REPLIED. That happens
\* only to one that was given by a request at work together with the marking.
MarkLosesOnlyOverlaps ==
    [][\A r \in Requests :
          LET m == fr[r].msg IN
          pc[r] = "readUpdate" /\ pc'[r] = "ok" =>
              rows[m].status = "NEW" \/ rows[m].setBy \in fr[r].met]_vars

\* A recorded time of reading is replaced or lost only by a request that was at
\* work together with the one that wrote it.
ReadTimeKept ==
    [][\A m \in DOMAIN rows :
          rows[m].readAt \notin {None, rows'[m].readAt} =>
              \E r \in Requests : /\ pc'[r] # pc[r] /\ fr[r].msg = m
                                  /\ rows[m].by \in fr[r].met]_vars

\* Who reads the list page by page to the end sees every message that was there
\* at the beginning, whatever is created meanwhile, unless the list is filtered
\* by a status and some message lost that status in the meantime.
NoMessageMissed ==
    \A r \in Requests :
        pc[r] = "listed" /\ Exited(fr[r].arg) = fr[r].left => fr[r].base \subseteq fr[r].seen

\* The messages as MessageThread sees them.
Thread == INSTANCE MessageThread WITH
    status  <- [m \in Requests |-> IF m \in DOMAIN rows THEN rows[m].status ELSE None],
    lastBy  <- [m \in Requests |-> IF m \in DOMAIN rows THEN rows[m].lastBy ELSE None],
    replies <- [m \in Requests |->
                   {[id |-> q, author |-> replies[q].author] : q \in RepliesOf(m)}]

\* The handlers implement the abstract MessageThread, whatever they overlap with
\* and wherever they fail: a reply, its status and its author appear together.
ImplementsThread == Thread!Spec
=============================================================================
