---------------------------- MODULE MessageProofs ----------------------------
(* Proofs about Messages for every value of its constants.                  *)
EXTENDS Messages, FiniteSetTheorems, TLAPS

USE MessagesAssumption
-----------------------------------------------------------------------------
(* The inductive invariant.                                                 *)

Writing  == {"staUpdate", "readUpdate"}
Stamped  == {"repUpdate", "repCommit"}
Seeking  == {"staFind", "readFind", "repFind"}
Replying == {"repInsert"} \cup Stamped

\* What each step of a handler finds in its frame.
FrameFits(r, p, f) ==
    /\ p = "insert" => f.msg = r
    /\ p \in Seeking => f.msg \in Requests
    /\ p \in Writing \cup Replying => f.msg \in DOMAIN rows
    /\ p = "staFind" => f.arg \in Settable \cup {"REPLIED"}
    /\ p = "staUpdate" => f.arg \in Settable
    /\ p \in {"repFind"} \cup Replying => f.arg \in Admins
    /\ p \in {"items", "count"} => f.arg \in Opt(Statuses)

FramesOK == \A r \in Requests : FrameFits(r, pc[r], fr[r])

\* A request inserts its message and its reply once.
FreshOK ==
    \A r \in Requests : /\ pc[r] \in {"new", "insert"} => r \notin DOMAIN rows
                        /\ pc[r] \notin {"ok", "done"} => r \notin DOMAIN replies

BasicInv == TypeOK /\ FramesOK /\ FreshOK

\* Of two requests at work on one message, each knows the other.
MetOK ==
    \A q, r \in InFlight :
        q # r /\ fr[q].msg = fr[r].msg => q \in fr[r].met

\* A message that was found new has another status only if a request met gave it.
GivenOK ==
    \A r \in Requests :
        pc[r] = "readUpdate" =>
            \/ rows[fr[r].msg].status = "NEW"
            \/ rows[fr[r].msg].setBy \in fr[r].met

\* The time of reading is the one found, or was written by a request met.
ReadOK ==
    /\ \A r \in Requests :
          pc[r] \in Writing =>
              \/ rows[fr[r].msg].readAt \in {None, fr[r].readAt}
              \/ rows[fr[r].msg].by \in fr[r].met
    /\ \A r \in Requests : pc[r] = "readUpdate" => fr[r].readAt = None
    /\ \A m \in DOMAIN rows : rows[m].status = "NEW" => rows[m].readAt = None

\* A reply that is stamped and not committed was met by the newer ones that are.
StampOK ==
    /\ \A q \in DOMAIN replies : replies[q].at < clock
    /\ \A r \in Requests : pc[r] \in Stamped => fr[r].at < clock
    /\ \A n \in DOMAIN replies, r \in Requests :
          /\ pc[r] \in Stamped /\ replies[n].to = fr[r].msg
          /\ fr[r].at <= replies[n].at
          => r \in replies[n].met

ThreadInv == MetOK /\ GivenOK /\ ReadOK /\ StampOK /\ ThreadConsistent
-----------------------------------------------------------------------------
(* Types, frames and what is inserted once.                                 *)

\* What stays in the frame of a request, and what grows.
Keeps(f, g) == g.msg = f.msg /\ g.arg = f.arg /\ f.met \subseteq g.met
Stays(f, g) == Keeps(f, g) /\ g.readAt = f.readAt /\ g.at = f.at

\* A step of r leaves the other requests alone, but for whom they have met.
Others(r) ==
    \A q \in Requests \ {r} : pc'[q] = pc[q] /\ Stays(fr[q], fr'[q])

RowsOK    == DOMAIN rows \subseteq Requests /\ rows \in [DOMAIN rows -> Row]
RepliesOK == /\ DOMAIN replies \subseteq Requests
             /\ replies \in [DOMAIN replies -> Reply]
             /\ \A q \in DOMAIN replies : replies[q].to \in DOMAIN rows

Typed == /\ clock' \in Nat /\ clock <= clock' /\ exits' \in [Statuses -> Nat]
         /\ RowsOK' /\ RepliesOK' /\ DOMAIN rows \subseteq DOMAIN rows'

Control(r) == /\ pc' \in [Requests -> Steps] /\ fr' \in [Requests -> Frame]
              /\ FramesOK' /\ FreshOK' /\ Others(r)

\* The blank frame is a frame.
LEMMA BlankType == Blank \in Frame
BY DEF Blank, Frame, Opt

\* Init establishes the basic invariant.
LEMMA InitBasic == Init => BasicInv
<1> SUFFICES ASSUME Init PROVE BasicInv
    OBVIOUS
<1>1. TypeOK
    BY BlankType DEF Init, TypeOK, NoRows, Steps
<1> QED
    BY <1>1 DEF Init, BasicInv, FramesOK, FrameFits, FreshOK, NoRows, Seeking,
        Writing, Replying, Stamped

\* A step of r, by what it does to control and to the domains of the tables.
LEMMA ControlKept ==
    ASSUME BasicInv, NEW r \in Requests, NEW p \in Steps,
           pc' = [pc EXCEPT ![r] = p], fr' \in [Requests -> Frame], Others(r),
           DOMAIN rows \subseteq DOMAIN rows',
           DOMAIN rows' \subseteq DOMAIN rows \cup {r},
           p \in {"new", "insert"} => r \notin DOMAIN rows',
           DOMAIN replies' \subseteq DOMAIN replies \cup {r},
           p \notin {"ok", "done"} => r \notin DOMAIN replies',
           FrameFits(r, pc[r], fr[r])'
    PROVE  Control(r)
<1>1. pc' \in [Requests -> Steps] /\ pc'[r] = p
    BY DEF BasicInv, TypeOK
<1>2. ASSUME NEW q \in Requests PROVE FrameFits(q, pc[q], fr[q])'
    <2>1. CASE q = r
        BY <2>1
    <2>2. CASE q # r
        BY <2>2 DEF BasicInv, FramesOK, FrameFits, Others, Stays, Keeps
    <2> QED
        BY <2>1, <2>2
<1>3. ASSUME NEW q \in Requests
      PROVE  /\ pc'[q] \in {"new", "insert"} => q \notin DOMAIN rows'
             /\ pc'[q] \notin {"ok", "done"} => q \notin DOMAIN replies'
    <2>1. CASE q = r
        BY <1>1, <2>1
    <2>2. CASE q # r
        BY <2>2 DEF BasicInv, FreshOK, Others
    <2> QED
        BY <2>1, <2>2
<1> QED
    BY <1>1, <1>2, <1>3 DEF Control, FramesOK, FreshOK

\* A turn of r moves no other request.
LEMMA TurnMoves ==
    ASSUME BasicInv, NEW r \in Requests, NEW p \in Steps, NEW f \in Frame,
           Turn(r, p, f)
    PROVE  /\ pc' = [pc EXCEPT ![r] = p] /\ fr' \in [Requests -> Frame]
           /\ pc'[r] = p /\ fr'[r] = f /\ Others(r)
BY DEF Turn, BasicInv, TypeOK, Others, Stays, Keeps

\* To go on with the same frame is a turn.
LEMMA GotoTurn ==
    ASSUME BasicInv, NEW r \in Requests, NEW p, Goto(r, p)
    PROVE  Turn(r, p, fr[r]) /\ fr[r] \in Frame
BY DEF Goto, Turn, BasicInv, TypeOK

Quiet == UNCHANGED <<tables, exits>> /\ clock' \in Nat /\ clock <= clock'

\* A step that leaves the tables alone leaves them typed.
LEMMA QuietTyped == ASSUME BasicInv, Quiet PROVE Typed
BY DEF Quiet, Typed, BasicInv, TypeOK, RowsOK, RepliesOK, tables

\* The turns that leave the tables alone.
LEMMA QuietTurn ==
    ASSUME BasicInv, NEW r \in Requests, NEW p \in Steps \ {"new", "insert"},
           NEW f \in Frame, Turn(r, p, f), Quiet,
           pc[r] \notin {"ok", "done"} \/ p \in {"ok", "done"},
           FrameFits(r, p, f)
    PROVE  Typed /\ Control(r) /\ pc'[r] = p /\ fr'[r] = f
<1>1. Typed
    BY QuietTyped
<1>2. /\ pc' = [pc EXCEPT ![r] = p] /\ fr' \in [Requests -> Frame]
      /\ pc'[r] = p /\ fr'[r] = f /\ Others(r)
    BY TurnMoves
<1>3. rows' = rows /\ replies' = replies
    BY DEF Quiet, tables
<1>4. FrameFits(r, pc[r], fr[r])'
    BY <1>2, <1>3 DEF FrameFits
<1>5. p \notin {"ok", "done"} => r \notin DOMAIN replies
    BY DEF BasicInv, FreshOK
<1> QED
    BY <1>1, <1>2, <1>3, <1>4, <1>5, ControlKept

\* The end of a handler.
LEMMA QuietLeave ==
    ASSUME BasicInv, NEW r \in Requests, Leave(r), Quiet
    PROVE  Typed /\ Control(r) /\ pc'[r] = "done" /\ fr'[r] = Blank
<1>1. FrameFits(r, "done", Blank) /\ "done" \in Steps \ {"new", "insert"}
    BY DEF FrameFits, Steps, Seeking, Writing, Replying, Stamped
<1> QED
    BY <1>1, BlankType, QuietTurn DEF Leave

\* The next step of a handler, with the same frame.
LEMMA QuietGoto ==
    ASSUME BasicInv, NEW r \in Requests, NEW p \in Steps \ {"new", "insert"},
           Goto(r, p), Quiet,
           pc[r] \notin {"ok", "done"} \/ p \in {"ok", "done"},
           FrameFits(r, p, fr[r])
    PROVE  Typed /\ Control(r) /\ pc'[r] = p /\ fr'[r] = fr[r]
<1>1. Turn(r, p, fr[r]) /\ fr[r] \in Frame
    BY GotoTurn
<1> QED
    BY <1>1, QuietTurn

\* A request that comes in meets those that are at work on its message.
Comes(r) ==
    /\ pc[r] = "new" /\ Quiet /\ Typed /\ Control(r)
    /\ pc'[r] \in {"insert", "items"} \cup Seeking
    /\ fr'[r].met = AtWork(fr'[r].msg)
    /\ \A q \in AtWork(fr'[r].msg) : r \in fr'[q].met

\* A step that does not touch the tables: the end, or the next query.
GoesOn(r) ==
    /\ r \in InFlight /\ Quiet /\ Typed /\ Control(r)
    /\ \/ pc'[r] = "done"
       \/ /\ Keeps(fr[r], fr'[r]) /\ pc'[r] \in {"ok", "items", "count", "listed"}
       \/ /\ pc'[r] \in Writing /\ Keeps(fr[r], fr'[r])
          /\ fr'[r].readAt = rows[fr[r].msg].readAt
          /\ pc'[r] = "readUpdate" => pc[r] = "readFind" /\ IsNew(fr[r].msg)
       \/ pc'[r] = "repInsert" /\ fr'[r] = fr[r]
       \/ /\ pc'[r] = "repUpdate" /\ Keeps(fr[r], fr'[r])
          /\ fr'[r].at = clock /\ clock' = clock + 1
       \/ pc[r] = "repUpdate" /\ pc'[r] = "repCommit" /\ fr'[r] = fr[r]

\* The arrival of a request, whatever it asks for.
LEMMA BeginComes ==
    ASSUME BasicInv, NEW r \in Requests, NEW op \in AllOps,
           NEW p \in {"insert", "items"} \cup Seeking, NEW m \in Opt(Requests),
           NEW a \in Opt(Statuses \cup Admins), Begin(r, op, p, m, a),
           clock' \in {clock, clock + 1},
           p = "insert" => m = r,
           p \in Seeking => m \in Requests,
           p = "staFind" => a \in Settable \cup {"REPLIED"},
           p = "repFind" => a \in Admins,
           p = "items" => a \in Opt(Statuses)
    PROVE  Comes(r)
<1> DEFINE f == [Blank EXCEPT !.op = op, !.msg = m, !.arg = a, !.at = clock,
                              !.met = AtWork(m)]
<1>0. p \in Steps /\ p \notin {"new", "ok", "done"}
    BY DEF Steps, Seeking
<1>1. AtWork(m) \subseteq Requests /\ r \notin AtWork(m)
    BY DEF AtWork, InFlight, Begin
<1>2. f \in Frame
    <2>1. clock \in Nat
        BY DEF BasicInv, TypeOK
    <2> QED
        BY <1>1, <2>1 DEF Frame, Blank, Opt
<1>3. f.msg = m /\ f.arg = a /\ f.met = AtWork(m)
    BY DEF Blank
<1>4. /\ pc[r] = "new" /\ pc' = [pc EXCEPT ![r] = p]
      /\ fr' = [q \in Requests |->
                   IF q = r THEN f
                   ELSE IF q \in AtWork(m) THEN [fr[q] EXCEPT !.met = @ \cup {r}]
                   ELSE fr[q]]
      /\ UNCHANGED <<tables, exits>>
    BY DEF Begin
<1> HIDE DEF f
<1>5. ASSUME NEW q \in Requests \ {r}
      PROVE  /\ fr'[q] \in Frame /\ Stays(fr[q], fr'[q]) /\ pc'[q] = pc[q]
             /\ q \in AtWork(m) => r \in fr'[q].met
    <2>1. fr[q] \in Frame
        BY DEF BasicInv, TypeOK
    <2>2. pc'[q] = pc[q]
        BY <1>4 DEF BasicInv, TypeOK
    <2>3. CASE q \in AtWork(m)
        <3>1. fr'[q] = [fr[q] EXCEPT !.met = @ \cup {r}]
            BY <1>4, <2>3
        <3>2. fr'[q] \in Frame
            BY <2>1, <3>1 DEF Frame
        <3>3. /\ fr'[q].msg = fr[q].msg /\ fr'[q].arg = fr[q].arg
              /\ fr'[q].readAt = fr[q].readAt /\ fr'[q].at = fr[q].at
              /\ fr'[q].met = fr[q].met \cup {r}
            BY <2>1, <3>1 DEF Frame
        <3> QED
            BY <2>2, <3>2, <3>3 DEF Stays, Keeps
    <2>4. CASE q \notin AtWork(m)
        BY <1>4, <2>1, <2>2, <2>4 DEF Stays, Keeps
    <2> QED
        BY <2>3, <2>4
<1>6. fr' \in [Requests -> Frame] /\ fr'[r] = f /\ pc'[r] = p /\ Others(r)
    <2>1. pc'[r] = p
        BY <1>4 DEF BasicInv, TypeOK
    <2>2. fr'[r] = f
        BY <1>4
    <2> QED
        BY <1>2, <1>4, <1>5, <2>1, <2>2 DEF Others
<1>7. Quiet /\ Typed
    BY <1>4, QuietTyped DEF Quiet, BasicInv, TypeOK
<1>8. FrameFits(r, pc[r], fr[r])'
    BY <1>3, <1>6 DEF FrameFits, Seeking, Writing, Replying, Stamped
<1>9. Control(r)
    <2>1. rows' = rows /\ replies' = replies
        BY <1>4 DEF tables
    <2>2. r \notin DOMAIN rows /\ r \notin DOMAIN replies
        BY <1>4 DEF BasicInv, FreshOK
    <2> QED
        BY <1>0, <1>4, <1>6, <1>8, <2>1, <2>2, ControlKept
<1>10. \A q \in AtWork(m) : r \in fr'[q].met
    BY <1>1, <1>5
<1> QED
    BY <1>3, <1>4, <1>6, <1>7, <1>9, <1>10 DEF Comes

\* Each arrival.
LEMMA ArriveComes == ASSUME BasicInv, NEW r \in Requests, Arrive(r) PROVE Comes(r)
<1> USE DEF Opt, AllOps, Seeking, Statuses, Settable
<1>1. CASE Begin(r, "create", "insert", r, None) /\ clock' = clock + 1
    BY <1>1, BeginComes
<1>2. ASSUME NEW m \in Ids, UNCHANGED clock,
             \/ \E s \in Settable \cup {"REPLIED"} : Begin(r, "status", "staFind", m, s)
             \/ Begin(r, "read", "readFind", m, None)
             \/ \E a \in Admins : Begin(r, "reply", "repFind", m, a)
      PROVE  Comes(r)
    <2>1. m \in Requests
        BY DEF Ids, BasicInv, TypeOK
    <2>2. ASSUME NEW s \in Settable \cup {"REPLIED"}, Begin(r, "status", "staFind", m, s)
          PROVE  Comes(r)
        BY <1>2, <2>1, <2>2, BeginComes
    <2>3. CASE Begin(r, "read", "readFind", m, None)
        BY <1>2, <2>1, <2>3, BeginComes
    <2>4. ASSUME NEW a \in Admins, Begin(r, "reply", "repFind", m, a)
          PROVE  Comes(r)
        BY <1>2, <2>1, <2>4, BeginComes
    <2> QED
        BY <1>2, <2>2, <2>3, <2>4
<1>3. ASSUME NEW s \in Opt(Statuses), Begin(r, "list", "items", None, s), UNCHANGED clock
      PROVE  Comes(r)
    BY <1>3, BeginComes
<1> QED
    BY <1>1, <1>2, <1>3 DEF Arrive

\* The frame of a reader of the list after a page.
Paged(f, T, B, n) == [f EXCEPT !.items = T, !.seen = @ \cup T, !.base = B, !.left = n,
                               !.page = @ + 1]

\* The frame of a reader after a page is a frame, and as it was otherwise.
LEMMA PageType ==
    ASSUME NEW f \in Frame, NEW T \in SUBSET Requests, NEW B \in SUBSET Requests,
           NEW n \in Nat
    PROVE  /\ Paged(f, T, B, n) \in Frame
           /\ Paged(f, T, B, n).msg = f.msg /\ Paged(f, T, B, n).arg = f.arg
           /\ Paged(f, T, B, n).met = f.met
<1> DEFINE g == Paged(f, T, B, n)
<1>1. f.seen \cup T \in SUBSET Requests /\ f.page + 1 \in Nat
    BY DEF Frame
<1>2. g \in Frame
    BY <1>1 DEF Frame, Paged
<1>3. g.msg = f.msg /\ g.arg = f.arg /\ g.met = f.met
    BY DEF Frame, Paged
<1> QED
    BY <1>2, <1>3

\* The queries that only read, and the answers and failures.
LEMMA ReadersGoOn ==
    ASSUME BasicInv, NEW r \in Requests,
           \/ StaFind(r) \/ ReadFind(r) \/ RepFind(r) \/ RepInsert(r)
           \/ RepUpdate(r) \/ FindAll(r) \/ Answer(r) \/ Throw(r)
    PROVE  GoesOn(r)
<1> USE DEF Seeking, Writing, Replying, Stamped
<1>f. FrameFits(r, pc[r], fr[r]) /\ fr[r] \in Frame
    BY DEF BasicInv, FramesOK, TypeOK
<1>q. UNCHANGED <<clock, tables, exits>> => Quiet
    BY DEF Quiet, BasicInv, TypeOK
<1>k. Keeps(fr[r], fr[r])
    BY DEF Keeps
<1>l. ASSUME r \in InFlight, Leave(r), UNCHANGED <<clock, tables, exits>>
      PROVE  GoesOn(r)
    BY <1>l, <1>q, QuietLeave DEF GoesOn
<1>d. ASSUME NEW p \in Writing, Found(r, p), pc[r] \in {"staFind", "readFind"},
             UNCHANGED <<clock, tables, exits>>,
             p = "staUpdate" => fr[r].arg \in Settable,
             p = "readUpdate" =>
                pc[r] = "readFind" /\ (fr[r].msg \in DOMAIN rows => IsNew(fr[r].msg))
      PROVE  GoesOn(r)
    <2>0. r \in InFlight
        BY <1>d DEF InFlight
    <2>1. CASE fr[r].msg \in DOMAIN rows
        <3> DEFINE f == [fr[r] EXCEPT !.readAt = rows[fr[r].msg].readAt]
        <3>1. Turn(r, p, f)
            BY <1>d, <2>1 DEF Found
        <3>2. rows[fr[r].msg].readAt \in Opt(Requests)
            BY <2>1 DEF BasicInv, TypeOK, Row
        <3>3. f \in Frame
            BY <1>f, <3>2 DEF Frame
        <3>4. /\ f.msg = fr[r].msg /\ f.arg = fr[r].arg /\ f.met = fr[r].met
              /\ f.readAt = rows[fr[r].msg].readAt
            BY <1>f DEF Frame
        <3> HIDE DEF f
        <3>5. p \in Steps \ {"new", "insert"}
            BY DEF Steps
        <3>6. FrameFits(r, p, f)
            BY <1>d, <2>1, <3>4 DEF FrameFits
        <3>7. Typed /\ Control(r) /\ pc'[r] = p /\ fr'[r] = f
            BY <1>d, <1>q, <3>1, <3>3, <3>5, <3>6, QuietTurn
        <3> QED
            BY <1>d, <1>q, <2>0, <2>1, <3>4, <3>7 DEF GoesOn, Keeps
    <2>2. CASE fr[r].msg \notin DOMAIN rows
        BY <1>d, <1>l, <2>0, <2>2 DEF Found
    <2> QED
        BY <2>1, <2>2
<1>1. CASE StaFind(r)
    <2>1. r \in InFlight /\ pc[r] = "staFind" /\ UNCHANGED <<clock, tables, exits>>
        BY <1>1 DEF StaFind, InFlight
    <2>2. CASE fr[r].arg = "REPLIED"
        BY <1>1, <1>l, <2>1, <2>2 DEF StaFind
    <2>3. CASE fr[r].arg # "REPLIED"
        <3>1. Found(r, "staUpdate") /\ fr[r].arg \in Settable
            BY <1>1, <1>f, <2>1, <2>3 DEF StaFind, FrameFits
        <3> QED
            BY <1>d, <2>1, <3>1
    <2> QED
        BY <2>2, <2>3
<1>2. CASE ReadFind(r)
    <2>1. r \in InFlight /\ pc[r] = "readFind" /\ UNCHANGED <<clock, tables, exits>>
        BY <1>2 DEF ReadFind, InFlight
    <2>2. CASE fr[r].msg \in DOMAIN rows /\ ~IsNew(fr[r].msg)
        <3>1. Goto(r, "ok")
            BY <1>2, <2>2 DEF ReadFind
        <3>2. "ok" \in Steps \ {"new", "insert"} /\ FrameFits(r, "ok", fr[r])
            BY DEF Steps, FrameFits
        <3> QED
            BY <1>q, <1>k, <2>1, <3>1, <3>2, QuietGoto DEF GoesOn
    <2>3. CASE ~(fr[r].msg \in DOMAIN rows /\ ~IsNew(fr[r].msg))
        <3>1. Found(r, "readUpdate")
            BY <1>2, <2>3 DEF ReadFind
        <3> QED
            BY <1>d, <2>1, <2>3, <3>1
    <2> QED
        BY <2>2, <2>3
<1>3. CASE RepFind(r)
    <2>1. r \in InFlight /\ pc[r] = "repFind" /\ UNCHANGED <<clock, tables, exits>>
        BY <1>3 DEF RepFind, InFlight
    <2>2. CASE Goto(r, "repInsert") /\ fr[r].msg \in DOMAIN rows
        <3>1. "repInsert" \in Steps \ {"new", "insert"} /\ FrameFits(r, "repInsert", fr[r])
            BY <1>f, <2>1, <2>2 DEF Steps, FrameFits
        <3> QED
            BY <1>q, <2>1, <2>2, <3>1, QuietGoto DEF GoesOn
    <2>3. CASE Leave(r)
        BY <1>l, <2>1, <2>3
    <2> QED
        BY <1>3, <2>2, <2>3 DEF RepFind
<1>4. CASE RepInsert(r)
    <2> DEFINE f == [fr[r] EXCEPT !.at = clock]
    <2>1. /\ r \in InFlight /\ pc[r] = "repInsert" /\ clock' = clock + 1
          /\ Turn(r, "repUpdate", f) /\ UNCHANGED <<tables, exits>>
        BY <1>4 DEF RepInsert, InFlight
    <2>2. clock \in Nat
        BY DEF BasicInv, TypeOK
    <2>3. f \in Frame
        BY <1>f, <2>2 DEF Frame
    <2>4. /\ f.msg = fr[r].msg /\ f.arg = fr[r].arg /\ f.met = fr[r].met
          /\ f.at = clock
        BY <1>f DEF Frame
    <2> HIDE DEF f
    <2>5. "repUpdate" \in Steps \ {"new", "insert"} /\ FrameFits(r, "repUpdate", f)
        BY <1>f, <2>1, <2>4 DEF Steps, FrameFits
    <2>6. Quiet
        BY <2>1, <2>2 DEF Quiet
    <2>7. Typed /\ Control(r) /\ pc'[r] = "repUpdate" /\ fr'[r] = f
        BY <2>1, <2>3, <2>5, <2>6, QuietTurn
    <2> QED
        BY <2>1, <2>4, <2>6, <2>7 DEF GoesOn, Keeps
<1>5. CASE RepUpdate(r)
    <2>1. /\ r \in InFlight /\ pc[r] = "repUpdate" /\ Goto(r, "repCommit")
          /\ UNCHANGED <<clock, tables, exits>>
        BY <1>5 DEF RepUpdate, InFlight
    <2>2. "repCommit" \in Steps \ {"new", "insert"} /\ FrameFits(r, "repCommit", fr[r])
        BY <1>f, <2>1 DEF Steps, FrameFits
    <2> QED
        BY <1>q, <2>1, <2>2, QuietGoto DEF GoesOn
<1>6. CASE Items(r)
    <2> DEFINE S == Matching(fr[r].arg)
               T == Slice(S, fr[r].page * Limit)
               f == [fr[r] EXCEPT !.items = T, !.seen = @ \cup T,
                          !.base = IF fr[r].page = 0 THEN S ELSE @,
                          !.left = IF fr[r].page = 0 THEN Exited(fr[r].arg) ELSE @,
                          !.page = @ + 1]
    <2>1. /\ r \in InFlight /\ pc[r] = "items" /\ Turn(r, "count", f)
          /\ UNCHANGED <<clock, tables, exits>>
        BY <1>6 DEF Items, ReadPage, InFlight
    <2>2. S \subseteq Requests /\ T \subseteq Requests
        BY DEF Matching, Slice, BasicInv, TypeOK
    <2>3. Exited(fr[r].arg) \in Nat
        BY <1>f, <2>1 DEF Exited, FrameFits, BasicInv, TypeOK, Opt
    <2>4. /\ f \in Frame /\ f.msg = fr[r].msg /\ f.arg = fr[r].arg
          /\ f.met = fr[r].met
        <3> DEFINE B == IF fr[r].page = 0 THEN S ELSE fr[r].base
                   n == IF fr[r].page = 0 THEN Exited(fr[r].arg) ELSE fr[r].left
        <3>1. /\ T \in SUBSET Requests /\ B \in SUBSET Requests /\ n \in Nat
              /\ fr[r] \in Frame
            BY <1>f, <2>2, <2>3 DEF Frame
        <3> HIDE DEF S, T, B, n, f
        <3>2. /\ Paged(fr[r], T, B, n) \in Frame
              /\ Paged(fr[r], T, B, n).msg = fr[r].msg
              /\ Paged(fr[r], T, B, n).arg = fr[r].arg
              /\ Paged(fr[r], T, B, n).met = fr[r].met
            BY <3>1, PageType
        <3>3. f = Paged(fr[r], T, B, n)
            BY DEF f, Paged, B, n
        <3> QED
            BY <3>2, <3>3
    <2> HIDE DEF f
    <2>6. "count" \in Steps \ {"new", "insert"} /\ FrameFits(r, "count", f)
        BY <1>f, <2>1, <2>4 DEF Steps, FrameFits
    <2>7. Typed /\ Control(r) /\ pc'[r] = "count" /\ fr'[r] = f
        BY <1>q, <2>1, <2>4, <2>6, QuietTurn
    <2> QED
        BY <1>q, <2>1, <2>4, <2>7 DEF GoesOn, Keeps
<1>7. CASE Count(r)
    <2> DEFINE p == IF fr[r].page < TotalPages(Cardinality(Matching(fr[r].arg)))
                    THEN "items" ELSE "listed"
    <2>1. /\ r \in InFlight /\ pc[r] = "count" /\ Goto(r, p)
          /\ UNCHANGED <<clock, tables, exits>>
        BY <1>7 DEF Count, InFlight
    <2>2. p \in {"items", "listed"}
        OBVIOUS
    <2> HIDE DEF p
    <2>3. p \in Steps \ {"new", "insert"} /\ FrameFits(r, p, fr[r])
        BY <1>f, <2>1, <2>2 DEF Steps, FrameFits
    <2> QED
        BY <1>q, <1>k, <2>1, <2>2, <2>3, QuietGoto DEF GoesOn
<1>8. CASE Answer(r) \/ Throw(r)
    BY <1>8, <1>l DEF Answer, Throw, InFlight
<1> QED
    BY <1>1, <1>2, <1>3, <1>4, <1>5, <1>6, <1>7, <1>8 DEF FindAll

\* The insert of a message.
Inserts(r) ==
    /\ pc[r] = "insert" /\ pc'[r] = "ok" /\ Typed /\ Control(r)
    /\ UNCHANGED <<clock, replies>> /\ Keeps(fr[r], fr'[r])
    /\ r \notin DOMAIN rows /\ DOMAIN rows' = DOMAIN rows \cup {r}
    /\ \A m \in DOMAIN rows : rows'[m] = rows[m]
    /\ rows'[r].status = "NEW" /\ rows'[r].readAt = None
    /\ rows'[r].repliedAt = None /\ rows'[r].lastBy = None

\* Only the row that r works on changes.
OnlyRow(r) ==
    /\ fr[r].msg \in DOMAIN rows /\ DOMAIN rows' = DOMAIN rows
    /\ \A m \in DOMAIN rows \ {fr[r].msg} : rows'[m] = rows[m]

\* The write of status and time of reading.
Writes(r) ==
    LET old == rows[fr[r].msg]
        new == rows'[fr[r].msg]
    IN  /\ pc[r] \in Writing /\ pc'[r] = "ok" /\ fr' = fr /\ Typed /\ Control(r)
        /\ UNCHANGED <<clock, replies>> /\ OnlyRow(r)
        /\ new.status \in Settable /\ new.by = r /\ new.setBy = r
        /\ new.repliedAt = old.repliedAt /\ new.lastBy = old.lastBy
        /\ \/ new.readAt = fr[r].readAt /\ pc[r] = "staUpdate"
           \/ new.readAt = r /\ (pc[r] = "readUpdate" \/ fr[r].readAt = None)

\* The commit of a reply.
Replies(r) ==
    LET old == rows[fr[r].msg]
        new == rows'[fr[r].msg]
    IN  /\ pc[r] = "repCommit" /\ pc'[r] = "ok" /\ fr' = fr /\ Typed /\ Control(r)
        /\ UNCHANGED clock /\ OnlyRow(r)
        /\ new.status = "REPLIED" /\ new.repliedAt = r /\ new.lastBy = fr[r].arg
        /\ new.setBy = r /\ new.readAt = old.readAt /\ new.by = old.by
        /\ r \notin DOMAIN replies /\ DOMAIN replies' = DOMAIN replies \cup {r}
        /\ \A q \in DOMAIN replies : replies'[q] = replies[q]
        /\ replies'[r] = NewReply(r)

\* The type of what With returns.
LEMMA WithInto ==
    ASSUME NEW S, NEW f, NEW x, NEW v \in S, \A y \in DOMAIN f : f[y] \in S
    PROVE  With(f, x, v) \in [DOMAIN f \cup {x} -> S]
BY DEF With

\* The insert of create is one.
LEMMA InsertInserts ==
    ASSUME BasicInv, NEW r \in Requests, Insert(r)
    PROVE  Inserts(r)
<1> DEFINE row == [status |-> "NEW", created |-> fr[r].at, readAt |-> None,
                   repliedAt |-> None, lastBy |-> None, by |-> None, setBy |-> None]
<1>1. /\ pc[r] = "insert" /\ rows' = With(rows, r, row) /\ Goto(r, "ok")
      /\ UNCHANGED <<clock, replies, exits>>
    BY DEF Insert
<1>2. row \in Row
    BY DEF Row, Statuses, Opt, BasicInv, TypeOK, Frame
<1>3. /\ row.status = "NEW" /\ row.readAt = None /\ row.repliedAt = None
      /\ row.lastBy = None
    OBVIOUS
<1> HIDE DEF row
<1>4. /\ DOMAIN rows' = DOMAIN rows \cup {r} /\ rows'[r] = row
      /\ \A m \in DOMAIN rows \ {r} : rows'[m] = rows[m]
      /\ rows' \in [DOMAIN rows \cup {r} -> Row]
    <2>1. \A m \in DOMAIN rows : rows[m] \in Row
        BY DEF BasicInv, TypeOK
    <2>2. With(rows, r, row) \in [DOMAIN rows \cup {r} -> Row]
        BY <1>2, <2>1, WithInto
    <2>3. /\ With(rows, r, row)[r] = row
          /\ \A m \in DOMAIN rows \ {r} : With(rows, r, row)[m] = rows[m]
        BY DEF With
    <2> QED
        BY <1>1, <2>2, <2>3
<1>5. r \notin DOMAIN rows
    BY <1>1 DEF BasicInv, FreshOK
<1>6. Typed
    BY <1>1, <1>4 DEF Typed, RowsOK, RepliesOK, BasicInv, TypeOK
<1>7. /\ pc' = [pc EXCEPT ![r] = "ok"] /\ fr' \in [Requests -> Frame] /\ pc'[r] = "ok"
      /\ fr'[r] = fr[r] /\ Others(r) /\ "ok" \in Steps
    <2>1. Turn(r, "ok", fr[r]) /\ fr[r] \in Frame /\ "ok" \in Steps
        BY <1>1, GotoTurn DEF Steps
    <2> QED
        BY <2>1, TurnMoves
<1>8. Control(r)
    <2>1. FrameFits(r, pc[r], fr[r])'
        BY <1>7 DEF FrameFits, Seeking, Writing, Replying, Stamped
    <2> QED
        BY <1>1, <1>4, <1>7, <2>1, ControlKept
<1> QED
    BY <1>1, <1>3, <1>4, <1>5, <1>6, <1>7, <1>8 DEF Inserts, Keeps

\* An update of the row that r works on, which ends the handler.
LEMMA UpdateTyped ==
    ASSUME BasicInv, NEW r \in Requests, pc[r] \in Writing \cup {"repCommit"},
           NEW row \in Row, Update(fr[r].msg, row), Goto(r, "ok"), UNCHANGED clock
    PROVE  /\ RowsOK' /\ exits' \in [Statuses -> Nat] /\ OnlyRow(r)
           /\ rows'[fr[r].msg] = row /\ pc'[r] = "ok" /\ fr' = fr
           /\ (RepliesOK' => Typed)
           /\ (DOMAIN replies' \subseteq DOMAIN replies \cup {r} => Control(r))
<1> DEFINE m == fr[r].msg
<1>1. m \in DOMAIN rows
    BY DEF BasicInv, FramesOK, FrameFits, Replying, Stamped
<1>2. rows' = [rows EXCEPT ![m] = row]
    BY DEF Update
<1>3. /\ RowsOK' /\ DOMAIN rows' = DOMAIN rows /\ rows'[m] = row
      /\ \A x \in DOMAIN rows \ {m} : rows'[x] = rows[x]
    BY <1>1, <1>2 DEF RowsOK, BasicInv, TypeOK
<1>4. exits' \in [Statuses -> Nat]
    <2>1. rows[m].status \in Statuses
        BY <1>1 DEF BasicInv, TypeOK, Row
    <2>2. exits[rows[m].status] + 1 \in Nat
        BY <2>1 DEF BasicInv, TypeOK
    <2> QED
        BY <2>1, <2>2 DEF Update, BasicInv, TypeOK
<1>5. /\ pc' = [pc EXCEPT ![r] = "ok"] /\ fr' \in [Requests -> Frame]
      /\ pc'[r] = "ok" /\ fr' = fr /\ Others(r) /\ "ok" \in Steps
    <2>1. Turn(r, "ok", fr[r]) /\ fr[r] \in Frame /\ fr' = fr /\ "ok" \in Steps
        BY GotoTurn DEF Goto, Steps
    <2> QED
        BY <2>1, TurnMoves
<1>6. FrameFits(r, pc[r], fr[r])'
    BY <1>5 DEF FrameFits, Seeking, Writing, Replying, Stamped
<1>7. RepliesOK' => Typed
    BY <1>3, <1>4 DEF Typed, BasicInv, TypeOK
<1>8. DOMAIN replies' \subseteq DOMAIN replies \cup {r} => Control(r)
    BY <1>3, <1>5, <1>6, ControlKept
<1>9. OnlyRow(r)
    BY <1>1, <1>3 DEF OnlyRow
<1> QED
    BY <1>3, <1>4, <1>5, <1>7, <1>8, <1>9

\* The updates of updateStatus and markAsRead are such writes.
LEMMA WritersWrite ==
    ASSUME BasicInv, NEW r \in Requests, StaUpdate(r) \/ ReadUpdate(r)
    PROVE  Writes(r)
<1> DEFINE m == fr[r].msg
           old == rows[m]
<1>f. fr[r] \in Frame /\ FrameFits(r, pc[r], fr[r])
    BY DEF BasicInv, TypeOK, FramesOK
<1>g. UNCHANGED replies /\ DOMAIN rows \subseteq DOMAIN rows' => RepliesOK'
    BY DEF BasicInv, TypeOK, RepliesOK
<1>w. ASSUME NEW s \in Settable, NEW t \in Opt(Requests), pc[r] \in Writing,
             Update(m, [old EXCEPT !.status = s, !.readAt = t, !.by = r, !.setBy = r]),
             Goto(r, "ok"), UNCHANGED <<clock, replies>>,
             \/ t = fr[r].readAt /\ pc[r] = "staUpdate"
             \/ t = r /\ (pc[r] = "readUpdate" \/ fr[r].readAt = None)
      PROVE  Writes(r)
    <2> DEFINE row == [old EXCEPT !.status = s, !.readAt = t, !.by = r, !.setBy = r]
    <2>1. old \in Row
        BY <1>f, <1>w DEF FrameFits, BasicInv, TypeOK
    <2>2. row \in Row
        BY <2>1 DEF Row, Statuses, Opt
    <2>3. /\ row.status = s /\ row.readAt = t /\ row.by = r /\ row.setBy = r
          /\ row.repliedAt = old.repliedAt /\ row.lastBy = old.lastBy
        BY <2>1 DEF Row
    <2>4. Update(fr[r].msg, row)
        BY <1>w
    <2> HIDE DEF row
    <2>5. /\ OnlyRow(r) /\ rows'[fr[r].msg] = row /\ pc'[r] = "ok" /\ fr' = fr
          /\ (RepliesOK' => Typed) /\ Control(r)
        BY <1>w, <2>2, <2>4, UpdateTyped
    <2>6. Typed
        BY <1>g, <1>w, <2>5 DEF OnlyRow
    <2> QED
        BY <1>w, <2>3, <2>5, <2>6 DEF Writes
<1>1. CASE StaUpdate(r)
    <2> DEFINE t == IF fr[r].arg = "READ" /\ fr[r].readAt = None THEN r ELSE fr[r].readAt
    <2>1. /\ pc[r] = "staUpdate" /\ Goto(r, "ok") /\ UNCHANGED <<clock, replies>>
          /\ Update(m, [old EXCEPT !.status = fr[r].arg, !.readAt = t, !.by = r,
                                   !.setBy = r])
        BY <1>1 DEF StaUpdate, SetStatus
    <2>2. fr[r].arg \in Settable /\ t \in Opt(Requests)
        BY <1>f, <2>1 DEF FrameFits, Frame, Opt
    <2>3. \/ t = fr[r].readAt
          \/ t = r /\ fr[r].readAt = None
        OBVIOUS
    <2> HIDE DEF t
    <2> QED
        BY <1>w, <2>1, <2>2, <2>3 DEF Writing
<1>2. CASE ReadUpdate(r)
    <2>1. /\ pc[r] = "readUpdate" /\ Goto(r, "ok") /\ UNCHANGED <<clock, replies>>
          /\ Update(m, [old EXCEPT !.status = "READ", !.readAt = r, !.by = r,
                                   !.setBy = r])
        BY <1>2 DEF ReadUpdate
    <2>2. "READ" \in Settable /\ r \in Opt(Requests)
        BY DEF Settable, Opt
    <2> QED
        BY <1>w, <2>1, <2>2 DEF Writing
<1> QED
    BY <1>1, <1>2

\* The commit of replyToMessage is one.
LEMMA CommitReplies ==
    ASSUME BasicInv, NEW r \in Requests, RepCommit(r)
    PROVE  Replies(r)
<1> DEFINE m == fr[r].msg
           old == rows[m]
           row == [old EXCEPT !.status = "REPLIED", !.repliedAt = r, !.lastBy = fr[r].arg,
                           !.setBy = r]
<1>1. /\ pc[r] = "repCommit" /\ replies' = With(replies, r, NewReply(r))
      /\ Update(m, row) /\ Goto(r, "ok") /\ UNCHANGED clock
    BY DEF RepCommit, Commits
<1>2. fr[r] \in Frame /\ FrameFits(r, pc[r], fr[r]) /\ r \notin DOMAIN replies
    BY <1>1 DEF BasicInv, TypeOK, FramesOK, FreshOK
<1>3. m \in DOMAIN rows /\ fr[r].arg \in Admins /\ m \in Requests
    BY <1>1, <1>2 DEF FrameFits, Replying, Stamped, BasicInv, TypeOK
<1>4. old \in Row
    BY <1>3 DEF BasicInv, TypeOK
<1>5. row \in Row
    BY <1>3, <1>4 DEF Row, Statuses, Opt
<1>6. /\ row.status = "REPLIED" /\ row.repliedAt = r /\ row.lastBy = fr[r].arg
      /\ row.setBy = r /\ row.readAt = old.readAt /\ row.by = old.by
    BY <1>4 DEF Row
<1> HIDE DEF row
<1>7. NewReply(r) \in Reply /\ NewReply(r).to = m
    BY <1>2, <1>3 DEF NewReply, Reply, Frame
<1>8. /\ DOMAIN replies' = DOMAIN replies \cup {r} /\ replies'[r] = NewReply(r)
      /\ \A q \in DOMAIN replies : replies'[q] = replies[q]
      /\ replies' \in [DOMAIN replies \cup {r} -> Reply]
    <2>1. \A q \in DOMAIN replies : replies[q] \in Reply
        BY DEF BasicInv, TypeOK
    <2>2. With(replies, r, NewReply(r)) \in [DOMAIN replies \cup {r} -> Reply]
        BY <1>7, <2>1, WithInto
    <2>3. /\ With(replies, r, NewReply(r))[r] = NewReply(r)
          /\ \A q \in DOMAIN replies \ {r} :
                With(replies, r, NewReply(r))[q] = replies[q]
        BY DEF With
    <2> QED
        BY <1>1, <1>2, <2>2, <2>3
<1>9. /\ OnlyRow(r) /\ rows'[fr[r].msg] = row /\ pc'[r] = "ok" /\ fr' = fr
      /\ (RepliesOK' => Typed) /\ Control(r)
    BY <1>1, <1>5, <1>8, UpdateTyped
<1>10. RepliesOK'
    BY <1>3, <1>7, <1>8, <1>9 DEF RepliesOK, OnlyRow, BasicInv, TypeOK
<1> QED
    BY <1>1, <1>2, <1>6, <1>8, <1>9, <1>10 DEF Replies

\* Every step is of one of these kinds.
LEMMA StepKinds ==
    ASSUME BasicInv, [Next]_vars
    PROVE  \/ UNCHANGED vars
           \/ \E r \in Requests :
                 Comes(r) \/ GoesOn(r) \/ Inserts(r) \/ Writes(r) \/ Replies(r)
BY ArriveComes, ReadersGoOn, InsertInserts, WritersWrite, CommitReplies
   DEF Next, Finished, UpdateStatus, MarkAsRead, ReplyTo

\* The basic invariant is kept.
LEMMA NextBasic == BasicInv /\ [Next]_vars => BasicInv'
<1> SUFFICES ASSUME BasicInv, [Next]_vars PROVE BasicInv'
    OBVIOUS
<1>1. ASSUME NEW r \in Requests, Typed, Control(r) PROVE BasicInv'
    BY <1>1 DEF Typed, Control, BasicInv, TypeOK, RowsOK, RepliesOK
<1>2. CASE UNCHANGED vars
    BY <1>2 DEF vars, tables, BasicInv, TypeOK, FramesOK, FrameFits, FreshOK
<1> QED
    BY <1>1, <1>2, StepKinds DEF Comes, GoesOn, Inserts, Writes, Replies

\* Types: tables, frames and control state keep their types, for any requests,
\* administrators and size of a page.
THEOREM MessagesTypes == Spec => []TypeOK
<1>1. BasicInv => TypeOK
    BY DEF BasicInv
<1> QED
    BY <1>1, InitBasic, NextBasic, PTL DEF Spec
-----------------------------------------------------------------------------
(* Who has met whom, and what was done to a message that was found new.      *)

\* Init establishes the invariant of the threads.
LEMMA InitThread == Init => ThreadInv
BY DEF Init, ThreadInv, MetOK, GivenOK, ReadOK, StampOK, ThreadConsistent, InFlight,
       IsNew, NoRows, Writing, Stamped, RepliesOf

\* What each kind of step is to control.
LEMMA Control1 ==
    ASSUME BasicInv, NEW r \in Requests,
           Comes(r) \/ GoesOn(r) \/ Inserts(r) \/ Writes(r) \/ Replies(r)
    PROVE  /\ Others(r)
           /\ \/ Comes(r)
              \/ r \in InFlight /\ pc'[r] = "done"
              \/ r \in InFlight /\ Keeps(fr[r], fr'[r])
BY DEF Comes, GoesOn, Inserts, Writes, Replies, Control, Keeps, InFlight, Writing,
       Quiet, tables

\* Two requests at work together meet when the second comes in.
LEMMA NextMet == ASSUME BasicInv, MetOK, [Next]_vars PROVE MetOK'
<1>1. CASE UNCHANGED vars
    BY <1>1 DEF vars, MetOK, InFlight
<1>2. ASSUME NEW r \in Requests,
             Comes(r) \/ GoesOn(r) \/ Inserts(r) \/ Writes(r) \/ Replies(r),
             NEW p \in InFlight', NEW q \in InFlight', p # q,
             fr'[p].msg = fr'[q].msg
      PROVE  p \in fr'[q].met
    <2>0. p \in Requests /\ q \in Requests
        BY DEF InFlight
    <2>1. /\ \A x \in Requests \ {r} : pc'[x] = pc[x] /\ Stays(fr[x], fr'[x])
          /\ \/ Comes(r)
             \/ r \in InFlight /\ pc'[r] = "done"
             \/ r \in InFlight /\ Keeps(fr[r], fr'[r])
        BY <1>2, Control1 DEF Others
    <2>2. \A x \in Requests \ {r} : x \in InFlight' => x \in InFlight
        BY <2>1 DEF InFlight
    <2>3. CASE Comes(r)
        <3>1. CASE p = r
            <4>1. q \in AtWork(fr'[r].msg)
                BY <1>2, <2>0, <2>1, <2>2, <3>1 DEF AtWork, Stays, Keeps
            <4> QED
                BY <2>3, <3>1, <4>1 DEF Comes
        <3>2. CASE q = r
            <4>1. p \in AtWork(fr'[r].msg)
                BY <1>2, <2>0, <2>1, <2>2, <3>2 DEF AtWork, Stays, Keeps
            <4> QED
                BY <2>3, <3>2, <4>1 DEF Comes
        <3>3. CASE p # r /\ q # r
            BY <1>2, <2>0, <2>1, <2>2, <3>3 DEF MetOK, Stays, Keeps
        <3> QED
            BY <3>1, <3>2, <3>3
    <2>4. CASE r \in InFlight /\ pc'[r] = "done"
        <3>1. p # r /\ q # r
            BY <2>4 DEF InFlight
        <3> QED
            BY <1>2, <2>0, <2>1, <2>2, <3>1 DEF MetOK, Stays, Keeps
    <2>5. CASE r \in InFlight /\ Keeps(fr[r], fr'[r])
        <3>1. \A x \in Requests : x \in InFlight' => x \in InFlight /\ Keeps(fr[x], fr'[x])
            BY <2>1, <2>2, <2>5 DEF Stays
        <3> QED
            BY <1>2, <2>0, <3>1 DEF MetOK, Keeps
    <2> QED
        BY <2>1, <2>3, <2>4, <2>5
<1> QED
    BY <1>1, <1>2, StepKinds DEF MetOK

\* Who gave a status to a message found new was met by who found it.
LEMMA NextGiven == ASSUME BasicInv, MetOK, GivenOK, [Next]_vars PROVE GivenOK'
<1>1. CASE UNCHANGED vars
    BY <1>1 DEF vars, tables, GivenOK
<1>2. ASSUME NEW r \in Requests,
             Comes(r) \/ GoesOn(r) \/ Inserts(r) \/ Writes(r) \/ Replies(r),
             NEW q \in Requests, pc'[q] = "readUpdate"
      PROVE  \/ rows'[fr'[q].msg].status = "NEW"
             \/ rows'[fr'[q].msg].setBy \in fr'[q].met
    <2> DEFINE m == fr[q].msg
    <2>1. CASE q # r
        <3>1. pc'[q] = pc[q] /\ fr'[q].msg = m /\ fr[q].met \subseteq fr'[q].met
            BY <1>2, <2>1, Control1 DEF Others, Stays, Keeps
        <3>2. m \in DOMAIN rows
            BY <1>2, <3>1 DEF BasicInv, FramesOK, FrameFits, Writing
        <3>3. CASE rows'[m].status = rows[m].status /\ rows'[m].setBy = rows[m].setBy
            BY <1>2, <3>1, <3>3 DEF GivenOK
        <3>4. CASE (Writes(r) \/ Replies(r)) /\ fr[r].msg = m
            <4>1. r \in InFlight /\ q \in InFlight
                BY <1>2, <3>1, <3>4 DEF Writes, Replies, InFlight, Writing
            <4>2. r \in fr[q].met
                BY <2>1, <3>4, <4>1 DEF MetOK
            <4> QED
                BY <3>1, <3>4, <4>2 DEF Writes, Replies
        <3> QED
            BY <1>2, <3>2, <3>3, <3>4 DEF Comes, GoesOn, Quiet, tables, Inserts, Writes,
                Replies, OnlyRow
    <2>2. CASE q = r
        <3>1. GoesOn(r) /\ pc'[r] \in Writing
            BY <1>2, <2>2 DEF Comes, Inserts, Writes, Replies, Seeking, Writing
        <3>2. IsNew(m) /\ fr'[r].msg = m /\ rows' = rows
            BY <1>2, <2>2, <3>1 DEF GoesOn, Writing, Keeps, Quiet, tables
        <3> QED
            BY <2>2, <3>2 DEF IsNew
    <2> QED
        BY <2>1, <2>2
<1> QED
    BY <1>1, <1>2, StepKinds DEF GivenOK

\* Marking as read replaces a status other than NEW only if a request that was
\* at work together with the marking gave it, for any number of requests.
THEOREM MarksLoseOnlyOverlaps == Spec => MarkLosesOnlyOverlaps
<1> DEFINE A == \A r \in Requests :
                    LET m == fr[r].msg IN
                    pc[r] = "readUpdate" /\ pc'[r] = "ok" =>
                        rows[m].status = "NEW" \/ rows[m].setBy \in fr[r].met
<1>1. Init => MetOK /\ GivenOK
    BY InitThread DEF ThreadInv
<1>2. GivenOK => [A]_vars
    BY DEF GivenOK
<1> QED
    BY <1>1, <1>2, InitBasic, NextBasic, NextMet, NextGiven, PTL
       DEF Spec, MarkLosesOnlyOverlaps
-----------------------------------------------------------------------------
(* The time of reading.                                                     *)

\* The time of reading is the one found, or its writer was met.
LEMMA NextRead == ASSUME BasicInv, MetOK, ReadOK, [Next]_vars PROVE ReadOK'
<1>1. CASE UNCHANGED vars
    BY <1>1 DEF vars, tables, ReadOK
<1>2. ASSUME NEW r \in Requests,
             Comes(r) \/ GoesOn(r) \/ Inserts(r) \/ Writes(r) \/ Replies(r)
      PROVE  ReadOK'
    <2>1. ASSUME NEW m \in DOMAIN rows', rows'[m].status = "NEW"
          PROVE  rows'[m].readAt = None
        BY <1>2, <2>1 DEF Comes, GoesOn, Quiet, tables, Inserts, Writes, Replies,
            OnlyRow, Settable, ReadOK
    <2>2. ASSUME NEW q \in Requests, pc'[q] = "readUpdate"
          PROVE  fr'[q].readAt = None
        <3>1. CASE q # r
            BY <1>2, <2>2, <3>1, Control1 DEF Others, Stays, ReadOK
        <3>2. CASE q = r
            <4>1. GoesOn(r) /\ pc'[r] \in Writing
                BY <1>2, <2>2, <3>2 DEF Comes, Inserts, Writes, Replies, Seeking, Writing
            <4>2. fr'[r].readAt = rows[fr[r].msg].readAt /\ IsNew(fr[r].msg)
                BY <2>2, <3>2, <4>1 DEF GoesOn, Writing
            <4> QED
                BY <3>2, <4>2 DEF IsNew, ReadOK
        <3> QED
            BY <3>1, <3>2
    <2>3. ASSUME NEW q \in Requests, pc'[q] \in Writing
          PROVE  \/ rows'[fr'[q].msg].readAt \in {None, fr'[q].readAt}
                 \/ rows'[fr'[q].msg].by \in fr'[q].met
        <3> DEFINE m == fr[q].msg
        <3>1. CASE q # r
            <4>1. /\ pc'[q] = pc[q] /\ fr'[q].msg = m /\ fr'[q].readAt = fr[q].readAt
                  /\ fr[q].met \subseteq fr'[q].met
                BY <1>2, <3>1, Control1 DEF Others, Stays, Keeps
            <4>2. m \in DOMAIN rows
                BY <2>3, <4>1 DEF BasicInv, FramesOK, FrameFits
            <4>3. CASE /\ rows'[m].readAt = rows[m].readAt
                       /\ rows'[m].by = rows[m].by
                BY <2>3, <4>1, <4>3 DEF ReadOK
            <4>4. CASE Writes(r) /\ fr[r].msg = m
                <5>1. r \in InFlight /\ q \in InFlight
                    BY <2>3, <4>1, <4>4 DEF Writes, InFlight, Writing
                <5>2. r \in fr[q].met
                    BY <3>1, <4>4, <5>1 DEF MetOK
                <5> QED
                    BY <4>1, <4>4, <5>2 DEF Writes
            <4> QED
                BY <1>2, <4>2, <4>3, <4>4 DEF Comes, GoesOn, Quiet, tables, Inserts,
                    Writes, Replies, OnlyRow
        <3>2. CASE q = r
            <4>1. GoesOn(r) /\ pc'[r] \in Writing
                BY <1>2, <2>3, <3>2 DEF Comes, Inserts, Writes, Replies, Seeking, Writing
            <4>2. fr'[r].readAt = rows[m].readAt /\ fr'[r].msg = m /\ rows' = rows
                BY <3>2, <4>1 DEF GoesOn, Writing, Keeps, Quiet, tables
            <4> QED
                BY <3>2, <4>2
        <3> QED
            BY <3>1, <3>2
    <2> QED
        BY <2>1, <2>2, <2>3 DEF ReadOK
<1> QED
    BY <1>1, <1>2, StepKinds

\* Each step keeps the times of reading, but for a write that has met the last.
LEMMA ReadSteps ==
    ASSUME BasicInv, ReadOK, [Next]_vars, NEW m \in DOMAIN rows,
           rows[m].readAt \notin {None, rows'[m].readAt}
    PROVE  \E r \in Requests : /\ pc'[r] # pc[r] /\ fr[r].msg = m
                               /\ rows[m].by \in fr[r].met
<1>1. ~ UNCHANGED vars
    BY DEF vars, tables
<1>2. PICK r \in Requests :
            Comes(r) \/ GoesOn(r) \/ Inserts(r) \/ Writes(r) \/ Replies(r)
    BY <1>1, StepKinds
<1>3. Writes(r) /\ fr[r].msg = m
    BY <1>2 DEF Comes, GoesOn, Quiet, tables, Inserts, Writes, Replies, OnlyRow
<1>4. pc[r] \in Writing /\ pc'[r] # pc[r]
    BY <1>3 DEF Writes, Writing
<1>5. rows[m].readAt # fr[r].readAt
    BY <1>3, <1>4 DEF Writes, Writing, ReadOK
<1> QED
    BY <1>3, <1>4, <1>5 DEF ReadOK

\* A time of reading is replaced or lost only by a request that was at work
\* together with the one that wrote it, for any number of requests.
THEOREM ReadTimesKept == Spec => ReadTimeKept
<1> DEFINE A == \A m \in DOMAIN rows :
                    rows[m].readAt \notin {None, rows'[m].readAt} =>
                        \E r \in Requests : /\ pc'[r] # pc[r] /\ fr[r].msg = m
                                            /\ rows[m].by \in fr[r].met
<1>1. Init => MetOK /\ ReadOK
    BY InitThread DEF ThreadInv
<1>2. BasicInv /\ ReadOK /\ [Next]_vars => [A]_vars
    BY ReadSteps
<1> QED
    BY <1>1, <1>2, InitBasic, NextBasic, NextMet, NextRead, PTL DEF Spec, ReadTimeKept
-----------------------------------------------------------------------------
(* The thread of a message: its replies and what the message says of them.  *)

\* A reply stamped before another commits was met by it.
LEMMA NextStamp == ASSUME BasicInv, MetOK, StampOK, [Next]_vars PROVE StampOK'
<1>0. /\ \A q \in DOMAIN replies : replies[q].at \in Nat
      /\ \A q \in Requests : fr[q].at \in Nat
      /\ clock \in Nat
    BY DEF BasicInv, TypeOK, Reply, Frame
<1>1. CASE UNCHANGED vars
    BY <1>1 DEF vars, tables, StampOK
<1>2. ASSUME NEW r \in Requests,
             Comes(r) \/ GoesOn(r) \/ Inserts(r) \/ Writes(r) \/ Replies(r)
      PROVE  StampOK'
    <2>0. clock' \in Nat /\ clock <= clock'
        BY <1>2 DEF Comes, GoesOn, Inserts, Writes, Replies, Typed
    <2>1. CASE Replies(r)
        <3>1. /\ pc[r] = "repCommit" /\ pc'[r] = "ok" /\ fr' = fr /\ clock' = clock
              /\ DOMAIN replies' = DOMAIN replies \cup {r}
              /\ \A q \in DOMAIN replies : replies'[q] = replies[q]
              /\ replies'[r] = NewReply(r) /\ r \notin DOMAIN replies
            BY <2>1 DEF Replies
        <3>2. \A q \in Requests \ {r} : pc'[q] = pc[q]
            BY <1>2, Control1 DEF Others
        <3>3. /\ NewReply(r).at = fr[r].at /\ NewReply(r).met = fr[r].met
              /\ NewReply(r).to = fr[r].msg
            BY DEF NewReply
        <3>4. fr[r].at < clock
            BY <3>1 DEF StampOK, Stamped
        <3>5. ASSUME NEW q \in Requests, pc'[q] \in Stamped,
                     NewReply(r).to = fr[q].msg
              PROVE  q \in fr[r].met
            BY <3>1, <3>2, <3>3, <3>5 DEF MetOK, InFlight, Stamped
        <3>6. ASSUME NEW q \in Requests, pc'[q] \in Stamped
              PROVE  pc[q] \in Stamped
            BY <3>1, <3>2, <3>6 DEF Stamped
        <3> QED
            BY <3>1, <3>3, <3>4, <3>5, <3>6 DEF StampOK
    <2>2. CASE ~Replies(r)
        <3>1. replies' = replies
            BY <1>2, <2>2 DEF Comes, GoesOn, Quiet, tables, Inserts, Writes
        <3>2. ASSUME NEW q \in Requests, pc'[q] \in Stamped
              PROVE  /\ fr'[q].at < clock'
                     /\ \/ pc[q] \in Stamped /\ fr'[q].msg = fr[q].msg /\ fr'[q].at = fr[q].at
                        \/ fr'[q].at = clock
            <4>1. CASE q # r
                BY <1>0, <1>2, <2>0, <3>2, <4>1, Control1 DEF Others, Stays, Keeps, StampOK
            <4>2. CASE q = r
                <5>1. GoesOn(r) /\ pc'[r] \in Stamped
                    BY <1>2, <2>2, <3>2, <4>2 DEF Comes, Inserts, Writes, Seeking, Stamped
                <5>2. CASE fr'[r].at = clock /\ clock' = clock + 1
                    BY <1>0, <4>2, <5>2
                <5>3. CASE pc[r] = "repUpdate" /\ fr'[r] = fr[r]
                    BY <1>0, <2>0, <4>2, <5>3 DEF StampOK, Stamped
                <5> QED
                    BY <5>1, <5>2, <5>3 DEF GoesOn, Stamped, Writing
            <4> QED
                BY <4>1, <4>2
        <3>3. \A q \in DOMAIN replies : replies[q].at < clock'
            BY <1>0, <2>0 DEF StampOK
        <3>4. ASSUME NEW n \in DOMAIN replies, NEW q \in Requests, pc'[q] \in Stamped,
                     replies[n].to = fr'[q].msg, fr'[q].at <= replies[n].at
              PROVE  q \in replies[n].met
            <4>1. replies[n].at < clock
                BY DEF StampOK
            <4>2. fr'[q].at # clock
                BY <1>0, <3>4, <4>1
            <4> QED
                BY <3>2, <3>4, <4>2 DEF StampOK
        <3> QED
            BY <3>1, <3>2, <3>3, <3>4 DEF StampOK
    <2> QED
        BY <2>1, <2>2
<1> QED
    BY <1>1, <1>2, StepKinds

\* What a message says of its replies.
ThreadOf(m) ==
    /\ rows[m].repliedAt # None <=> RepliesOf(m) # {}
    /\ rows[m].lastBy # None <=> RepliesOf(m) # {}
    /\ \A n \in RepliesOf(m) :
          (\A q \in RepliesOf(m) : replies[q].at <= replies[n].at) =>
              \E q \in RepliesOf(m) : /\ replies[q].author = rows[m].lastBy
                                      /\ q \in replies[n].met \cup {n}

\* A message keeps its replies in a step that commits none to it.
LEMMA SameThread ==
    ASSUME NEW m, ThreadOf(m), RepliesOf(m)' = RepliesOf(m),
           \A q \in RepliesOf(m) : replies'[q] = replies[q],
           rows'[m].repliedAt = rows[m].repliedAt, rows'[m].lastBy = rows[m].lastBy
    PROVE  ThreadOf(m)'
BY DEF ThreadOf

\* A message agrees with its replies after every step.
LEMMA NextThread ==
    ASSUME BasicInv, StampOK, ThreadConsistent, [Next]_vars
    PROVE  ThreadConsistent'
<1>1. CASE UNCHANGED vars
    BY <1>1 DEF vars, tables, ThreadConsistent, RepliesOf
<1>2. ASSUME NEW r \in Requests, NEW m \in DOMAIN rows',
             Comes(r) \/ GoesOn(r) \/ Inserts(r) \/ Writes(r) \/ Replies(r)
      PROVE  ThreadOf(m)'
    <2>1. CASE m \in DOMAIN rows /\ ~(Replies(r) /\ m = fr[r].msg)
        <3>1. /\ rows'[m].repliedAt = rows[m].repliedAt
              /\ rows'[m].lastBy = rows[m].lastBy
            BY <1>2, <2>1 DEF Comes, GoesOn, Quiet, tables, Inserts, Writes, Replies,
                OnlyRow
        <3>2. CASE replies' = replies
            BY <2>1, <3>1, <3>2, SameThread DEF ThreadConsistent, ThreadOf, RepliesOf
        <3>3. CASE Replies(r)
            <4>1. /\ DOMAIN replies' = DOMAIN replies \cup {r}
                  /\ \A q \in DOMAIN replies : replies'[q] = replies[q]
                  /\ replies'[r].to = fr[r].msg
                BY <3>3 DEF Replies, NewReply
            <4>2. RepliesOf(m)' = RepliesOf(m)
                BY <2>1, <3>3, <4>1 DEF RepliesOf
            <4>3. \A q \in RepliesOf(m) : replies'[q] = replies[q]
                BY <4>1 DEF RepliesOf
            <4>4. ThreadOf(m)
                BY <2>1 DEF ThreadConsistent, ThreadOf
            <4> QED
                BY <3>1, <4>2, <4>3, <4>4, SameThread
        <3> QED
            BY <1>2, <3>2, <3>3 DEF Comes, GoesOn, Quiet, tables, Inserts, Writes
    <2>2. CASE m \notin DOMAIN rows
        <3>1. /\ Inserts(r) /\ m = r /\ replies' = replies
              /\ rows'[m].repliedAt = None /\ rows'[m].lastBy = None
            BY <1>2, <2>2 DEF Comes, GoesOn, Quiet, tables, Inserts, Writes, Replies,
                OnlyRow
        <3>2. RepliesOf(m)' = {}
            BY <2>2, <3>1 DEF RepliesOf, BasicInv, TypeOK
        <3> QED
            BY <3>1, <3>2 DEF ThreadOf
    <2>3. CASE Replies(r) /\ m = fr[r].msg
        <3>1. /\ pc[r] = "repCommit" /\ rows'[m].repliedAt = r
              /\ rows'[m].lastBy = fr[r].arg
              /\ DOMAIN replies' = DOMAIN replies \cup {r}
              /\ \A q \in DOMAIN replies : replies'[q] = replies[q]
              /\ replies'[r].to = m /\ replies'[r].author = fr[r].arg
              /\ replies'[r].at = fr[r].at
            BY <2>3 DEF Replies, NewReply
        <3>2. r \in RepliesOf(m)' /\ RepliesOf(m)' \subseteq DOMAIN replies \cup {r}
            BY <3>1 DEF RepliesOf
        <3>3. r # None /\ fr[r].arg # None
            BY <3>1 DEF BasicInv, FramesOK, FrameFits, Replying, Stamped
        <3>4. ASSUME NEW n \in RepliesOf(m)',
                     \A q \in RepliesOf(m)' : replies'[q].at <= replies'[n].at
              PROVE  r \in replies'[n].met \cup {n}
            <4>1. CASE n # r
                <5>1. n \in DOMAIN replies /\ replies[n].to = m
                    BY <3>1, <3>2, <4>1 DEF RepliesOf
                <5>2. fr[r].at <= replies[n].at
                    BY <3>1, <3>2, <3>4, <5>1
                <5> QED
                    BY <2>3, <3>1, <5>1, <5>2 DEF StampOK, Stamped
            <4> QED
                BY <4>1
        <3> QED
            BY <3>1, <3>2, <3>3, <3>4 DEF ThreadOf
    <2> QED
        BY <2>1, <2>2, <2>3
<1> QED
    BY <1>1, <1>2, StepKinds DEF ThreadConsistent, ThreadOf

\* A message has a reply time and a last replier exactly when it has replies,
\* and the last replier is the author of the newest, or of one at work with it.
THEOREM ThreadsConsistent == Spec => []ThreadConsistent
<1>1. Init => MetOK /\ StampOK /\ ThreadConsistent
    BY InitThread DEF ThreadInv
<1> QED
    BY <1>1, InitBasic, NextBasic, NextMet, NextStamp, NextThread, PTL DEF Spec
-----------------------------------------------------------------------------
(* The handlers implement the abstract specification.                       *)

\* What the abstract specification sees.
StatusMap == [m \in Requests |-> IF m \in DOMAIN rows THEN rows[m].status ELSE None]
LastMap   == [m \in Requests |-> IF m \in DOMAIN rows THEN rows[m].lastBy ELSE None]
RepliesTo(m) == {[id |-> q, author |-> replies[q].author] : q \in RepliesOf(m)}
ReplyMap  == [m \in Requests |-> RepliesTo(m)]

\* The insert of a message is its creation.
LEMMA InsertCreates ==
    ASSUME BasicInv, NEW r \in Requests, Inserts(r)
    PROVE  Thread!Create(r)
<1>1. r \notin DOMAIN rows /\ DOMAIN rows' = DOMAIN rows \cup {r}
    BY DEF Inserts
<1>2. StatusMap[r] = None
    BY <1>1 DEF StatusMap
<1>3. StatusMap' = [StatusMap EXCEPT ![r] = "NEW"]
    BY <1>1 DEF StatusMap, Inserts
<1>4. LastMap' = LastMap
    BY <1>1 DEF LastMap, Inserts
<1>5. ReplyMap' = ReplyMap
    BY DEF ReplyMap, RepliesTo, RepliesOf, Inserts
<1> QED
    BY <1>2, <1>3, <1>4, <1>5
       DEF Thread!Create, StatusMap, LastMap, ReplyMap, RepliesTo

\* The updates of updateStatus and markAsRead mark it.
LEMMA WriteMarks ==
    ASSUME BasicInv, NEW r \in Requests, Writes(r)
    PROVE  \E m \in Requests : Thread!Mark(m)
<1>0. fr[r].msg \in Requests
    BY DEF Writes, OnlyRow, BasicInv, TypeOK
<1> PICK m \in Requests : m = fr[r].msg
    BY <1>0
<1> DEFINE s == rows'[m].status
<1>1. /\ m \in DOMAIN rows /\ DOMAIN rows' = DOMAIN rows
      /\ rows[m].status # None
      /\ \A x \in DOMAIN rows \ {m} : rows'[x] = rows[x]
    BY DEF Writes, OnlyRow, BasicInv, TypeOK, Row
<1>2. s \in {"READ", "ARCHIVED", "SPAM"} /\ rows'[m].lastBy = rows[m].lastBy
    BY DEF Writes, Settable
<1>3. StatusMap[m] # None
    BY <1>1 DEF StatusMap
<1>4. StatusMap' = [StatusMap EXCEPT ![m] = s]
    BY <1>1 DEF StatusMap
<1>5. LastMap' = LastMap
    BY <1>1, <1>2 DEF LastMap
<1>6. ReplyMap' = ReplyMap
    BY DEF ReplyMap, RepliesTo, RepliesOf, Writes
<1> QED
    BY <1>1, <1>2, <1>3, <1>4, <1>5, <1>6
       DEF Thread!Mark, StatusMap, LastMap, ReplyMap, RepliesTo

\* The commit of a reply shows the reply, its status and its author at once.
LEMMA ReplyReplies ==
    ASSUME BasicInv, NEW r \in Requests, Replies(r)
    PROVE  \E m \in Requests, a \in Admins : Thread!Reply(m, r, a)
<1>0. fr[r].msg \in Requests /\ fr[r].arg \in Admins
    BY DEF Replies, OnlyRow, BasicInv, TypeOK, FramesOK, FrameFits, Replying, Stamped
<1> PICK m \in Requests, a \in Admins : m = fr[r].msg /\ a = fr[r].arg
    BY <1>0
<1>1. /\ m \in DOMAIN rows /\ DOMAIN rows' = DOMAIN rows
      /\ rows[m].status # None
      /\ \A x \in DOMAIN rows \ {m} : rows'[x] = rows[x]
      /\ rows'[m].status = "REPLIED" /\ rows'[m].lastBy = a
    BY DEF Replies, OnlyRow, BasicInv, TypeOK, Row
<1>3. /\ r \notin DOMAIN replies /\ DOMAIN replies' = DOMAIN replies \cup {r}
      /\ \A q \in DOMAIN replies : replies'[q] = replies[q]
      /\ replies'[r].to = m /\ replies'[r].author = a
    BY DEF Replies, NewReply
<1>4. StatusMap[m] # None /\ StatusMap' = [StatusMap EXCEPT ![m] = "REPLIED"]
    BY <1>1 DEF StatusMap
<1>5. LastMap' = [LastMap EXCEPT ![m] = a]
    BY <1>1 DEF LastMap
<1>6. \A x \in RepliesTo(m) : x.id # r
    BY <1>3 DEF RepliesTo, RepliesOf
<1>7. RepliesTo(m)' = RepliesTo(m) \cup {[id |-> r, author |-> a]}
    BY <1>3 DEF RepliesTo, RepliesOf
<1>8. \A x \in Requests \ {m} : RepliesTo(x)' = RepliesTo(x)
    BY <1>3 DEF RepliesTo, RepliesOf
<1>9. ReplyMap' = [ReplyMap EXCEPT ![m] = @ \cup {[id |-> r, author |-> a]}]
    BY <1>1, <1>7, <1>8 DEF ReplyMap
<1>10. \A x \in ReplyMap[m] : x.id # r
    BY <1>1, <1>6 DEF ReplyMap
<1> QED
    BY ZenonT(40), <1>1, <1>4, <1>5, <1>9, <1>10
       DEF Thread!Reply, StatusMap, LastMap, ReplyMap, RepliesTo

\* Every step is one of the abstract specification, or changes nothing of it.
LEMMA ThreadSteps ==
    ASSUME BasicInv, [Next]_vars
    PROVE  [Thread!Next]_(Thread!tvars)
<1>1. CASE UNCHANGED tables
    BY <1>1 DEF tables, Thread!tvars, RepliesOf
<1>2. ASSUME NEW r \in Requests, Inserts(r) PROVE Thread!Next
    BY <1>2, InsertCreates DEF Thread!Next
<1>3. ASSUME NEW r \in Requests, Writes(r) PROVE Thread!Next
    BY <1>3, WriteMarks DEF Thread!Next
<1>4. ASSUME NEW r \in Requests, Replies(r) PROVE Thread!Next
    BY <1>4, ReplyReplies DEF Thread!Next
<1> QED
    BY <1>1, <1>2, <1>3, <1>4, StepKinds DEF Comes, GoesOn, Quiet, vars, tables

\* Before the first message there is none.
LEMMA ThreadInit == Init => Thread!Init
BY DEF Init, Thread!Init, NoRows, RepliesOf

\* The handlers implement the abstract MessageThread for any requests and
\* administrators, whatever they overlap with and wherever they fail: a message
\* is REPLIED only together with a reply and its author, and no reply is lost.
THEOREM MessagesImplementThread == Spec => ImplementsThread
<1> QED
    BY InitBasic, NextBasic, ThreadInit, ThreadSteps, PTL
       DEF Spec, ImplementsThread, Thread!Spec
-----------------------------------------------------------------------------
(* What a reader of the list has seen.                                      *)

\* The steps of findAll, and the frame in each of them: before the last page is
\* counted, a message that was there at the beginning and was not seen yet has
\* all the positions that were read before it.
Reading == {"items", "count", "listed"}

Behind(f, m) == f.page * Limit <= Cardinality(Newer(m, Matching(f.arg)))

ReaderOK(p, f) ==
    /\ p \in Reading => f.arg \in Opt(Statuses)
    /\ p \in {"count", "listed"} => f.page > 0
    /\ p \in Reading /\ f.page > 0 =>
          /\ f.left <= Exited(f.arg)
          /\ Exited(f.arg) = f.left =>
                /\ f.base \subseteq Matching(f.arg)
                /\ \A m \in f.base \ f.seen : Behind(f, m)
                /\ p = "listed" => f.base \subseteq f.seen

ListInv == IsFiniteSet(DOMAIN rows) /\ \A r \in Requests : ReaderOK(pc[r], fr[r])


\* What the pages before the last hold, the last one included.
LEMMA PagesReach ==
    ASSUME NEW n \in Nat, NEW p \in Nat, ~(p < TotalPages(n))
    PROVE  n <= p * Limit
<1> DEFINE t == n + Limit - 1
           q == t \div Limit
<1>1. t \in Nat /\ Limit \in Nat /\ Limit > 0
    OBVIOUS
<1>2. q \in Nat /\ t = Limit * q + (t % Limit) /\ t % Limit \in 0 .. Limit - 1
    BY <1>1
<1>3. q <= p
    BY <1>2 DEF TotalPages
<1>4. Limit * q <= Limit * p
    BY <1>1, <1>2, <1>3
<1> HIDE DEF q
<1> QED
    BY <1>1, <1>2, <1>4

\* What is the same in two frames of a reader.
SameList(f, g) == /\ g.arg = f.arg /\ g.page = f.page /\ g.seen = f.seen
                  /\ g.base = f.base /\ g.left = f.left

\* The tables change by the insert of a row, or by an update that keeps its time.
LEMMA TableSteps ==
    ASSUME BasicInv, [Next]_vars
    PROVE  \/ UNCHANGED <<rows, exits>>
           \/ \E r \in Requests : Insert(r)
           \/ \E m \in DOMAIN rows, row \in Row :
                 Update(m, row) /\ row.created = rows[m].created
<1>1. ASSUME NEW r \in Requests, StaUpdate(r) \/ ReadUpdate(r) \/ RepCommit(r)
      PROVE  \E m \in DOMAIN rows, row \in Row :
                Update(m, row) /\ row.created = rows[m].created
    <2> DEFINE m == fr[r].msg
    <2>1. fr[r] \in Frame /\ FrameFits(r, pc[r], fr[r])
        BY DEF BasicInv, TypeOK, FramesOK
    <2>2. m \in DOMAIN rows
        BY <1>1, <2>1 DEF FrameFits, StaUpdate, SetStatus, ReadUpdate, RepCommit, Commits,
            Writing, Replying, Stamped
    <2>3. rows[m] \in Row /\ m \in Requests
        BY <2>2 DEF BasicInv, TypeOK
    <2>4. ASSUME NEW s \in Statuses, NEW t \in Opt(Requests)
          PROVE  /\ [rows[m] EXCEPT !.status = s, !.readAt = t, !.by = r, !.setBy = r] \in Row
                 /\ [rows[m] EXCEPT !.status = s, !.readAt = t, !.by = r, !.setBy = r].created
                       = rows[m].created
        BY <2>3 DEF Row, Opt
    <2>5. CASE StaUpdate(r)
        <3> DEFINE t == IF fr[r].arg = "READ" /\ fr[r].readAt = None THEN r ELSE fr[r].readAt
        <3>1. Update(m, [rows[m] EXCEPT !.status = fr[r].arg, !.readAt = t, !.by = r,
                                        !.setBy = r])
            BY <2>5 DEF StaUpdate, SetStatus
        <3>2. fr[r].arg \in Statuses /\ t \in Opt(Requests)
            BY <2>1, <2>5 DEF StaUpdate, SetStatus, FrameFits, Frame, Statuses, Opt
        <3> HIDE DEF t
        <3> QED
            BY <2>2, <2>4, <3>1, <3>2
    <2>6. CASE ReadUpdate(r)
        <3>1. Update(m, [rows[m] EXCEPT !.status = "READ", !.readAt = r, !.by = r,
                                        !.setBy = r])
            BY <2>6 DEF ReadUpdate
        <3>2. "READ" \in Statuses /\ r \in Opt(Requests)
            BY DEF Statuses, Settable, Opt
        <3> QED
            BY <2>2, <2>4, <3>1, <3>2
    <2>7. CASE RepCommit(r)
        <3> DEFINE row == [rows[m] EXCEPT !.status = "REPLIED", !.repliedAt = r,
                                          !.lastBy = fr[r].arg, !.setBy = r]
        <3>1. Update(m, row)
            BY <2>7 DEF RepCommit, Commits
        <3>2. fr[r].arg \in Admins
            BY <2>1, <2>7 DEF RepCommit, Commits, FrameFits, Replying, Stamped
        <3>3. row \in Row /\ row.created = rows[m].created
            BY <2>3, <3>2 DEF Row, Opt, Statuses
        <3> HIDE DEF row
        <3> QED
            BY <2>2, <3>1, <3>3
    <2> QED
        BY <1>1, <2>5, <2>6, <2>7
<1>2. ASSUME NEW r \in Requests, Arrive(r) PROVE UNCHANGED <<rows, exits>>
    BY <1>2 DEF Arrive, Begin, tables
<1>3. ASSUME NEW r \in Requests,
             \/ StaFind(r) \/ ReadFind(r) \/ RepFind(r) \/ RepInsert(r) \/ RepUpdate(r)
             \/ FindAll(r) \/ Answer(r) \/ Throw(r)
      PROVE  UNCHANGED <<rows, exits>>
    BY <1>3 DEF StaFind, ReadFind, RepFind, RepInsert, RepUpdate, FindAll, Items,
        ReadPage, Count, Answer, Throw, tables
<1>4. UNCHANGED vars => UNCHANGED <<rows, exits>>
    BY DEF vars, tables
<1> QED
    BY <1>1, <1>2, <1>3, <1>4 DEF Next, Finished, UpdateStatus, MarkAsRead, ReplyTo

\* What a step does to a list by status: as long as no message leaves it, none
\* comes before a message that was not before it already, or is counted less.
Grows(s) ==
    /\ Exited(s) \in Nat /\ Exited(s)' \in Nat /\ Exited(s) <= Exited(s)'
    /\ Exited(s)' = Exited(s) =>
          \A m \in Matching(s) : /\ m \in Matching(s)'
                                 /\ Newer(m, Matching(s)) \subseteq Newer(m, Matching(s))'

\* Rows are only added to a list, or leave it by a change of status.
LEMMA RowsGrow ==
    ASSUME NEW s,
           \A m \in DOMAIN rows : /\ m \in DOMAIN rows'
                                  /\ rows'[m].created = rows[m].created
                                  /\ s = rows[m].status => s \in {None, rows'[m].status}
    PROVE  \A m \in Matching(s) : /\ m \in Matching(s)'
                                  /\ Newer(m, Matching(s)) \subseteq Newer(m, Matching(s))'
BY DEF Matching, Newer

\* Every step lets every list grow, but for the messages that leave it.
LEMMA StepsGrow ==
    ASSUME BasicInv, [Next]_vars, NEW s \in Opt(Statuses)
    PROVE  /\ Grows(s)
           /\ IsFiniteSet(DOMAIN rows) => IsFiniteSet(DOMAIN rows')
<1>0. exits \in [Statuses -> Nat] /\ s \in Statuses \cup {None} /\ None \notin Statuses
    BY DEF BasicInv, TypeOK, Opt
<1>1. CASE UNCHANGED <<rows, exits>>
    <2>1. Exited(s)' = Exited(s) /\ Exited(s) \in Nat
        BY <1>0, <1>1 DEF Exited
    <2> QED
        BY <1>1, <2>1 DEF Grows, Matching, Newer
<1>2. ASSUME NEW r \in Requests, Insert(r)
      PROVE  /\ Grows(s)
             /\ IsFiniteSet(DOMAIN rows) => IsFiniteSet(DOMAIN rows')
    <2>1. Inserts(r) /\ exits' = exits
        BY <1>2, InsertInserts DEF Insert
    <2>2. /\ DOMAIN rows' = DOMAIN rows \cup {r}
          /\ \A m \in DOMAIN rows : rows'[m] = rows[m]
        BY <2>1 DEF Inserts
    <2>3. Exited(s)' = Exited(s) /\ Exited(s) \in Nat
        BY <1>0, <2>1 DEF Exited
    <2>4. IsFiniteSet(DOMAIN rows) => IsFiniteSet(DOMAIN rows')
        BY <2>2, FS_AddElement
    <2> QED
        BY <2>2, <2>3, <2>4, RowsGrow DEF Grows
<1>3. ASSUME NEW n \in DOMAIN rows, NEW row \in Row, Update(n, row),
             row.created = rows[n].created
      PROVE  /\ Grows(s)
             /\ IsFiniteSet(DOMAIN rows) => IsFiniteSet(DOMAIN rows')
    <2>1. /\ DOMAIN rows' = DOMAIN rows /\ rows'[n] = row
          /\ \A m \in DOMAIN rows \ {n} : rows'[m] = rows[m]
        BY <1>3 DEF Update, BasicInv, TypeOK
    <2>2. \A m \in DOMAIN rows : rows'[m].created = rows[m].created
        BY <1>3, <2>1
    <2>3. rows[n].status \in Statuses
        BY DEF BasicInv, TypeOK, Row
    <2>4. Exited(s) \in Nat
        BY <1>0 DEF Exited
    <2>5. CASE s = rows[n].status /\ row.status # rows[n].status
        <3>1. s \in Statuses /\ s # None /\ exits' = [exits EXCEPT ![s] = @ + 1]
            BY <1>0, <1>3, <2>3, <2>5 DEF Update
        <3>2. exits'[s] = exits[s] + 1
            BY <1>0, <3>1
        <3>3. Exited(s)' = Exited(s) + 1
            BY <1>0, <3>1, <3>2 DEF Exited
        <3> QED
            BY <2>1, <2>4, <3>3 DEF Grows
    <2>6. CASE ~(s = rows[n].status /\ row.status # rows[n].status)
        <3>1. Exited(s)' = Exited(s)
            BY <1>0, <1>3, <2>3, <2>6 DEF Update, Exited
        <3>2. \A m \in DOMAIN rows : s = rows[m].status => s \in {None, rows'[m].status}
            BY <2>1, <2>6
        <3> QED
            BY <2>1, <2>2, <2>4, <3>1, <3>2, RowsGrow DEF Grows
    <2> QED
        BY <2>5, <2>6
<1> QED
    BY <1>1, <1>2, <1>3, TableSteps

\* The step of another request leaves what a reader has seen alone.
LEMMA ReaderKept ==
    ASSUME BasicInv, NEW r \in Requests, NEW q \in Requests \ {r},
           \/ Arrive(r) \/ Insert(r) \/ UpdateStatus(r) \/ MarkAsRead(r) \/ ReplyTo(r)
           \/ FindAll(r) \/ Answer(r) \/ Throw(r)
    PROVE  pc'[q] = pc[q] /\ SameList(fr[q], fr'[q])
<1>0. fr[q] \in Frame /\ fr \in [Requests -> Frame] /\ pc \in [Requests -> Steps]
    BY DEF BasicInv, TypeOK
<1>1. ASSUME NEW p, NEW f, Turn(r, p, f)
      PROVE  pc'[q] = pc[q] /\ SameList(fr[q], fr'[q])
    BY <1>0, <1>1 DEF Turn, SameList
<1>2. ASSUME NEW p, Goto(r, p)
      PROVE  pc'[q] = pc[q] /\ SameList(fr[q], fr'[q])
    BY <1>0, <1>2 DEF Goto, SameList
<1>3. ASSUME NEW op, NEW p, NEW m, NEW a, Begin(r, op, p, m, a)
      PROVE  pc'[q] = pc[q] /\ SameList(fr[q], fr'[q])
    <2>1. /\ pc'[q] = pc[q]
          /\ fr'[q] \in {fr[q], [fr[q] EXCEPT !.met = @ \cup {r}]}
        BY <1>0, <1>3 DEF Begin
    <2>2. SameList(fr[q], [fr[q] EXCEPT !.met = @ \cup {r}]) /\ SameList(fr[q], fr[q])
        BY <1>0 DEF Frame, SameList
    <2> QED
        BY <2>1, <2>2
<1>4. Insert(r) => pc'[q] = pc[q] /\ SameList(fr[q], fr'[q])
    BY <1>2 DEF Insert
<1>5. Arrive(r) => pc'[q] = pc[q] /\ SameList(fr[q], fr'[q])
    BY <1>3 DEF Arrive
<1>6. StaFind(r) \/ ReadFind(r) \/ RepFind(r) => pc'[q] = pc[q] /\ SameList(fr[q], fr'[q])
    BY <1>1, <1>2 DEF StaFind, ReadFind, RepFind, Found, Leave
<1>7. StaUpdate(r) \/ ReadUpdate(r) \/ RepUpdate(r) \/ RepCommit(r) \/ RepInsert(r)
      => pc'[q] = pc[q] /\ SameList(fr[q], fr'[q])
    BY <1>1, <1>2 DEF StaUpdate, SetStatus, ReadUpdate, RepUpdate, RepCommit, Commits,
        RepInsert
<1>8. FindAll(r) \/ Answer(r) \/ Throw(r) => pc'[q] = pc[q] /\ SameList(fr[q], fr'[q])
    BY <1>1, <1>2 DEF FindAll, Items, ReadPage, Count, Answer, Throw, Leave
<1> QED
    BY <1>4, <1>5, <1>6, <1>7, <1>8 DEF UpdateStatus, MarkAsRead, ReplyTo

\* What a request does to its own reading of the list.
LEMMA OwnReading ==
    ASSUME BasicInv, NEW r \in Requests,
           \/ Arrive(r) \/ Insert(r) \/ UpdateStatus(r) \/ MarkAsRead(r) \/ ReplyTo(r)
           \/ FindAll(r) \/ Answer(r) \/ Throw(r)
    PROVE  \/ pc'[r] \notin Reading
           \/ pc'[r] = "items" /\ fr'[r].page = 0 /\ fr'[r].arg \in Opt(Statuses)
           \/ Items(r) \/ Count(r)
<1>0. fr \in [Requests -> Frame] /\ pc \in [Requests -> Steps]
    BY DEF BasicInv, TypeOK
<1>1. ASSUME NEW op, NEW p, NEW m, NEW a, Begin(r, op, p, m, a)
      PROVE  pc'[r] = p /\ fr'[r].page = 0 /\ fr'[r].arg = a
    BY <1>0, <1>1 DEF Begin, Blank
<1>2. CASE Arrive(r)
    BY <1>1, <1>2 DEF Arrive, Reading
<1>3. CASE Insert(r) \/ UpdateStatus(r) \/ MarkAsRead(r) \/ ReplyTo(r)
    BY <1>0, <1>3 DEF Insert, UpdateStatus, StaFind, StaUpdate, SetStatus, MarkAsRead,
        ReadFind, ReadUpdate, ReplyTo, RepFind, RepInsert, RepUpdate, RepCommit,
        Commits, Found, Leave, Turn, Goto, Reading
<1>4. CASE Answer(r) \/ Throw(r)
    BY <1>0, <1>4 DEF Answer, Throw, Leave, Turn, Reading
<1> QED
    BY <1>2, <1>3, <1>4 DEF FindAll

\* What a step of another request, or none, leaves true of a reader.
LEMMA ReaderStays ==
    ASSUME BasicInv, ListInv, [Next]_vars, NEW q \in Requests,
           pc'[q] = pc[q], SameList(fr[q], fr'[q])
    PROVE  ReaderOK(pc[q], fr[q])'
<1> DEFINE f == fr[q]
           g == fr'[q]
<1>z. f.left \in Nat /\ f.page \in Nat
    BY DEF BasicInv, TypeOK, Frame
<1>0. /\ g.arg = f.arg /\ g.page = f.page /\ g.seen = f.seen /\ g.base = f.base
      /\ g.left = f.left /\ f.left \in Nat /\ f.page * Limit \in Nat
    BY <1>z DEF SameList
<1>1. ReaderOK(pc[q], f) /\ IsFiniteSet(DOMAIN rows)
    BY DEF ListInv
<1>2. CASE pc[q] \notin Reading \/ ~(f.page > 0)
    BY <1>0, <1>1, <1>2 DEF ReaderOK, Reading
<1>3. CASE pc[q] \in Reading /\ f.page > 0
    <2>1. f.arg \in Opt(Statuses)
        BY <1>1, <1>3 DEF ReaderOK
    <2> PICK s \in Opt(Statuses) : s = f.arg
        BY <2>1
    <2>2. Grows(s) /\ IsFiniteSet(DOMAIN rows')
        BY <1>1, StepsGrow
    <2>3. f.left <= Exited(s)
        BY <1>1, <1>3 DEF ReaderOK
    <2>4. f.left <= Exited(s)' /\ (Exited(s)' = f.left => Exited(s) = f.left)
        BY <1>0, <2>2, <2>3 DEF Grows
    <2>5. ASSUME Exited(s)' = f.left
          PROVE  /\ f.base \subseteq Matching(s)'
                 /\ \A m \in f.base \ f.seen :
                       f.page * Limit <= Cardinality(Newer(m, Matching(s)))'
                 /\ pc[q] = "listed" => f.base \subseteq f.seen
        <3>1. /\ f.base \subseteq Matching(s)
              /\ \A m \in f.base \ f.seen :
                       f.page * Limit <= Cardinality(Newer(m, Matching(s)))
              /\ pc[q] = "listed" => f.base \subseteq f.seen
            BY <1>1, <1>3, <2>4, <2>5 DEF ReaderOK, Behind
        <3>2. \A m \in Matching(s) :
                 /\ m \in Matching(s)'
                 /\ Newer(m, Matching(s)) \subseteq Newer(m, Matching(s))'
            BY <2>2, <2>4, <2>5 DEF Grows
        <3>3. ASSUME NEW m \in f.base \ f.seen
              PROVE  f.page * Limit <= Cardinality(Newer(m, Matching(s)))'
            <4> DEFINE A == Newer(m, Matching(s))
                       B == Newer(m, Matching(s))'
            <4>1. A \subseteq B /\ B \subseteq DOMAIN rows'
                BY <3>1, <3>2 DEF Newer, Matching
            <4>2. f.page * Limit <= Cardinality(A)
                BY <3>1
            <4> HIDE DEF A
            <4>3. IsFiniteSet(B)
                BY <2>2, <4>1, FS_Subset
            <4>4. Cardinality(A) <= Cardinality(B) /\ Cardinality(A) \in Nat
                  /\ Cardinality(B) \in Nat
                BY <4>1, <4>3, FS_Subset, FS_CardinalityType
            <4>5. f.page * Limit <= Cardinality(B)
                BY <1>0, <4>2, <4>4
            <4> QED
                BY <4>5
        <3> QED
            BY <3>1, <3>2, <3>3
    <2>6. g.arg = s
        BY <1>0
    <2> QED
        BY <1>0, <1>3, <2>4, <2>5, <2>6 DEF ReaderOK, Behind, Reading
<1> QED
    BY <1>2, <1>3

\* A page that was read: what is not on it and was not seen is behind it.
LEMMA ItemsStep ==
    ASSUME BasicInv, ListInv, NEW r \in Requests, Items(r)
    PROVE  ReaderOK(pc[r], fr[r])'
<1> DEFINE f == fr[r]
           k == f.page * Limit
           T == Slice(Matching(f.arg), k)
           B == IF f.page = 0 THEN Matching(f.arg) ELSE f.base
           n == IF f.page = 0 THEN Exited(f.arg) ELSE f.left
<1>1. /\ pc[r] = "items" /\ Turn(r, "count", Paged(f, T, B, n))
      /\ UNCHANGED <<clock, tables, exits>>
    BY DEF Items, ReadPage, Paged
<1>2. /\ f \in Frame /\ f.page \in Nat /\ f.left \in Nat /\ f.page + 1 > 0
      /\ k \in Nat /\ (f.page + 1) * Limit = k + Limit
    <2>1. f \in Frame /\ f.page \in Nat /\ f.left \in Nat
        BY DEF BasicInv, TypeOK, Frame
    <2> QED
        BY <2>1
<1>3. ReaderOK("items", f) /\ IsFiniteSet(DOMAIN rows)
    BY <1>1 DEF ListInv
<1>4. f.arg \in Opt(Statuses)
    BY <1>3 DEF ReaderOK, Reading
<1> PICK s \in Opt(Statuses) : s = f.arg
    BY <1>4
<1> DEFINE S == Matching(s)
           g == Paged(f, T, B, n)
<1>5. /\ g.arg = s /\ g.page = f.page + 1 /\ g.seen = f.seen \cup T /\ g.base = B
      /\ g.left = n
    BY <1>2 DEF Paged, Frame
<1> HIDE DEF g
<1>6. pc'[r] = "count" /\ fr'[r] = g /\ rows' = rows /\ exits' = exits
    BY <1>1 DEF Turn, tables, BasicInv, TypeOK, g
<1>7. Exited(s) \in Nat
    BY DEF Exited, BasicInv, TypeOK, Opt
<1>8. n <= Exited(s)
    <2>1. CASE f.page = 0
        BY <1>7, <2>1
    <2>2. CASE f.page # 0
        <3>1. f.page > 0
            BY <1>2, <2>2
        <3> QED
            BY <1>3, <2>2, <3>1 DEF ReaderOK, Reading
    <2> QED
        BY <2>1, <2>2
<1>9. ASSUME Exited(s) = n
      PROVE  /\ B \subseteq S
             /\ \A m \in B \ (f.seen \cup T) : k + Limit <= Cardinality(Newer(m, S))
    <2>1. B \subseteq S
        BY <1>2, <1>3, <1>9 DEF ReaderOK, Reading
    <2>2. ASSUME NEW m \in B \ (f.seen \cup T)
          PROVE  k + Limit <= Cardinality(Newer(m, S))
        <3> DEFINE c == Cardinality(Newer(m, S))
        <3>1. c \in Nat
            <4>1. Newer(m, S) \subseteq DOMAIN rows
                BY DEF Newer, Matching
            <4> QED
                BY <1>3, <4>1, FS_Subset, FS_CardinalityType
        <3>2. m \in S /\ ~(k <= c /\ c < k + Limit)
            BY <2>1 DEF Slice
        <3>3. k <= c
            <4>1. CASE f.page = 0
                <5>1. k = 0
                    BY <4>1
                <5> HIDE DEF c
                <5> QED
                    BY <3>1, <5>1
            <4>2. CASE f.page # 0
                BY <1>2, <1>3, <1>9, <4>2 DEF ReaderOK, Reading, Behind
            <4> QED
                BY <4>1, <4>2
        <3> HIDE DEF c
        <3>4. k + Limit <= c
            BY <1>2, <3>1, <3>2, <3>3
        <3> QED
            BY <3>4 DEF c
    <2> QED
        BY <2>1, <2>2
<1> HIDE DEF T, B, n
<1>10. ReaderOK("count", g)
    BY <1>2, <1>5, <1>8, <1>9 DEF ReaderOK, Reading, Behind
<1> QED
    BY <1>6, <1>10 DEF ReaderOK, Behind, Exited, Matching, Newer

\* The last page was read: nothing can be behind it.
LEMMA CountStep ==
    ASSUME BasicInv, ListInv, NEW r \in Requests, Count(r)
    PROVE  ReaderOK(pc[r], fr[r])'
<1> DEFINE f == fr[r]
           p == IF f.page < TotalPages(Cardinality(Matching(f.arg)))
                THEN "items" ELSE "listed"
<1>1. /\ pc[r] = "count" /\ Goto(r, p) /\ UNCHANGED <<clock, tables, exits>>
    BY DEF Count
<1>2. ReaderOK("count", f) /\ IsFiniteSet(DOMAIN rows) /\ f.page \in Nat
    BY <1>1 DEF ListInv, BasicInv, TypeOK, Frame
<1>3. f.arg \in Opt(Statuses) /\ f.page > 0
    BY <1>2 DEF ReaderOK, Reading
<1> PICK s \in Opt(Statuses) : s = f.arg
    BY <1>3
<1> DEFINE S == Matching(s)
<1>4. IsFiniteSet(S) /\ Cardinality(S) \in Nat
    <2>1. S \subseteq DOMAIN rows
        BY DEF Matching
    <2> QED
        BY <1>2, <2>1, FS_Subset, FS_CardinalityType
<1>5. ASSUME p = "listed", NEW m \in S PROVE ~Behind(f, m)
    <2> DEFINE N == Newer(m, S)
               c == Cardinality(N)
               d == Cardinality(S)
               e == Cardinality(S \ {m})
    <2>1. d <= f.page * Limit
        BY <1>2, <1>4, <1>5, PagesReach
    <2>2. N \subseteq S \ {m}
        <3>1. rows[m].created \in Nat
            BY DEF Matching, BasicInv, TypeOK, Row
        <3> QED
            BY <3>1 DEF Newer
    <2>3. IsFiniteSet(S \ {m}) /\ e = d - 1
        BY <1>4, FS_RemoveElement
    <2>4. c <= e /\ c \in Nat /\ e \in Nat
        <3> HIDE DEF N
        <3> QED
            BY <2>2, <2>3, FS_Subset, FS_CardinalityType
    <2> HIDE DEF c, d, e
    <2>5. c < f.page * Limit
        <3>1. f.page * Limit \in Nat /\ d \in Nat
            BY <1>2, <1>4 DEF d
        <3> QED
            BY <2>1, <2>3, <2>4, <3>1
    <2>6. ~(f.page * Limit <= c)
        BY <1>2, <2>4, <2>5
    <2> QED
        BY <2>6 DEF Behind, c
<1>6. p \in {"items", "listed"}
    OBVIOUS
<1> HIDE DEF p
<1>7. ReaderOK(p, f)
    <2>1. ASSUME Exited(s) = f.left, p = "listed" PROVE f.base \subseteq f.seen
        BY <1>2, <1>3, <1>5, <2>1 DEF ReaderOK, Reading
    <2> QED
        BY <1>2, <1>3, <1>6, <2>1 DEF ReaderOK, Reading
<1>8. pc'[r] = p /\ fr' = fr /\ rows' = rows /\ exits' = exits
    BY <1>1 DEF Goto, tables, BasicInv, TypeOK
<1> QED
    BY <1>7, <1>8 DEF ReaderOK, Behind, Exited, Matching, Newer

\* The invariant of the readers is kept.
LEMMA NextList == ASSUME BasicInv, ListInv, [Next]_vars PROVE ListInv'
<1>1. IsFiniteSet(DOMAIN rows')
    <2>1. None \in Opt(Statuses)
        BY DEF Opt
    <2> QED
        BY <2>1, StepsGrow DEF ListInv
<1>2. ASSUME NEW q \in Requests, pc'[q] = pc[q], SameList(fr[q], fr'[q])
      PROVE  ReaderOK(pc[q], fr[q])'
    BY <1>2, ReaderStays
<1>3. CASE UNCHANGED vars
    BY <1>1, <1>2, <1>3 DEF vars, SameList, ListInv
<1>4. ASSUME NEW r \in Requests,
             \/ Arrive(r) \/ Insert(r) \/ UpdateStatus(r) \/ MarkAsRead(r)
             \/ ReplyTo(r) \/ FindAll(r) \/ Answer(r) \/ Throw(r)
      PROVE  ListInv'
    <2>1. ASSUME NEW q \in Requests PROVE ReaderOK(pc[q], fr[q])'
        <3>1. CASE q # r
            BY <1>2, <1>4, <3>1, ReaderKept
        <3>2. CASE q = r
            <4>1. CASE pc'[r] \notin Reading
                BY <3>2, <4>1 DEF ReaderOK, Reading
            <4>2. CASE pc'[r] = "items" /\ fr'[r].page = 0 /\ fr'[r].arg \in Opt(Statuses)
                BY <3>2, <4>2 DEF ReaderOK, Reading
            <4> QED
                BY <1>4, <3>2, <4>1, <4>2, OwnReading, ItemsStep, CountStep
        <3> QED
            BY <3>1, <3>2
    <2> QED
        BY <1>1, <2>1 DEF ListInv
<1> QED
    BY <1>3, <1>4 DEF Next, Finished

\* Who reads the list page by page to the end sees every message that was there
\* at the beginning, for any size of a page, number of messages and of readers,
\* whatever is created meanwhile, unless a message lost the status asked for.
THEOREM NothingIsMissed == Spec => []NoMessageMissed
<1>1. Init => ListInv
    BY FS_EmptySet DEF Init, ListInv, ReaderOK, Reading, NoRows
<1>2. ListInv => NoMessageMissed
    BY DEF ListInv, NoMessageMissed, ReaderOK, Reading
<1> QED
    BY <1>1, <1>2, InitBasic, NextBasic, NextList, PTL DEF Spec
=============================================================================
