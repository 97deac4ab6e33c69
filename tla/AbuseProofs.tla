----------------------------- MODULE AbuseProofs -----------------------------
(* Proofs about SecurityAbuse for every value of its constants.             *)
EXTENDS SecurityAbuse, FiniteSetTheorems, SequenceTheorems, TLAPS

USE SettingsAssumption
-----------------------------------------------------------------------------
(* Windows, lists of identifiers and frames.                                *)

\* Of two multiples of a number the lesser is at most the one before the other.
LEMMA MultiplesApart ==
    ASSUME NEW p \in Nat, NEW q \in Nat, NEW w \in Nat \ {0}, p < q
    PROVE  (p + 1) * w <= q * w
<1>1. PICK d \in Nat : q = p + 1 + d
    <2>1. q - p - 1 \in Nat
        OBVIOUS
    <2> QED
        BY <2>1
<1>2. q * w = (p + 1) * w + d * w /\ d * w >= 0 /\ (p + 1) * w \in Nat
    BY <1>1
<1> QED
    BY <1>2

\* A time lies in its window.
LEMMA BucketType ==
    ASSUME NEW t \in Nat, NEW w \in Nat \ {0}
    PROVE  /\ t \div w \in Nat /\ Bucket(t, w) \in Nat /\ Bucket(t, w) <= t
           /\ t < (t \div w + 1) * w
BY DEF Bucket

\* A window of the future that has begun is the present one.
LEMMA BucketNext ==
    ASSUME NEW t \in Nat, NEW n \in Nat, NEW w \in Nat \ {0}, n <= t,
           Bucket(t, w) <= n
    PROVE  Bucket(t, w) = Bucket(n, w)
<1> DEFINE p == n \div w
           q == t \div w
<1>1. /\ p \in Nat /\ q \in Nat /\ p * w \in Nat /\ q * w \in Nat
      /\ p * w <= n /\ q * w <= n /\ n < (p + 1) * w /\ t < (q + 1) * w
      /\ (p + 1) * w \in Nat /\ (q + 1) * w \in Nat
    BY BucketType DEF Bucket
<1> HIDE DEF p, q
<1>2. ~(p < q)
    BY <1>1, MultiplesApart
<1>3. ~(q < p)
    BY <1>1, MultiplesApart
<1>4. p = q
    BY <1>1, <1>2, <1>3
<1> QED
    BY <1>4 DEF Bucket, p, q

\* The entries of a list are its head and those of its tail.
LEMMA HeadTail ==
    ASSUME NEW S, NEW s \in Seq(S), Len(s) > 0
    PROVE  /\ Head(s) \in S /\ Tail(s) \in Seq(S) /\ Len(Tail(s)) = Len(s) - 1
           /\ ToSet(s) = {Head(s)} \cup ToSet(Tail(s))
           /\ Len(s) <= 1 => ToSet(Tail(s)) = {}
           /\ Len(s) > 1 => Len(Tail(s)) > 0
<1>1. Head(s) \in S /\ Tail(s) \in Seq(S) /\ Len(s) \in Nat \ {0}
    OBVIOUS
<1>2. Head(s) = s[1] /\ DOMAIN s = 1..Len(s)
    OBVIOUS
<1>3. /\ DOMAIN Tail(s) = 1..(Len(s) - 1) /\ Len(Tail(s)) = Len(s) - 1
      /\ \A i \in 1..(Len(s) - 1) : Tail(s)[i] = s[i + 1]
    BY <1>1
<1>4. ASSUME NEW x \in ToSet(s) PROVE x = Head(s) \/ x \in ToSet(Tail(s))
    <2>1. PICK i \in 1..Len(s) : x = s[i]
        BY <1>2 DEF ToSet
    <2>2. CASE i # 1
        <3>1. i - 1 \in 1..(Len(s) - 1) /\ Tail(s)[i - 1] = s[(i - 1) + 1]
            BY <1>1, <1>3, <2>2
        <3>2. (i - 1) + 1 = i
            OBVIOUS
        <3>3. \E j \in DOMAIN Tail(s) : x = Tail(s)[j]
            BY <1>3, <2>1, <3>1, <3>2
        <3> QED
            BY <3>3 DEF ToSet
    <2> QED
        BY <1>2, <2>1, <2>2
<1>5. ASSUME NEW x \in ToSet(Tail(s)) PROVE x \in ToSet(s)
    BY <1>1, <1>2, <1>3 DEF ToSet
<1>6. Head(s) \in ToSet(s)
    BY <1>1, <1>2 DEF ToSet
<1>7. Len(s) <= 1 => ToSet(Tail(s)) = {}
    BY <1>1, <1>3 DEF ToSet
<1>8. Len(s) > 1 => Len(Tail(s)) > 0
    BY <1>1, <1>3
<1> QED
    BY <1>1, <1>3, <1>4, <1>5, <1>6, <1>7, <1>8

\* Short lists.
LEMMA ListOfOne ==
    ASSUME NEW S, NEW x \in S
    PROVE  <<x>> \in Seq(S) /\ Len(<<x>>) = 1 /\ ToSet(<<x>>) = {x}
BY DEF ToSet

\* A list of three, and its entries.
LEMMA ListOfThree ==
    ASSUME NEW S, NEW x \in S, NEW y \in S, NEW z \in S
    PROVE  /\ <<x, y, z>> \in Seq(S) /\ Len(<<x, y, z>>) = 3
           /\ ToSet(<<x, y, z>>) = {x, y, z}
BY DEF ToSet

\* A list of four, and its entries.
LEMMA ListOfFour ==
    ASSUME NEW S, NEW x \in S, NEW y \in S, NEW v \in S, NEW w \in S
    PROVE  /\ <<x, y, v, w>> \in Seq(S) /\ Len(<<x, y, v, w>>) = 4
           /\ ToSet(<<x, y, v, w>>) = {x, y, v, w}
BY DEF ToSet

\* The lists of identifiers.
LEMMA IdsType ==
    ASSUME NEW op \in AllOps, NEW n \in 1..2, NEW e \in Emails, NEW a \in Addresses
    PROVE  /\ Ids(op, n, e, a) \in Seq(Identifiers) /\ Len(Ids(op, n, e, a)) > 0
           /\ op = "reset" => Len(Ids(op, n, e, a)) = 1
           /\ ToSet(Ids(op, 1, e, a)) \subseteq ToSet(Ids(op, 2, e, a))
<1>1. /\ \A kind \in Kinds : /\ <<kind, e, None>> \in Identifiers
                             /\ <<kind, None, a>> \in Identifiers
                             /\ <<kind, e, a>> \in Identifiers
      /\ op \in Kinds /\ "social" \in Kinds /\ "socialUser" \in Kinds
    BY DEF Identifiers, Kinds, AllOps
<1>2. CASE op \in {"login", "register"}
    BY <1>1, <1>2, ListOfThree DEF Ids, Triple, ToSet
<1>3. CASE op = "social"
    <2> DEFINE x == <<"socialUser", e, None>>
               y == <<"social", None, a>>
               v == <<"social", e, None>>
               w == <<"social", e, a>>
    <2> DEFINE one == <<y>>
               two == <<x, y, v, w>>
    <2>1. Ids(op, 1, e, a) = one /\ Ids(op, 2, e, a) = two
        BY <1>3 DEF Ids, SocialIds
    <2>2. {x, y, v, w} \subseteq Identifiers
        BY <1>1
    <2> HIDE DEF x, y, v, w
    <2>3. one \in Seq(Identifiers) /\ Len(one) = 1 /\ ToSet(one) = {y}
        BY <2>2, ListOfOne
    <2>4. two \in Seq(Identifiers) /\ Len(two) = 4 /\ y \in ToSet(two)
        BY <2>2, ListOfFour
    <2> HIDE DEF one, two
    <2>5. Len(one) > 0 /\ Len(two) > 0 /\ ToSet(one) \subseteq ToSet(two)
        BY <2>3, <2>4
    <2>6. Ids(op, n, e, a) = one \/ Ids(op, n, e, a) = two
        BY <2>1
    <2> QED
        BY <1>3, <2>1, <2>3, <2>4, <2>5, <2>6, Zenon
<1>4. CASE op = "reset"
    <2> DEFINE x == <<op, e, None>>
    <2>1. Ids(op, 1, e, a) = <<x>> /\ Ids(op, 2, e, a) = <<x>> /\ Ids(op, n, e, a) = <<x>>
        BY <1>4 DEF Ids
    <2>2. x \in Identifiers
        BY <1>1
    <2> HIDE DEF x
    <2> QED
        BY <2>1, <2>2, ListOfOne
<1> QED
    BY <1>2, <1>3, <1>4 DEF AllOps

\* What an unverified profile is counted under.
LEMMA SocialIdsType ==
    ASSUME NEW e \in Emails, NEW a \in Addresses
    PROVE  /\ SocialIds(e, a) \in Seq(Identifiers) /\ Len(SocialIds(e, a)) > 0
           /\ SubSeq(SocialIds(e, a), 1, 2) \in Seq(Identifiers)
           /\ Len(SubSeq(SocialIds(e, a), 1, 2)) > 0
<1> DEFINE s == SocialIds(e, a)
<1>1. Ids("social", 2, e, a) = s /\ "social" \in AllOps
    BY DEF Ids, AllOps
<1>2. s \in Seq(Identifiers)
    BY <1>1, IdsType
<1>3. Len(s) = 4
    BY DEF SocialIds
<1> HIDE DEF s
<1>4. ASSUME NEW i \in 1..2 PROVE s[i] \in Identifiers
    <2>1. i \in 1..Len(s)
        BY <1>3
    <2> QED
        BY <1>2, <2>1, ElementOfSeq
<1>5. SubSeq(s, 1, 2) \in Seq(Identifiers) /\ Len(SubSeq(s, 1, 2)) = 2
    BY <1>4, SubSeqProperties
<1> QED
    BY <1>2, <1>3, <1>5 DEF s

-----------------------------------------------------------------------------
(* The basic invariant, and steps sorted by what they do.                   *)

Listing == {"block", "count", "ban", "hit", "record"}
Working == Listing \cup {"verify", "clear", "in", "reclear"}

\* What each step of a handler finds in its frame.
FrameFits(p, f) ==
    /\ p \in Working => /\ f.op \in AllOps /\ f.email \in Emails
                        /\ f.ip \in Addresses /\ f.round \in {1, 2}
    /\ p \in Listing => Len(f.left) > 0
    /\ p \in Listing /\ f.op = "reset" => Len(f.left) = 1
    /\ p \in {"block", "ban"} => f.op # "reset"
    /\ p = "hit" => f.op \in {"register", "reset"}
    /\ p \in {"verify", "record"} => f.op \in {"login", "social"}
    /\ p = "verify" => (f.round = 1 <=> f.op = "social")
    /\ p \in {"clear", "reclear"} => f.op = "login"

\* The times of a handler are not in the future, nor are the windows counted in.
TimesOK == /\ \A r \in Attempts : fr[r].at <= now /\ fr[r].start <= now
           /\ \A k \in DOMAIN rows : k[2] \in Actions => k[3] <= now

BasicInv == TypeOK /\ TimesOK /\ \A r \in Attempts : FrameFits(pc[r], fr[r])

\* What stays in the frame of a request that others run beside.
SameWho(f, g) == /\ g.op = f.op /\ g.email = f.email /\ g.ip = f.ip
                 /\ g.until = f.until /\ g.spent \subseteq f.spent
                 /\ f.cause => g.cause
Stays(f, g)   == /\ SameWho(f, g) /\ g.round = f.round /\ g.left = f.left
                 /\ g.at = f.at /\ g.start = f.start

Others(r) == \A q \in Attempts \ {r} : pc'[q] = pc[q] /\ Stays(fr[q], fr'[q])

\* What each query may do to the table: blocks stay, and counters grow, but for
\* the cleared ones, which no request holds against anyone any more.
RowsOK == /\ DOMAIN rows \subseteq Keys
          /\ \A k \in DOMAIN rows : /\ rows[k] \in [count : Nat \ {0}, exp : Nat]
                                    /\ k[2] \in Actions => k[3] <= now
TableStep ==
    /\ now' \in Nat /\ now <= now' /\ RowsOK'
    /\ \A k \in DOMAIN rows :
          /\ k[2] \notin Actions => k \in DOMAIN rows' /\ rows'[k].exp = rows[k].exp
          /\ \/ k \in DOMAIN rows' /\ rows[k].count <= rows'[k].count
             \/ \A q \in Attempts : k[1] \notin fr'[q].spent

\* The control state after a step of r.
ControlStep(r) ==
    /\ pc' \in [Attempts -> Steps] /\ fr' \in [Attempts -> Frame] /\ Others(r)
    /\ FrameFits(pc'[r], fr'[r]) /\ fr'[r].at <= now' /\ fr'[r].start <= now'

\* The frame of a request that has ended.
LEMMA BlankType ==
    ASSUME NEW c \in BOOLEAN
    PROVE  /\ Blank \in Frame /\ Blank.at = 0 /\ Blank.start = 0
           /\ LET f == [Blank EXCEPT !.cause = c]
              IN  f \in Frame /\ f.cause = c /\ f.at = 0 /\ f.start = 0
<1>1. <<>> \in Seq(Identifiers) /\ {} \in SUBSET Nat /\ {} \in SUBSET Identifiers
    OBVIOUS
<1>2. Blank \in Frame
    BY <1>1 DEF Blank, Frame
<1>3. [Blank EXCEPT !.cause = c] \in Frame
    BY <1>2 DEF Frame
<1>4. Blank.at = 0 /\ Blank.start = 0
    BY DEF Blank
<1>5. LET f == [Blank EXCEPT !.cause = c]
      IN  f.cause = c /\ f.at = 0 /\ f.start = 0
    BY DEF Blank
<1> QED
    BY <1>2, <1>3, <1>4, <1>5

\* Init establishes the basic invariant.
LEMMA InitBasic == Init => BasicInv
<1> SUFFICES ASSUME Init PROVE BasicInv
    OBVIOUS
<1>1. TypeOK
    BY BlankType DEF Init, TypeOK, Steps
<1>2. TimesOK
    BY DEF Init, TimesOK, Blank
<1> QED
    BY <1>1, <1>2 DEF Init, BasicInv, FrameFits, Working, Listing

\* A turn of r moves no other request.
LEMMA TurnMoves ==
    ASSUME BasicInv, NEW r \in Attempts, NEW p \in Steps, NEW f \in Frame,
           Turn(r, p, f), FrameFits(p, f), f.at <= now', f.start <= now'
    PROVE  ControlStep(r) /\ pc'[r] = p /\ fr'[r] = f
BY DEF Turn, BasicInv, TypeOK, ControlStep, Others, Stays, SameWho

\* A step that leaves the table alone.
LEMMA QuietStep ==
    ASSUME BasicInv, UNCHANGED rows, now' \in Nat, now <= now'
    PROVE  TableStep
<1>1. \A k \in DOMAIN rows : k \in Keys /\ rows[k].count \in Nat
    BY DEF BasicInv, TypeOK
<1>2. \A k \in Keys : k[3] \in Nat
    BY DEF Keys
<1> QED
    BY <1>1, <1>2 DEF TableStep, RowsOK, BasicInv, TypeOK, TimesOK

\* An upsert grows the table.
LEMMA UpsertGrows ==
    ASSUME BasicInv, UNCHANGED now, NEW key \in Keys, NEW exp \in Nat,
           Upsert(key, exp), key[2] \in Actions => key[3] <= now
    PROVE  TableStep
<1>1. /\ DOMAIN rows' = DOMAIN rows \cup {key}
      /\ \A k \in DOMAIN rows \ {key} : rows'[k] = rows[k]
      /\ rows'[key] = IF key \in DOMAIN rows THEN [rows[key] EXCEPT !.count = @ + 1]
                                             ELSE [count |-> 1, exp |-> exp]
    BY DEF Upsert
<1>2. \A k \in DOMAIN rows : rows[k] \in [count : Nat \ {0}, exp : Nat]
    BY DEF BasicInv, TypeOK
<1>3. CASE key \in DOMAIN rows
    <2>1. rows[key].count \in Nat \ {0} /\ rows[key].exp \in Nat
        BY <1>2, <1>3
    <2>2. rows'[key].count = rows[key].count + 1 /\ rows'[key].exp = rows[key].exp
        BY <1>1, <1>2, <1>3
    <2>3. rows'[key] \in [count : Nat \ {0}, exp : Nat]
        BY <1>1, <1>2, <1>3, <2>1
    <2> QED
        BY <1>1, <1>2, <1>3, <2>1, <2>2, <2>3
           DEF TableStep, RowsOK, BasicInv, TypeOK, TimesOK
<1>4. CASE key \notin DOMAIN rows
    <2>1. rows'[key] \in [count : Nat \ {0}, exp : Nat]
        BY <1>1, <1>4
    <2>2. \A k \in DOMAIN rows : rows'[k] = rows[k] /\ rows[k].count \in Nat
        BY <1>1, <1>2, <1>4
    <2> QED
        BY <1>1, <1>2, <2>1, <2>2 DEF TableStep, RowsOK, BasicInv, TypeOK, TimesOK
<1> QED
    BY <1>3, <1>4

\* The end of a handler.
Ends(r) ==
    /\ pc[r] \in Working /\ TableStep /\ ControlStep(r)
    /\ \/ pc'[r] = "done"
       \/ /\ pc'[r] = "refused" /\ fr'[r].cause = fr[r].cause
          /\ \/ pc[r] = "ban"
             \/ pc[r] = "block" /\ Blocked(fr[r])
             \/ pc[r] = "count" /\ Exhausted(fr[r])

\* An identifier has passed its check.
PassedOn(r) ==
    LET f == fr[r]
        g == fr'[r]
    IN  \/ /\ Len(f.left) > 1 /\ pc'[r] = "block"
           /\ g.left = Tail(f.left) /\ g.round = f.round /\ g.at = f.at
        \/ /\ Len(f.left) <= 1 /\ f.round = 1 /\ f.op \in {"login", "register"}
           /\ pc'[r] = "block" /\ g.round = 2 /\ g.at = now
           /\ g.left = Ids(f.op, 2, f.email, f.ip)
        \/ /\ Len(f.left) <= 1 /\ g.round = f.round /\ g.at = f.at
           /\ ~(f.round = 1 /\ f.op \in {"login", "register"})
           /\ \/ pc'[r] = "in" /\ ~(f.round = 1 /\ f.op = "social")
              \/ pc'[r] = "verify"

\* The checks of a request go on.
Checks(r) ==
    LET f == fr[r]
        g == fr'[r]
    IN  /\ TableStep /\ ControlStep(r) /\ UNCHANGED now
        /\ SameWho(f, g) /\ g.cause = f.cause
        /\ \/ /\ pc[r] = "block" /\ pc'[r] = "count" /\ g = f /\ UNCHANGED rows
              /\ ~Blocked(f)
           \/ /\ pc[r] = "count" /\ pc'[r] = "ban" /\ g = f /\ UNCHANGED rows
              /\ Exhausted(f)
           \/ /\ pc[r] = "count" /\ pc'[r] = "hit" /\ UNCHANGED rows
              /\ ~Exhausted(f)
              /\ g.left = f.left /\ g.round = f.round /\ g.at = f.at
              /\ g.start \in {Bucket(t, Window[ActionOf(f.op)]) : t \in {f.at, now}}
           \/ /\ pc[r] = "count" /\ ~Exhausted(f) /\ f.op \in {"login", "social"}
              /\ UNCHANGED rows /\ PassedOn(r)
           \/ pc[r] = "hit" /\ CountOne(f) /\ PassedOn(r)
           \/ /\ pc[r] = "verify" /\ f.op = "social" /\ pc'[r] = "block"
              /\ UNCHANGED rows /\ g.round = 2 /\ g.at = now
              /\ g.left = Ids(f.op, 2, f.email, f.ip)

\* What follows when they are over.
GoesOn(r) ==
    /\ TableStep /\ ControlStep(r) /\ UNCHANGED now
    /\ SameWho(fr[r], fr'[r]) /\ fr'[r].cause = fr[r].cause
    /\ pc[r] \in {"verify", "record", "clear", "in"}
    /\ pc'[r] \in {"record", "clear", "in", "reclear"}
    /\ pc'[r] = "record" \/ fr[r].op = "login"
    /\ pc[r] \in {"record", "in"} /\ pc'[r] = "record" =>
          pc[r] = "record" \/ fr[r].op = "social"

\* A refusal.
LEMMA RefuseEnds ==
    ASSUME BasicInv, NEW r \in Attempts, Refuse(r), TableStep, now' = now
    PROVE  ControlStep(r) /\ pc'[r] = "refused" /\ fr'[r].cause = fr[r].cause
<1> DEFINE f == [Blank EXCEPT !.cause = fr[r].cause]
<1>1. f \in Frame /\ f.cause = fr[r].cause /\ f.at = 0 /\ f.start = 0
    BY BlankType DEF BasicInv, TypeOK, Frame
<1>2. "refused" \in Steps /\ FrameFits("refused", f)
    BY DEF Steps, FrameFits, Working, Listing
<1>3. now' \in Nat /\ Turn(r, "refused", f)
    BY DEF Refuse, BasicInv, TypeOK
<1> HIDE DEF f
<1> QED
    BY <1>1, <1>2, <1>3, TurnMoves

\* The end of a handler that is let in, has failed or has recorded a failure.
LEMMA LeaveEnds ==
    ASSUME BasicInv, NEW r \in Attempts, Leave(r), TableStep, now' = now
    PROVE  ControlStep(r) /\ pc'[r] = "done"
<1>1. Blank \in Frame /\ Blank.at = 0 /\ Blank.start = 0
    BY BlankType
<1>2. "done" \in Steps /\ FrameFits("done", Blank)
    BY DEF Steps, FrameFits, Working, Listing
<1> QED
    BY <1>1, <1>2, TurnMoves DEF Leave, BasicInv, TypeOK

\* The start of a round.
LEMMA RoundType ==
    ASSUME BasicInv, NEW f \in Frame, f.op \in AllOps, f.email \in Emails,
           f.ip \in Addresses, NEW n \in 1..2
    PROVE  LET g == Round(f, n)
           IN  /\ g \in Frame /\ SameWho(f, g) /\ g.cause = f.cause
               /\ g.spent = f.spent /\ g.round = n /\ g.at = now /\ g.start = f.start
               /\ g.left = Ids(f.op, n, f.email, f.ip) /\ Len(g.left) > 0
               /\ f.op = "reset" => Len(g.left) = 1
<1> DEFINE l == Ids(f.op, n, f.email, f.ip)
           g == [f EXCEPT !.round = n, !.at = now, !.left = l]
<1>1. l \in Seq(Identifiers) /\ Len(l) > 0 /\ (f.op = "reset" => Len(l) = 1)
    BY IdsType
<1>2. Round(f, n) = g
    BY DEF Round
<1> HIDE DEF l
<1>3. g \in Frame
    <2>1. n \in 0..2 /\ now \in Nat
        BY DEF BasicInv, TypeOK
    <2> QED
        BY <1>1, <2>1 DEF Frame
<1>4. /\ g.op = f.op /\ g.email = f.email /\ g.ip = f.ip /\ g.until = f.until
      /\ g.spent = f.spent /\ g.cause = f.cause /\ g.round = n /\ g.at = now
      /\ g.start = f.start /\ g.left = l
    BY DEF Frame
<1> HIDE DEF g
<1> QED
    BY <1>1, <1>2, <1>3, <1>4 DEF SameWho, l

\* The frame with another list.
LEMMA LeftType ==
    ASSUME NEW f \in Frame, NEW l \in Seq(Identifiers)
    PROVE  LET g == [f EXCEPT !.left = l]
           IN  /\ g \in Frame /\ SameWho(f, g) /\ g.cause = f.cause /\ g.left = l
               /\ g.round = f.round /\ g.at = f.at /\ g.start = f.start
<1> DEFINE g == [f EXCEPT !.left = l]
<1>1. g \in Frame
    BY DEF Frame
<1>2. /\ g.op = f.op /\ g.email = f.email /\ g.ip = f.ip /\ g.until = f.until
      /\ g.spent = f.spent /\ g.cause = f.cause /\ g.round = f.round /\ g.at = f.at
      /\ g.start = f.start /\ g.left = l
    BY DEF Frame
<1> HIDE DEF g
<1> QED
    BY <1>1, <1>2 DEF SameWho, g

\* The frame with another window.
LEMMA StartType ==
    ASSUME NEW f \in Frame, NEW s \in Nat
    PROVE  LET g == [f EXCEPT !.start = s]
           IN  /\ g \in Frame /\ SameWho(f, g) /\ g.cause = f.cause
               /\ g.left = f.left /\ g.round = f.round /\ g.at = f.at /\ g.start = s
<1> DEFINE g == [f EXCEPT !.start = s]
<1>1. g \in Frame
    BY DEF Frame
<1>2. /\ g.op = f.op /\ g.email = f.email /\ g.ip = f.ip /\ g.until = f.until
      /\ g.spent = f.spent /\ g.cause = f.cause /\ g.round = f.round /\ g.at = f.at
      /\ g.start = s /\ g.left = f.left
    BY DEF Frame
<1> HIDE DEF g
<1> QED
    BY <1>1, <1>2 DEF SameWho, g

\* What a handler in a step knows.
LEMMA FrameFacts ==
    ASSUME BasicInv, NEW r \in Attempts
    PROVE  /\ fr[r] \in Frame /\ FrameFits(pc[r], fr[r]) /\ now \in Nat
           /\ fr[r].at <= now /\ fr[r].start <= now
           /\ fr[r].at \in Nat /\ fr[r].start \in Nat
           /\ fr[r].left \in Seq(Identifiers) /\ pc[r] \in Steps
BY DEF BasicInv, TypeOK, TimesOK, Frame

\* The identifier at hand passes: to the next, the next round, or on.
LEMMA PassOn ==
    ASSUME BasicInv, NEW r \in Attempts, pc[r] \in {"count", "hit"}, Pass(r),
           UNCHANGED now, pc[r] = "count" => fr[r].op \in {"login", "social"}
    PROVE  /\ ControlStep(r) /\ PassedOn(r)
           /\ SameWho(fr[r], fr'[r]) /\ fr'[r].cause = fr[r].cause
<1> DEFINE f == fr[r]
<1>1. /\ f \in Frame /\ FrameFits(pc[r], f) /\ now \in Nat /\ f.at <= now
      /\ f.start <= now /\ f.left \in Seq(Identifiers)
    BY FrameFacts
<1>2. /\ f.op \in AllOps /\ f.email \in Emails /\ f.ip \in Addresses
      /\ f.round \in {1, 2} /\ Len(f.left) > 0 /\ Len(f.left) \in Nat
      /\ f.op = "reset" => Len(f.left) = 1
    BY <1>1 DEF FrameFits, Working, Listing
<1>3. CASE Len(f.left) > 1
    <2> DEFINE g == [f EXCEPT !.left = Tail(f.left)]
    <2>1. Turn(r, "block", g)
        BY <1>3 DEF Pass
    <2>2. Tail(f.left) \in Seq(Identifiers) /\ Len(Tail(f.left)) = Len(f.left) - 1
        BY <1>1, <1>2, HeadTail
    <2>3. /\ g \in Frame /\ SameWho(f, g) /\ g.cause = f.cause
          /\ g.left = Tail(f.left) /\ g.round = f.round /\ g.at = f.at
          /\ g.start = f.start
        BY ZenonT(40), <1>1, <2>2, LeftType
    <2> HIDE DEF g
    <2>8. Len(f.left) > 1 /\ Len(f.left) # 1
        <3> DEFINE n == Len(f.left)
        <3>1. n \in Nat /\ n > 1
            BY <1>2, <1>3
        <3> HIDE DEF n
        <3>2. n # 1
            BY <3>1
        <3> QED
            BY <3>1, <3>2 DEF n
    <2>6. Len(Tail(f.left)) > 0
        BY <1>1, <1>2, <2>8, HeadTail
    <2>9. f.op # "reset"
        BY <1>2, <2>8
    <2>7. Len(g.left) > 0
        BY <2>3, <2>6
    <2> HIDE DEF f
    <2>4. "block" \in Steps /\ FrameFits("block", g)
        BY <1>2, <2>3, <2>7, <2>9 DEF Steps, FrameFits, Working, Listing, SameWho
    <2> USE DEF f
    <2>5. ControlStep(r) /\ pc'[r] = "block" /\ fr'[r] = g
        BY <1>1, <2>1, <2>3, <2>4, TurnMoves
    <2> QED
        BY <1>3, <2>3, <2>5 DEF PassedOn
<1>4. CASE Len(f.left) <= 1 /\ f.round = 1 /\ f.op \in {"login", "register"}
    <2> DEFINE g == Round(f, 2)
    <2>1. Turn(r, "block", g)
        BY <1>2, <1>4 DEF Pass, EndRound
    <2>3. /\ g \in Frame /\ SameWho(f, g) /\ g.cause = f.cause
          /\ g.left = Ids(f.op, 2, f.email, f.ip) /\ g.round = 2 /\ g.at = now
          /\ g.start = f.start /\ Len(g.left) > 0
        BY <1>1, <1>2, RoundType
    <2> HIDE DEF g
    <2>4. "block" \in Steps /\ FrameFits("block", g)
        BY <1>2, <1>4, <2>3 DEF Steps, FrameFits, Working, Listing, SameWho
    <2>5. ControlStep(r) /\ pc'[r] = "block" /\ fr'[r] = g
        BY <1>1, <2>1, <2>3, <2>4, TurnMoves
    <2> QED
        BY <1>4, <2>3, <2>5 DEF PassedOn
<1>5. CASE Len(f.left) <= 1 /\ ~(f.round = 1 /\ f.op \in {"login", "register"})
    <2> DEFINE g == [f EXCEPT !.left = <<>>]
               p == IF f.op = "login" \/ (f.op = "social" /\ f.round = 1)
                    THEN "verify" ELSE "in"
    <2>1. Turn(r, p, g)
        <3>1. <<f.op, f.round>> \in {<<"login", 2>>, <<"social", 1>>}
                <=> f.op = "login" \/ (f.op = "social" /\ f.round = 1)
            BY <1>2, <1>5
        <3> QED
            BY <1>2, <1>5, <3>1 DEF Pass, EndRound
    <2>2. <<>> \in Seq(Identifiers)
        OBVIOUS
    <2>3. /\ g \in Frame /\ SameWho(f, g) /\ g.cause = f.cause
          /\ g.round = f.round /\ g.at = f.at /\ g.start = f.start
        BY <1>1, <2>2, LeftType
    <2>4. \/ p = "verify" /\ f.op \in {"login", "social"}
             /\ (f.round = 1 <=> f.op = "social")
          \/ p = "in" /\ ~(f.round = 1 /\ f.op = "social")
        BY <1>2, <1>5
    <2> HIDE DEF g, p
    <2>5. p \in Steps /\ FrameFits(p, g)
        BY <1>2, <2>3, <2>4 DEF Steps, FrameFits, Working, Listing, SameWho
    <2>6. ControlStep(r) /\ pc'[r] = p /\ fr'[r] = g
        BY <1>1, <2>1, <2>3, <2>5, TurnMoves
    <2> QED
        BY <1>5, <2>3, <2>4, <2>6 DEF PassedOn
<1> QED
    BY <1>2, <1>3, <1>4, <1>5

\* The queries of the checks.
LEMMA CheckBlockKind ==
    ASSUME BasicInv, NEW r \in Attempts, CheckBlock(r)
    PROVE  Ends(r) \/ Checks(r)
<1>1. /\ fr[r] \in Frame /\ FrameFits("block", fr[r]) /\ now \in Nat
      /\ fr[r].at <= now /\ fr[r].start <= now
    BY FrameFacts DEF CheckBlock
<1>2. pc[r] = "block" /\ UNCHANGED <<now, rows>> /\ TableStep
    BY <1>1, QuietStep DEF CheckBlock
<1>3. CASE Blocked(fr[r])
    BY <1>2, <1>3, RefuseEnds DEF CheckBlock, Ends, Working, Listing
<1>4. CASE ~Blocked(fr[r])
    <2>1. Turn(r, "count", fr[r])
        BY <1>4 DEF CheckBlock
    <2>2. "count" \in Steps /\ FrameFits("count", fr[r])
        BY <1>1 DEF Steps, FrameFits, Working, Listing
    <2>3. ControlStep(r) /\ pc'[r] = "count" /\ fr'[r] = fr[r]
        BY <1>1, <1>2, <2>1, <2>2, TurnMoves
    <2> QED
        BY <1>2, <1>4, <2>3 DEF Checks, SameWho
<1> QED
    BY <1>3, <1>4

\* A counter at its limit ends a request or has its identifier blocked; below it
\* the identifier passes, or is counted.
LEMMA CheckCountKind ==
    ASSUME BasicInv, NEW r \in Attempts, CheckCount(r)
    PROVE  Ends(r) \/ Checks(r)
<1> DEFINE f == fr[r]
           t == IF f.op = "register" THEN now ELSE f.at
           s == Bucket(t, Window[ActionOf(f.op)])
<1>1. /\ f \in Frame /\ FrameFits("count", f) /\ now \in Nat
      /\ f.at <= now /\ f.start <= now /\ f.at \in Nat
    BY FrameFacts DEF CheckCount
<1>2. pc[r] = "count" /\ UNCHANGED <<now, rows>> /\ TableStep
    BY <1>1, QuietStep DEF CheckCount
<1>3. \/ Exhausted(f) /\ f.op = "reset" /\ Refuse(r)
      \/ Exhausted(f) /\ f.op # "reset" /\ Turn(r, "ban", f)
      \/ ~Exhausted(f) /\ f.op \in {"login", "social"} /\ Pass(r)
      \/ /\ ~Exhausted(f) /\ f.op \notin {"login", "social"}
         /\ Turn(r, "hit", [f EXCEPT !.start = s])
    BY DEF CheckCount
<1>4. CASE Exhausted(f) /\ f.op = "reset" /\ Refuse(r)
    BY <1>2, <1>4, RefuseEnds DEF Ends, Working, Listing
<1>5. CASE Exhausted(f) /\ f.op # "reset" /\ Turn(r, "ban", f)
    <2>1. "ban" \in Steps /\ FrameFits("ban", f)
        BY <1>1, <1>5 DEF Steps, FrameFits, Working, Listing
    <2>2. ControlStep(r) /\ pc'[r] = "ban" /\ fr'[r] = f
        BY <1>1, <1>2, <1>5, <2>1, TurnMoves
    <2> QED
        BY <1>2, <1>5, <2>2 DEF Checks, SameWho
<1>6. CASE ~Exhausted(f) /\ f.op \in {"login", "social"} /\ Pass(r)
    <2>1. /\ ControlStep(r) /\ PassedOn(r)
          /\ SameWho(f, fr'[r]) /\ fr'[r].cause = f.cause
        BY <1>2, <1>6, PassOn
    <2> QED
        BY <1>2, <1>6, <2>1 DEF Checks
<1>7. CASE /\ ~Exhausted(f) /\ f.op \notin {"login", "social"}
           /\ Turn(r, "hit", [f EXCEPT !.start = s])
    <2> DEFINE g == [f EXCEPT !.start = s]
    <2>1. f.op \in {"register", "reset"}
        BY <1>1, <1>7 DEF FrameFits, Working, Listing, AllOps
    <2>2. Window[ActionOf(f.op)] \in Nat \ {0} /\ t \in Nat /\ t <= now
        BY <1>1, <2>1 DEF ActionOf, Actions
    <2>3. s \in Nat /\ s <= now
        BY <1>1, <2>2, BucketType
    <2> HIDE DEF s
    <2>4. /\ g \in Frame /\ SameWho(f, g) /\ g.cause = f.cause /\ g.left = f.left
          /\ g.round = f.round /\ g.at = f.at /\ g.start = s
        BY <1>1, <2>3, StartType
    <2>5. Turn(r, "hit", g)
        BY <1>7
    <2> HIDE DEF g
    <2>6. "hit" \in Steps /\ FrameFits("hit", g)
        BY <1>1, <2>1, <2>4 DEF Steps, FrameFits, Working, Listing, SameWho
    <2>7. ControlStep(r) /\ pc'[r] = "hit" /\ fr'[r] = g
        BY <1>1, <1>2, <2>3, <2>4, <2>5, <2>6, TurnMoves
    <2>8. s \in {Bucket(x, Window[ActionOf(f.op)]) : x \in {f.at, now}}
        BY DEF s
    <2> QED
        BY <1>2, <1>7, <2>4, <2>7, <2>8 DEF Checks
<1> QED
    BY <1>3, <1>4, <1>5, <1>6, <1>7

\* A window or block that begins by now, of the identifier at hand.
LEMMA UpsertHead ==
    ASSUME BasicInv, NEW r \in Attempts, pc[r] \in Listing, UNCHANGED now,
           NEW act \in Actions \cup {"LOGIN_BLOCK", "REGISTER_BLOCK"},
           NEW s \in Nat, s <= now, NEW n \in Nat,
           Upsert(<<Head(fr[r].left), act, s>>, s + n)
    PROVE  TableStep
<1> DEFINE key == <<Head(fr[r].left), act, s>>
<1>1. fr[r].left \in Seq(Identifiers) /\ Len(fr[r].left) > 0
    BY FrameFacts DEF FrameFits
<1>2. Head(fr[r].left) \in Identifiers
    BY <1>1, HeadTail
<1>3. key \in Keys /\ key[3] = s
    BY <1>2 DEF Keys
<1>4. s + n \in Nat
    OBVIOUS
<1> HIDE DEF key
<1> QED
    BY <1>3, <1>4, UpsertGrows DEF key

\* A request that blocks an identifier is refused.
LEMMA BanEnds ==
    ASSUME BasicInv, NEW r \in Attempts, Ban(r)
    PROVE  Ends(r)
<1> DEFINE act == ActionOf(fr[r].op)
           s == Bucket(fr[r].at, BlockTime[act])
<1>1. /\ pc[r] = "ban" /\ Refuse(r) /\ UNCHANGED now
      /\ Upsert(<<Head(fr[r].left), Blocks[act], s>>, s + BlockTime[act])
    BY DEF Ban
<1>2. /\ FrameFits("ban", fr[r]) /\ fr[r].at \in Nat /\ now \in Nat /\ fr[r].at <= now
    BY <1>1, FrameFacts
<1>3. act \in {"LOGIN", "REGISTER"}
    BY <1>2 DEF FrameFits, Working, Listing, AllOps, ActionOf
<1>4. BlockTime[act] \in Nat \ {0} /\ Blocks[act] \in {"LOGIN_BLOCK", "REGISTER_BLOCK"}
    BY <1>3 DEF Blocks
<1> HIDE DEF act
<1>5. s \in Nat /\ s <= fr[r].at
    BY <1>2, <1>4, BucketType
<1>7. s <= now
    BY <1>2, <1>5
<1> HIDE DEF s
<1>6. TableStep
    BY <1>1, <1>4, <1>5, <1>7, UpsertHead DEF Listing
<1> QED
    BY <1>1, <1>6, RefuseEnds DEF Ends, Working, Listing

\* A request or a failure is counted.
LEMMA CountOneStep ==
    ASSUME BasicInv, NEW r \in Attempts, pc[r] \in {"hit", "record"},
           CountOne(fr[r]), UNCHANGED now
    PROVE  TableStep
<1> DEFINE act == ActionOf(fr[r].op)
<1>1. /\ FrameFits(pc[r], fr[r]) /\ fr[r].start \in Nat /\ fr[r].start <= now
    BY FrameFacts
<1>2. act \in Actions
    BY <1>1 DEF FrameFits, Working, Listing, AllOps, ActionOf, Actions
<1>3. Window[act] \in Nat
    BY <1>2
<1>4. Upsert(<<Head(fr[r].left), act, fr[r].start>>, fr[r].start + Window[act])
    BY DEF CountOne
<1> HIDE DEF act
<1> QED
    BY <1>1, <1>2, <1>3, <1>4, UpsertHead DEF Listing

\* A registration or a reset request is counted, and goes on.
LEMMA HitChecks ==
    ASSUME BasicInv, NEW r \in Attempts, Hit(r)
    PROVE  Checks(r)
<1>1. pc[r] = "hit" /\ CountOne(fr[r]) /\ Pass(r) /\ UNCHANGED now
    BY DEF Hit
<1>2. TableStep
    BY <1>1, CountOneStep
<1>3. /\ ControlStep(r) /\ PassedOn(r)
      /\ SameWho(fr[r], fr'[r]) /\ fr'[r].cause = fr[r].cause
    BY <1>1, PassOn
<1> QED
    BY <1>1, <1>2, <1>3 DEF Checks

\* The recording of a failure begins.
LEMMA RecordBegins ==
    ASSUME BasicInv, NEW r \in Attempts, pc[r] \in {"verify", "in"},
           fr[r].op \in {"login", "social"}, pc[r] = "in" => fr[r].op = "social",
           NEW ids \in Seq(Identifiers), Len(ids) > 0, Record(r, ids),
           UNCHANGED <<now, rows>>
    PROVE  /\ GoesOn(r) /\ pc'[r] = "record" /\ fr'[r].left = ids
           /\ fr'[r].start = Bucket(now, Window[ActionOf(fr[r].op)])
<1> DEFINE s == Bucket(now, Window[ActionOf(fr[r].op)])
           g == [fr[r] EXCEPT !.left = ids, !.start = s]
<1>1. /\ fr[r] \in Frame /\ FrameFits(pc[r], fr[r]) /\ now \in Nat
      /\ fr[r].at <= now
    BY FrameFacts
<1>2. Window[ActionOf(fr[r].op)] \in Nat \ {0}
    BY DEF ActionOf, Actions
<1>3. s \in Nat /\ s <= now
    BY <1>1, <1>2, BucketType
<1>4. Turn(r, "record", g)
    BY DEF Record
<1> HIDE DEF s
<1>5. /\ g \in Frame /\ SameWho(fr[r], g) /\ g.cause = fr[r].cause /\ g.left = ids
      /\ g.round = fr[r].round /\ g.at = fr[r].at /\ g.start = s
    <2> DEFINE f == fr[r]
    <2>1. f \in Frame /\ s \in Nat
        BY <1>1, <1>3
    <2>2. g = [f EXCEPT !.left = ids, !.start = s]
        OBVIOUS
    <2> HIDE DEF f, g
    <2>3. g \in Frame
        BY <2>1, <2>2 DEF Frame
    <2>4. /\ g.op = f.op /\ g.email = f.email /\ g.ip = f.ip /\ g.until = f.until
          /\ g.spent = f.spent /\ g.cause = f.cause /\ g.round = f.round
          /\ g.at = f.at /\ g.start = s /\ g.left = ids
        BY <2>1, <2>2 DEF Frame
    <2> QED
        BY <2>3, <2>4 DEF f, SameWho
<1> HIDE DEF g
<1>6. "record" \in Steps /\ FrameFits("record", g)
    BY <1>1, <1>5 DEF Steps, FrameFits, Working, Listing, SameWho
<1>7. TableStep /\ ControlStep(r) /\ pc'[r] = "record" /\ fr'[r] = g
    BY <1>1, <1>3, <1>4, <1>5, <1>6, TurnMoves, QuietStep
<1> QED
    BY <1>5, <1>7 DEF GoesOn, s

\* A turn that keeps the frame.
LEMMA SameFrame ==
    ASSUME BasicInv, NEW r \in Attempts, NEW p \in Steps, Turn(r, p, fr[r]),
           FrameFits(p, fr[r]), UNCHANGED <<now, rows>>
    PROVE  /\ TableStep /\ ControlStep(r) /\ pc'[r] = p
           /\ SameWho(fr[r], fr'[r]) /\ fr'[r].cause = fr[r].cause
<1>1. /\ fr[r] \in Frame /\ now \in Nat /\ fr[r].at <= now /\ fr[r].start <= now
    BY FrameFacts
<1> QED
    BY <1>1, TurnMoves, QuietStep DEF SameWho

\* What follows the verification: the second round of a social login, the
\* counting of a failure, or the clearing of the failures.
LEMMA VerifyKind ==
    ASSUME BasicInv, NEW r \in Attempts, Verify(r)
    PROVE  Checks(r) \/ GoesOn(r)
<1> DEFINE f == fr[r]
<1>1. /\ f \in Frame /\ FrameFits("verify", f) /\ now \in Nat
      /\ f.at <= now /\ f.start <= now /\ pc[r] = "verify" /\ UNCHANGED <<now, rows>>
    BY FrameFacts DEF Verify
<1>2. f.op \in AllOps /\ f.email \in Emails /\ f.ip \in Addresses
    BY <1>1 DEF FrameFits, Working
<1>3. CASE f.op = "login" /\ Turn(r, "clear", f)
    <2>1. "clear" \in Steps /\ FrameFits("clear", f)
        BY <1>1, <1>3 DEF Steps, FrameFits, Working, Listing
    <2> QED
        BY <1>1, <1>3, <2>1, SameFrame DEF GoesOn
<1>4. CASE f.op = "login" /\ Record(r, Ids("login", 1, f.email, f.ip))
    <2>1. /\ Ids("login", 1, f.email, f.ip) \in Seq(Identifiers)
          /\ Len(Ids("login", 1, f.email, f.ip)) > 0
        BY <1>2, IdsType DEF AllOps
    <2> QED
        BY <1>1, <1>4, <2>1, RecordBegins
<1>5. CASE f.op = "social" /\ Turn(r, "block", Round(f, 2))
    <2> DEFINE g == Round(f, 2)
    <2>1. /\ g \in Frame /\ SameWho(f, g) /\ g.cause = f.cause
          /\ g.left = Ids(f.op, 2, f.email, f.ip) /\ g.round = 2 /\ g.at = now
          /\ g.start = f.start /\ Len(g.left) > 0
        BY <1>1, <1>2, RoundType
    <2> HIDE DEF g
    <2>2. "block" \in Steps /\ FrameFits("block", g)
        BY <1>1, <1>5, <2>1 DEF Steps, FrameFits, Working, Listing, SameWho
    <2>3. ControlStep(r) /\ pc'[r] = "block" /\ fr'[r] = g
        BY <1>1, <1>5, <2>1, <2>2, TurnMoves DEF g
    <2> QED
        BY <1>1, <1>5, <2>1, <2>3, QuietStep DEF Checks
<1>6. ASSUME f.op = "social",
             NEW ids \in {Ids("social", 1, f.email, f.ip), SocialIds(f.email, f.ip),
                          SubSeq(SocialIds(f.email, f.ip), 1, 2)},
             Record(r, ids)
      PROVE  GoesOn(r)
    <2>1. /\ Ids("social", 1, f.email, f.ip) \in Seq(Identifiers)
          /\ Len(Ids("social", 1, f.email, f.ip)) > 0
        BY <1>2, IdsType DEF AllOps
    <2>2. /\ SocialIds(f.email, f.ip) \in Seq(Identifiers)
          /\ Len(SocialIds(f.email, f.ip)) > 0
          /\ SubSeq(SocialIds(f.email, f.ip), 1, 2) \in Seq(Identifiers)
          /\ Len(SubSeq(SocialIds(f.email, f.ip), 1, 2)) > 0
        BY <1>2, SocialIdsType
    <2>3. ids \in Seq(Identifiers) /\ Len(ids) > 0
        BY <1>6, <2>1, <2>2, Zenon
    <2> QED
        BY <1>1, <1>6, <2>3, RecordBegins
<1> QED
    BY <1>3, <1>4, <1>5, <1>6 DEF Verify

\* A failure is counted under one identifier after the other.
LEMMA RecordKind ==
    ASSUME BasicInv, NEW r \in Attempts, RecordNext(r)
    PROVE  Ends(r) \/ GoesOn(r)
<1> DEFINE f == fr[r]
           g == [f EXCEPT !.left = Tail(f.left)]
<1>1. /\ f \in Frame /\ FrameFits("record", f) /\ now \in Nat
      /\ f.at <= now /\ f.start <= now /\ f.left \in Seq(Identifiers)
      /\ pc[r] = "record" /\ UNCHANGED now /\ CountOne(f)
    BY FrameFacts DEF RecordNext
<1>2. TableStep
    BY <1>1, CountOneStep
<1>3. CASE Len(f.left) = 1 /\ Leave(r)
    BY <1>1, <1>2, <1>3, LeaveEnds DEF Ends, Working, Listing
<1>4. CASE Len(f.left) # 1 /\ Turn(r, "record", g)
    <2>1. /\ Tail(f.left) \in Seq(Identifiers)
          /\ Len(Tail(f.left)) = Len(f.left) - 1 /\ Len(f.left) > 0 /\ Len(f.left) \in Nat
        BY <1>1, HeadTail DEF FrameFits, Listing
    <2>2. /\ g \in Frame /\ SameWho(f, g) /\ g.cause = f.cause
          /\ g.left = Tail(f.left) /\ g.round = f.round /\ g.at = f.at
          /\ g.start = f.start
        BY <1>1, <2>1, LeftType
    <2> HIDE DEF g
    <2>6. Len(Tail(f.left)) > 0
        <3> DEFINE n == Len(f.left)
        <3>1. n # 1 /\ n > 0 /\ n \in Nat
            BY <1>4, <2>1
        <3> HIDE DEF n
        <3>2. n > 1
            BY <3>1
        <3> QED
            BY <1>1, <2>1, <3>2, HeadTail DEF n
    <2>3. Len(g.left) > 0
        BY <2>2, <2>6
    <2>4. "record" \in Steps /\ FrameFits("record", g)
        BY <1>1, <2>2, <2>3 DEF Steps, FrameFits, Working, Listing, SameWho
    <2>5. ControlStep(r) /\ pc'[r] = "record" /\ fr'[r] = g
        BY <1>1, <1>4, <2>2, <2>4, TurnMoves
    <2> QED
        BY <1>1, <1>2, <2>2, <2>5 DEF GoesOn
<1> QED
    BY <1>3, <1>4 DEF RecordNext

\* What follows when a request is let in.
LEMMA EnterKind ==
    ASSUME BasicInv, NEW r \in Attempts, Enter(r)
    PROVE  Ends(r) \/ GoesOn(r)
<1> DEFINE f == fr[r]
<1>1. /\ f \in Frame /\ FrameFits("in", f) /\ now \in Nat
      /\ pc[r] = "in" /\ UNCHANGED <<now, rows>> /\ TableStep
    BY FrameFacts, QuietStep DEF Enter
<1>2. f.op \in AllOps /\ f.email \in Emails /\ f.ip \in Addresses
    BY <1>1 DEF FrameFits, Working
<1>3. CASE f.op = "login" /\ Turn(r, "reclear", f)
    <2>1. "reclear" \in Steps /\ FrameFits("reclear", f)
        BY <1>1, <1>3 DEF Steps, FrameFits, Working, Listing
    <2> QED
        BY <1>1, <1>3, <2>1, SameFrame DEF GoesOn
<1>4. CASE Leave(r)
    BY <1>1, <1>4, LeaveEnds DEF Ends, Working
<1>5. CASE f.op = "social" /\ Record(r, SocialIds(f.email, f.ip))
    BY <1>1, <1>2, <1>5, SocialIdsType, RecordBegins
<1> QED
    BY <1>3, <1>4, <1>5 DEF Enter

\* A query that throws ends the request and leaves the table alone.
LEMMA ThrowEnds ==
    ASSUME BasicInv, NEW r \in Attempts, Throw(r)
    PROVE  Ends(r)
<1>1. pc[r] \in Working /\ now \in Nat /\ UNCHANGED <<now, rows>> /\ Leave(r)
    BY FrameFacts DEF Throw, InFlight, Steps, Working, Listing
<1> QED
    BY <1>1, QuietStep, LeaveEnds DEF Ends

\* The failures of a login are cleared, in the table and in all frames.
LEMMA ClearKind ==
    ASSUME BasicInv, NEW r \in Attempts, Clear(r)
    PROVE  Ends(r) \/ GoesOn(r)
<1> DEFINE ids == ToSet(Ids("login", 1, fr[r].email, fr[r].ip))
           kept == [q \in Attempts |-> [fr[q] EXCEPT !.spent = @ \ ids]]
<1>1. /\ rows' = [k \in {x \in DOMAIN rows : x[1] \notin ids \/ x[2] \notin {"LOGIN"}}
                    |-> rows[k]]
      /\ \/ pc[r] = "clear" /\ pc' = [pc EXCEPT ![r] = "in"] /\ fr' = kept
         \/ /\ pc[r] = "reclear" /\ pc' = [pc EXCEPT ![r] = "done"]
            /\ fr' = [kept EXCEPT ![r] = Blank]
      /\ UNCHANGED now
    BY DEF Clear, ClearRows
<1> HIDE DEF ids
<1>2. ASSUME NEW q \in Attempts
      PROVE  /\ kept[q] \in Frame /\ Stays(fr[q], kept[q])
             /\ kept[q].cause = fr[q].cause /\ kept[q].spent = fr[q].spent \ ids
    <2> DEFINE f == fr[q]
               g == [f EXCEPT !.spent = @ \ ids]
    <2>1. f \in Frame
        BY FrameFacts
    <2> HIDE DEF f
    <2>2. g \in Frame
        BY <2>1 DEF Frame
    <2>3. /\ g.op = f.op /\ g.email = f.email /\ g.ip = f.ip /\ g.until = f.until
          /\ g.spent = f.spent \ ids /\ g.cause = f.cause /\ g.round = f.round
          /\ g.at = f.at /\ g.start = f.start /\ g.left = f.left
        BY <2>1 DEF Frame
    <2>4. kept[q] = g
        BY DEF f
    <2> HIDE DEF g
    <2> QED
        BY <2>2, <2>3, <2>4 DEF Stays, SameWho, f
<1>3. kept \in [Attempts -> Frame]
    BY <1>2
<1> HIDE DEF kept
<1>4. Blank \in Frame /\ Blank.at = 0 /\ Blank.start = 0 /\ Blank.spent = {}
    BY BlankType DEF Blank
<1>5. fr' \in [Attempts -> Frame]
    BY <1>1, <1>3, <1>4
<1>6. \A q \in Attempts : fr'[q].spent \cap ids = {}
    BY <1>1, <1>2, <1>3, <1>4
<1>7. TableStep
    <2>1. \A k \in DOMAIN rows : /\ rows[k] \in [count : Nat \ {0}, exp : Nat]
                                 /\ rows[k].count \in Nat
        BY DEF BasicInv, TypeOK
    <2>2. /\ DOMAIN rows' = {x \in DOMAIN rows : x[1] \notin ids \/ x[2] # "LOGIN"}
          /\ \A k \in DOMAIN rows' : rows'[k] = rows[k]
        BY <1>1
    <2>3. \A k \in DOMAIN rows : k[2] \notin Actions => k \in DOMAIN rows'
        BY <2>2 DEF Actions
    <2>4. \A k \in DOMAIN rows :
             k \in DOMAIN rows' \/ \A q \in Attempts : k[1] \notin fr'[q].spent
        BY <1>6, <2>2
    <2>5. RowsOK'
        BY <1>1, <2>1, <2>2 DEF RowsOK, BasicInv, TypeOK, TimesOK
    <2> QED
        BY <1>1, <2>1, <2>2, <2>3, <2>4, <2>5 DEF TableStep, BasicInv, TypeOK
<1>8. pc' \in [Attempts -> Steps] /\ Others(r)
    <2>1. pc' \in [Attempts -> Steps] /\ \A q \in Attempts \ {r} : pc'[q] = pc[q]
        BY <1>1 DEF BasicInv, TypeOK, Steps
    <2>2. \A q \in Attempts \ {r} : fr'[q] = kept[q]
        BY <1>1, <1>3
    <2> QED
        BY <1>2, <2>1, <2>2 DEF Others
<1>9. FrameFits(pc[r], fr[r]) /\ fr[r].at <= now /\ fr[r].start <= now /\ now \in Nat
    BY FrameFacts
<1>10. CASE pc[r] = "clear"
    <2>1. pc'[r] = "in" /\ fr'[r] = kept[r]
        BY <1>1, <1>10 DEF BasicInv, TypeOK
    <2>2. SameWho(fr[r], fr'[r]) /\ fr'[r].cause = fr[r].cause
        BY <1>2, <2>1 DEF Stays
    <2>3. ControlStep(r)
        BY <1>1, <1>2, <1>5, <1>8, <1>9, <1>10, <2>1
           DEF ControlStep, FrameFits, Working, Listing, Stays, SameWho
    <2>4. fr[r].op = "login"
        BY <1>9, <1>10 DEF FrameFits
    <2> QED
        BY <1>1, <1>7, <1>10, <2>1, <2>2, <2>3, <2>4 DEF GoesOn
<1>11. CASE pc[r] = "reclear"
    <2>1. pc'[r] = "done" /\ fr'[r] = Blank
        BY <1>1, <1>3, <1>11 DEF BasicInv, TypeOK
    <2>2. ControlStep(r)
        BY <1>1, <1>4, <1>5, <1>8, <1>9, <2>1 DEF ControlStep, FrameFits, Working, Listing
    <2> QED
        BY <1>7, <1>11, <2>1, <2>2 DEF Ends, Working
<1> QED
    BY <1>1, <1>10, <1>11

\* The arrival of a request.
Comes(r) ==
    LET f     == fr'[r]
        first == ToSet(Ids(f.op, 1, f.email, f.ip))
        ids   == first \cup ToSet(Ids(f.op, 2, f.email, f.ip))
        early == IF f.op = "register" THEN Limit[ActionOf(f.op)] - 1
                                      ELSE Limit[ActionOf(f.op)]
    IN  /\ pc[r] = "new" /\ UNCHANGED <<now, rows>> /\ TableStep /\ ControlStep(r)
        /\ pc'[r] = IF f.op = "reset" THEN "count" ELSE "block"
        /\ f.op \in AllOps /\ f.round = 1 /\ f.at = now
        /\ f.left = Ids(f.op, 1, f.email, f.ip)
        /\ f.until = UNION {BlocksAt(f.op, id, now) : id \in ids}
        /\ f.spent = {id \in first : Spent(f.op, id, Limit[ActionOf(f.op)])}
        /\ f.cause = \/ f.until # {} \/ InFlight # {}
                     \/ \E id \in ids : Spent(f.op, id, early)
        /\ \A q \in InFlight : fr'[q].cause

\* The frame of a request that arrives, before its first round of checks.
Newcomer(op, e, a) ==
    LET first == ToSet(Ids(op, 1, e, a))
        ids   == first \cup ToSet(Ids(op, 2, e, a))
        until == UNION {BlocksAt(op, id, now) : id \in ids}
        limit == Limit[ActionOf(op)]
        early == IF op = "register" THEN limit - 1 ELSE limit
    IN  [Blank EXCEPT !.op = op, !.email = e, !.ip = a, !.until = until,
                      !.spent = {id \in first : Spent(op, id, limit)},
                      !.cause = \/ until # {} \/ InFlight # {}
                                \/ \E id \in ids : Spent(op, id, early)]

ArrivesAs(r, op, e, a) ==
    /\ pc[r] = "new"
    /\ pc' = [pc EXCEPT ![r] = IF op = "reset" THEN "count" ELSE "block"]
    /\ fr' = [q \in Attempts |->
                 IF q = r THEN Round(Newcomer(op, e, a), 1)
                 ELSE [fr[q] EXCEPT !.cause = @ \/ q \in InFlight]]
    /\ UNCHANGED <<now, rows>>

\* The frame of a newcomer has its type, and names it.
LEMMA NewcomerType ==
    ASSUME BasicInv, NEW op \in Operations, NEW e \in Emails, NEW a \in Addresses
    PROVE  LET f == Newcomer(op, e, a)
           IN  f \in Frame /\ f.op = op /\ f.email = e /\ f.ip = a /\ f.start = 0
<1> DEFINE first == ToSet(Ids(op, 1, e, a))
           ids   == first \cup ToSet(Ids(op, 2, e, a))
           until == UNION {BlocksAt(op, id, now) : id \in ids}
           limit == Limit[ActionOf(op)]
           early == IF op = "register" THEN limit - 1 ELSE limit
           spent == {id \in first : Spent(op, id, limit)}
           cause == \/ until # {} \/ InFlight # {}
                    \/ \E id \in ids : Spent(op, id, early)
           f     == [Blank EXCEPT !.op = op, !.email = e, !.ip = a, !.until = until,
                                  !.spent = spent, !.cause = cause]
<1>1. Newcomer(op, e, a) = f
    BY DEF Newcomer
<1>2. op \in AllOps /\ now \in Nat
    BY DEF BasicInv, TypeOK
<1>3. until \in SUBSET Nat
    BY DEF BlocksAt, BasicInv, TypeOK
<1>4. spent \in SUBSET Identifiers
    <2>1. Ids(op, 1, e, a) \in Seq(Identifiers)
        BY <1>2, IdsType
    <2>2. first \subseteq Identifiers
        BY <2>1 DEF ToSet
    <2> QED
        BY <2>2
<1>5. cause \in BOOLEAN
    OBVIOUS
<1> HIDE DEF until, spent, cause
<1>6. f \in Frame
    BY <1>2, <1>3, <1>4, <1>5, BlankType DEF Frame
<1>7. /\ f.op = op /\ f.email = e /\ f.ip = a /\ f.until = until /\ f.spent = spent
      /\ f.cause = cause /\ f.start = 0
    BY DEF Blank
<1> HIDE DEF f
<1> QED
    BY <1>1, <1>6, <1>7

\* What a request meets when it arrives.
LEMMA NewcomerMeets ==
    ASSUME NEW op, NEW e, NEW a
    PROVE  LET f     == Newcomer(op, e, a)
               first == ToSet(Ids(op, 1, e, a))
               ids   == first \cup ToSet(Ids(op, 2, e, a))
               limit == Limit[ActionOf(op)]
               early == IF op = "register" THEN limit - 1 ELSE limit
           IN  /\ f.until = UNION {BlocksAt(op, id, now) : id \in ids}
               /\ f.spent = {id \in first : Spent(op, id, limit)}
               /\ f.cause = \/ f.until # {} \/ InFlight # {}
                            \/ \E id \in ids : Spent(op, id, early)
<1> DEFINE first == ToSet(Ids(op, 1, e, a))
           ids   == first \cup ToSet(Ids(op, 2, e, a))
           until == UNION {BlocksAt(op, id, now) : id \in ids}
           limit == Limit[ActionOf(op)]
           early == IF op = "register" THEN limit - 1 ELSE limit
           spent == {id \in first : Spent(op, id, limit)}
           cause == \/ until # {} \/ InFlight # {}
                    \/ \E id \in ids : Spent(op, id, early)
           f     == [Blank EXCEPT !.op = op, !.email = e, !.ip = a, !.until = until,
                                  !.spent = spent, !.cause = cause]
<1>1. Newcomer(op, e, a) = f
    BY DEF Newcomer
<1>2. cause = \/ until # {} \/ InFlight # {}
              \/ \E id \in ids : Spent(op, id, early)
    OBVIOUS
<1> HIDE DEF until, spent, cause
<1>3. f.until = until /\ f.spent = spent /\ f.cause = cause
    BY DEF Blank
<1> HIDE DEF f
<1>4. f.cause = \/ f.until # {} \/ InFlight # {}
                \/ \E id \in ids : Spent(op, id, early)
    BY <1>2, <1>3
<1>5. /\ f.until = UNION {BlocksAt(op, id, now) : id \in ids}
      /\ f.spent = {id \in first : Spent(op, id, limit)}
    BY <1>3 DEF until, spent
<1> QED
    BY <1>1, <1>4, <1>5

\* What an arrival does to the other requests.
LEMMA ArriveMoves ==
    ASSUME BasicInv, NEW r \in Attempts, NEW op, NEW e, NEW a, ArrivesAs(r, op, e, a),
           NEW q \in Attempts \ {r}
    PROVE  /\ fr'[q] \in Frame /\ Stays(fr[q], fr'[q]) /\ pc'[q] = pc[q]
           /\ q \in InFlight => fr'[q].cause
<1> DEFINE h == fr[q]
           b == h.cause \/ q \in InFlight
           k == [h EXCEPT !.cause = b]
<1>1. h \in Frame /\ b \in BOOLEAN /\ (h.cause => b) /\ (q \in InFlight => b)
    BY FrameFacts
<1>2. fr'[q] = k
    BY DEF ArrivesAs
<1> HIDE DEF h, b
<1>3. k \in Frame
    BY <1>1 DEF Frame
<1>4. /\ k.op = h.op /\ k.email = h.email /\ k.ip = h.ip /\ k.until = h.until
      /\ k.spent = h.spent /\ k.cause = b /\ k.round = h.round
      /\ k.at = h.at /\ k.start = h.start /\ k.left = h.left
    BY <1>1 DEF Frame
<1> HIDE DEF k
<1>5. pc'[q] = pc[q]
    BY DEF ArrivesAs, BasicInv, TypeOK
<1> QED
    BY <1>1, <1>2, <1>3, <1>4, <1>5 DEF Stays, SameWho, h

\* An arrival is as Comes describes it.
LEMMA ArriveComes ==
    ASSUME BasicInv, NEW r \in Attempts, Arrive(r)
    PROVE  Comes(r)
<1>1. PICK op \in Operations, e \in Emails, a \in Addresses : ArrivesAs(r, op, e, a)
    <2>1. PICK op \in Operations, e \in Emails, a \in Addresses :
            LET first == ToSet(Ids(op, 1, e, a))
                ids   == first \cup ToSet(Ids(op, 2, e, a))
                until == UNION {BlocksAt(op, id, now) : id \in ids}
                limit == Limit[ActionOf(op)]
                early == IF op = "register" THEN limit - 1 ELSE limit
                f     == [Blank EXCEPT
                            !.op = op, !.email = e, !.ip = a,
                            !.until = until,
                            !.spent = {id \in first : Spent(op, id, limit)},
                            !.cause = \/ until # {} \/ InFlight # {}
                                      \/ \E id \in ids : Spent(op, id, early)]
            IN /\ pc[r] = "new"
               /\ Cardinality(InFlight) < MaxInFlight
               /\ pc' = [pc EXCEPT ![r] = IF op = "reset" THEN "count" ELSE "block"]
               /\ fr' = [q \in Attempts |->
                            IF q = r THEN Round(f, 1)
                            ELSE [fr[q] EXCEPT !.cause = @ \/ q \in InFlight]]
               /\ UNCHANGED <<now, rows>>
        BY Zenon DEF Arrive
    <2>2. ArrivesAs(r, op, e, a)
        BY <2>1 DEF ArrivesAs, Newcomer
    <2> QED
        BY <2>2
<1> DEFINE f == Newcomer(op, e, a)
           g == Round(f, 1)
           p == IF op = "reset" THEN "count" ELSE "block"
<1>2. op \in AllOps /\ now \in Nat
    BY DEF BasicInv, TypeOK
<1>3. f \in Frame /\ f.op = op /\ f.email = e /\ f.ip = a /\ f.start = 0
    BY NewcomerType
<1>4. /\ g \in Frame /\ g.op = op /\ g.email = e /\ g.ip = a
      /\ g.until = f.until /\ g.spent = f.spent /\ g.cause = f.cause
      /\ g.start = 0 /\ g.round = 1 /\ g.at = now
      /\ g.left = Ids(op, 1, e, a) /\ Len(g.left) > 0
      /\ op = "reset" => Len(g.left) = 1
    <2>1. 1 \in 1..2
        OBVIOUS
    <2> HIDE DEF f
    <2> QED
        BY <1>2, <1>3, <2>1, RoundType DEF SameWho
<1>5. /\ pc[r] = "new" /\ UNCHANGED <<now, rows>> /\ fr'[r] = g /\ pc'[r] = p
      /\ pc' \in [Attempts -> Steps]
    BY <1>1 DEF ArrivesAs, BasicInv, TypeOK, Steps
<1>6. fr' = [q \in Attempts |-> fr'[q]]
    BY <1>1 DEF ArrivesAs
<1>7. \A q \in Attempts \ {r} :
         /\ fr'[q] \in Frame /\ Stays(fr[q], fr'[q]) /\ pc'[q] = pc[q]
         /\ q \in InFlight => fr'[q].cause
    BY <1>1, ArriveMoves
<1> HIDE DEF f, g
<1>8. FrameFits(p, g)
    BY <1>2, <1>4 DEF FrameFits, Working, Listing
<1> HIDE DEF p
<1>9. ControlStep(r)
    <2>1. fr' \in [Attempts -> Frame]
        <3>1. \A q \in Attempts : fr'[q] \in Frame
            BY <1>4, <1>5, <1>7
        <3> QED
            BY <1>6, <3>1
    <2>2. Others(r)
        BY <1>7 DEF Others
    <2>3. fr'[r].at <= now' /\ fr'[r].start <= now'
        BY <1>2, <1>4, <1>5
    <2> QED
        BY <1>5, <1>8, <2>1, <2>2, <2>3 DEF ControlStep
<1>10. TableStep
    <2>1. UNCHANGED rows /\ now' = now
        BY <1>5
    <2> QED
        BY <1>2, <2>1, QuietStep
<1>11. \A q \in InFlight : fr'[q].cause
    BY <1>5, <1>7 DEF InFlight
<1>12. pc'[r] = IF fr'[r].op = "reset" THEN "count" ELSE "block"
    BY <1>4, <1>5 DEF p
<1>13. /\ fr'[r].op = op /\ fr'[r].email = e /\ fr'[r].ip = a
       /\ fr'[r].until = f.until /\ fr'[r].spent = f.spent /\ fr'[r].cause = f.cause
    BY <1>4, <1>5
<1>14. /\ fr'[r].op \in AllOps /\ fr'[r].round = 1 /\ fr'[r].at = now
       /\ fr'[r].left = Ids(op, 1, e, a)
    BY <1>2, <1>4, <1>5
<1>15. pc[r] = "new" /\ UNCHANGED <<now, rows>>
    BY <1>5
<1> DEFINE first == ToSet(Ids(op, 1, e, a))
           ids   == first \cup ToSet(Ids(op, 2, e, a))
           limit == Limit[ActionOf(op)]
           early == IF op = "register" THEN limit - 1 ELSE limit
<1>16. /\ f.until = UNION {BlocksAt(op, id, now) : id \in ids}
       /\ f.spent = {id \in first : Spent(op, id, limit)}
       /\ f.cause = \/ f.until # {} \/ InFlight # {}
                    \/ \E id \in ids : Spent(op, id, early)
    BY ZenonT(40), NewcomerMeets DEF f
<1> DEFINE h == fr'[r]
<1> HIDE DEF h
<1>17. /\ h.op = op /\ h.email = e /\ h.ip = a
       /\ h.until = UNION {BlocksAt(h.op, id, now) : id \in ids}
       /\ h.spent = {id \in first : Spent(h.op, id, limit)}
       /\ h.cause = \/ h.until # {} \/ InFlight # {}
                    \/ \E id \in ids : Spent(h.op, id, early)
    BY <1>13, <1>16 DEF h
<1> QED
    BY <1>9, <1>10, <1>11, <1>12, <1>14, <1>15, <1>17 DEF Comes, h

\* A step of the system, by what it does.
Kind(r) == Comes(r) \/ Ends(r) \/ Checks(r) \/ GoesOn(r)

Idle == UNCHANGED <<rows, pc, fr>> /\ now' \in Nat /\ now <= now'

\* The actions of a request.
Acts(r) == Arrive(r) \/ Handle(r) \/ Throw(r)

\* They are of these kinds.
LEMMA ActsKind ==
    ASSUME BasicInv, NEW r \in Attempts, Acts(r)
    PROVE  Kind(r)
BY ArriveComes, ThrowEnds, CheckBlockKind, CheckCountKind, BanEnds, HitChecks,
   VerifyKind, RecordKind, ClearKind, EnterKind DEF Acts, Handle, Kind

\* A step of the system is one of a request, or leaves all but the clock alone.
LEMMA StepActs ==
    ASSUME BasicInv, [Next]_vars
    PROVE  Idle \/ \E r \in Attempts : Acts(r)
<1>1. now \in Nat
    BY DEF BasicInv, TypeOK
<1>2. CASE UNCHANGED vars
    BY <1>1, <1>2 DEF vars, Idle
<1>3. CASE Tick
    BY <1>1, <1>3 DEF Tick, Idle
<1>4. CASE Finished
    BY <1>1, <1>4 DEF Finished, vars, Idle
<1> QED
    BY <1>2, <1>3, <1>4 DEF Next, Acts

\* It is of one of the kinds, then.
LEMMA StepKinds ==
    ASSUME BasicInv, [Next]_vars
    PROVE  Idle \/ \E r \in Attempts : Kind(r)
BY StepActs, ActsKind

\* What all kinds have in common.
LEMMA KindStep ==
    ASSUME NEW r \in Attempts, Kind(r)
    PROVE  TableStep /\ ControlStep(r)
BY DEF Kind, Comes, Ends, Checks, GoesOn

\* The basic invariant is inductive.
LEMMA NextBasic == BasicInv /\ [Next]_vars => BasicInv'
<1> SUFFICES ASSUME BasicInv, [Next]_vars PROVE BasicInv'
    OBVIOUS
<1>1. CASE Idle
    <2>1. /\ rows' = rows /\ pc' = pc /\ fr' = fr /\ now' \in Nat /\ now <= now'
          /\ now \in Nat
        BY <1>1 DEF Idle, BasicInv, TypeOK
    <2>2. TypeOK'
        BY <2>1 DEF BasicInv, TypeOK
    <2>3. TimesOK'
        <3>1. \A q \in Attempts : fr[q].at \in Nat /\ fr[q].start \in Nat
            BY FrameFacts
        <3>2. \A k \in Keys : k[3] \in Nat
            BY DEF Keys
        <3> QED
            BY <2>1, <3>1, <3>2 DEF BasicInv, TypeOK, TimesOK
    <2>4. (\A q \in Attempts : FrameFits(pc[q], fr[q]))'
        BY <2>1 DEF BasicInv
    <2> QED
        BY <2>2, <2>3, <2>4 DEF BasicInv
<1>2. ASSUME NEW r \in Attempts, Kind(r) PROVE BasicInv'
    <2>1. TableStep /\ ControlStep(r)
        BY <1>2, KindStep
    <2>2. TypeOK'
        BY <2>1 DEF TableStep, RowsOK, ControlStep, TypeOK
    <2>3. ASSUME NEW q \in Attempts
          PROVE  FrameFits(pc'[q], fr'[q]) /\ fr'[q].at <= now' /\ fr'[q].start <= now'
        <3>1. CASE q = r
            BY <2>1, <3>1 DEF ControlStep
        <3>2. CASE q # r
            <4>1. pc'[q] = pc[q] /\ Stays(fr[q], fr'[q])
                BY <2>1, <3>2 DEF ControlStep, Others
            <4>2. /\ FrameFits(pc[q], fr[q]) /\ fr[q].at <= now /\ fr[q].start <= now
                  /\ fr[q].at \in Nat /\ fr[q].start \in Nat /\ now \in Nat
                BY FrameFacts
            <4>3. FrameFits(pc'[q], fr'[q])
                BY <4>1, <4>2 DEF Stays, SameWho, FrameFits
            <4>4. now' \in Nat /\ now <= now'
                BY <2>1 DEF TableStep
            <4>5. fr'[q].at = fr[q].at /\ fr'[q].start = fr[q].start
                BY <4>1 DEF Stays
            <4> QED
                BY <4>2, <4>3, <4>4, <4>5
        <3> QED
            BY <3>1, <3>2
    <2>4. TimesOK'
        BY <2>1, <2>3 DEF TableStep, RowsOK, TimesOK
    <2> QED
        BY <2>2, <2>3, <2>4 DEF BasicInv
<1> QED
    BY <1>1, <1>2, StepKinds

\* All variables keep their types, whatever the requests do.
THEOREM AbuseTypes == Spec => []TypeOK
<1>1. BasicInv => TypeOK
    BY DEF BasicInv
<1> QED
    BY <1>1, InitBasic, NextBasic, PTL DEF Spec
-----------------------------------------------------------------------------
(* A request that came in while one of its identifiers was blocked.         *)

\* The checks that a request relies on: all but those of a failure to record
\* under identifiers that were not checked.
Bound(p, f) == p \in Working /\ ~(p = "record" /\ f.op = "social")

\* The identifiers whose blocks a request has yet to look at. All of them are
\* looked at in the second round.
Heed(p, f) ==
    IF f.round = 1
    THEN IF p \in {"block", "count", "ban", "hit", "verify"}
         THEN ToSet(Ids(f.op, 2, f.email, f.ip)) ELSE {}
    ELSE IF p = "block" THEN ToSet(f.left)
    ELSE IF p \in {"count", "ban", "hit"} THEN ToSet(Tail(f.left)) ELSE {}

\* In table rs at time n: the block until t is over, or it is there under an
\* identifier of H.
Held(rs, n, H, op, t) ==
    \/ t <= n
    \/ \E k \in DOMAIN rs : /\ op # "reset" /\ k[1] \in H
                            /\ k[2] = Blocks[ActionOf(op)] /\ rs[k].exp = t

\* The blocks that a request has met are over, or it will still find them.
BlockInv ==
    \A r \in Attempts : Bound(pc[r], fr[r]) =>
        \A t \in fr[r].until : Held(rows, now, Heed(pc[r], fr[r]), fr[r].op, t)

\* A block outlives every step.
LEMMA HeldStays ==
    ASSUME BasicInv, TableStep, NEW H, NEW G, H \subseteq G, NEW op \in AllOps,
           NEW t \in Nat, Held(rows, now, H, op, t)
    PROVE  Held(rows', now', G, op, t)
<1>1. CASE t <= now
    <2>1. now \in Nat /\ now' \in Nat /\ now <= now'
        BY DEF TableStep, BasicInv, TypeOK
    <2> QED
        BY <1>1, <2>1 DEF Held
<1>2. CASE ~(t <= now)
    <2>1. PICK k \in DOMAIN rows : /\ op # "reset" /\ k[1] \in H
                                   /\ k[2] = Blocks[ActionOf(op)] /\ rows[k].exp = t
        BY <1>2 DEF Held
    <2>2. Blocks[ActionOf(op)] \notin Actions
        BY <2>1 DEF Blocks, ActionOf, Actions, AllOps
    <2>3. k \in DOMAIN rows' /\ rows'[k].exp = t
        BY <2>1, <2>2 DEF TableStep
    <2> QED
        BY <2>1, <2>3 DEF Held
<1> QED
    BY <1>1, <1>2

\* A check for blocks that passes has found those of its identifier over.
LEMMA NotBlocked ==
    ASSUME BasicInv, NEW r \in Attempts, pc[r] = "block", ~Blocked(fr[r]),
           NEW t \in Nat, Held(rows, now, ToSet(fr[r].left), fr[r].op, t)
    PROVE  Held(rows, now, ToSet(Tail(fr[r].left)), fr[r].op, t)
<1> DEFINE f == fr[r]
<1>1. /\ f \in Frame /\ FrameFits("block", f) /\ now \in Nat /\ f.at \in Nat
      /\ f.at <= now /\ f.left \in Seq(Identifiers)
    BY FrameFacts
<1>2. ToSet(f.left) = {Head(f.left)} \cup ToSet(Tail(f.left))
    BY <1>1, HeadTail DEF FrameFits, Listing
<1>3. CASE t <= now
    BY <1>3 DEF Held
<1>4. CASE ~(t <= now)
    <2>1. PICK k \in DOMAIN rows : /\ f.op # "reset" /\ k[1] \in ToSet(f.left)
                                   /\ k[2] = Blocks[ActionOf(f.op)] /\ rows[k].exp = t
        BY <1>4 DEF Held
    <2>2. k[1] # Head(f.left)
        <3> SUFFICES ASSUME k[1] = Head(f.left) PROVE FALSE
            OBVIOUS
        <3>1. rows[k].exp > f.at
            BY <1>1, <1>4, <2>1
        <3>2. rows[k].exp \in BlocksAt(f.op, Head(f.left), f.at)
            BY <2>1, <3>1 DEF BlocksAt
        <3> QED
            BY <3>2 DEF Blocked
    <2> QED
        BY <1>2, <2>1, <2>2 DEF Held
<1> QED
    BY <1>3, <1>4

\* A step of the checks holds on to the blocks that are left to be found.
LEMMA ChecksHeld ==
    ASSUME BasicInv, NEW r \in Attempts, Checks(r), NEW t \in Nat,
           Held(rows, now, Heed(pc[r], fr[r]), fr[r].op, t)
    PROVE  Held(rows', now', Heed(pc'[r], fr'[r]), fr'[r].op, t)
<1> DEFINE f == fr[r]
           g == fr'[r]
<1>1. /\ f \in Frame /\ FrameFits(pc[r], f) /\ FrameFits(pc'[r], g)
      /\ f.left \in Seq(Identifiers) /\ g.op = f.op /\ g.email = f.email /\ g.ip = f.ip
      /\ TableStep /\ BasicInv
    BY FrameFacts DEF Checks, ControlStep, SameWho
<1>2. /\ f.op \in AllOps /\ f.round \in {1, 2}
      /\ pc[r] \in Listing => Len(f.left) > 0 /\ Len(f.left) \in Nat
      /\ pc[r] = "verify" => (f.round = 1 <=> f.op = "social")
      /\ pc'[r] = "verify" => (g.round = 1 <=> g.op = "social")
      /\ pc[r] \in {"block", "count", "hit", "verify"}
    BY <1>1 DEF FrameFits, Working, Listing, Checks
<1> DEFINE all == ToSet(Ids(f.op, 2, f.email, f.ip))
           tail == ToSet(Tail(f.left))
           H == Heed(pc[r], f)
           G == Heed(pc'[r], g)
<1>3. CASE H \subseteq G
    BY <1>1, <1>2, <1>3, HeldStays DEF Checks
<1>4. CASE pc[r] = "block" /\ pc'[r] = "count" /\ g = f /\ ~Blocked(f)
    <2>1. CASE f.round = 1
        BY <1>3, <1>4, <2>1 DEF Heed
    <2>2. CASE f.round # 1
        <3>1. H = ToSet(f.left) /\ G = tail
            BY <1>4, <2>2 DEF Heed
        <3>2. Held(rows, now, tail, f.op, t)
            BY <1>4, <3>1, NotBlocked
        <3> QED
            BY <1>1, <1>2, <3>1, <3>2, HeldStays
    <2> QED
        BY <2>1, <2>2
<1>5. CASE pc[r] = "count" /\ pc'[r] \in {"ban", "hit"} /\ g.left = f.left
           /\ g.round = f.round
    BY <1>1, <1>3, <1>5 DEF Heed
<1>6. CASE pc[r] = "verify" /\ f.op = "social" /\ pc'[r] = "block" /\ g.round = 2
           /\ g.left = Ids(f.op, 2, f.email, f.ip)
    BY <1>1, <1>2, <1>3, <1>6 DEF Heed
<1>7. CASE pc[r] \in {"count", "hit"} /\ PassedOn(r)
    <2>1. H = IF f.round = 1 THEN all ELSE tail
        BY <1>7 DEF Heed
    <2>2. CASE /\ Len(f.left) > 1 /\ pc'[r] = "block" /\ g.left = Tail(f.left)
               /\ g.round = f.round
        <3>1. G = IF f.round = 1 THEN all ELSE tail
            BY <1>1, <2>2 DEF Heed
        <3> QED
            BY <1>3, <2>1, <3>1
    <2>3. CASE /\ Len(f.left) <= 1 /\ f.round = 1 /\ pc'[r] = "block" /\ g.round = 2
               /\ g.left = Ids(f.op, 2, f.email, f.ip)
        <3>1. G = all
            BY <2>3 DEF Heed
        <3> QED
            BY <1>3, <2>1, <2>3, <3>1
    <2>4. CASE /\ Len(f.left) <= 1 /\ g.round = f.round
               /\ ~(f.round = 1 /\ f.op \in {"login", "register"})
               /\ \/ pc'[r] = "in" /\ ~(f.round = 1 /\ f.op = "social")
                  \/ pc'[r] = "verify"
        <3>1. CASE f.round # 1
            <4>1. tail = {}
                BY <1>1, <1>2, <1>7, <2>4, HeadTail DEF Listing
            <4> QED
                BY <1>3, <2>1, <3>1, <4>1
        <3>2. CASE f.round = 1 /\ pc'[r] = "verify"
            <4>1. G = all
                BY <1>1, <2>4, <3>2 DEF Heed
            <4> QED
                BY <1>3, <2>1, <3>2, <4>1
        <3>3. CASE f.round = 1 /\ pc'[r] = "in"
            <4>1. f.op = "reset"
                BY <1>2, <2>4, <3>3 DEF AllOps
            <4>2. t <= now
                BY <4>1 DEF Held
            <4>3. t <= now' /\ now' = now
                BY <4>2 DEF Checks
            <4> QED
                BY <4>3 DEF Held
        <3> QED
            BY <2>4, <3>1, <3>2, <3>3
    <2> QED
        BY <1>7, <2>2, <2>3, <2>4 DEF PassedOn
<1> QED
    BY <1>4, <1>5, <1>6, <1>7 DEF Checks

\* The blocks a request meets when it arrives are there for it to find.
LEMMA ComesHeld ==
    ASSUME BasicInv, NEW r \in Attempts, Comes(r), NEW t \in fr'[r].until
    PROVE  Held(rows', now', Heed(pc'[r], fr'[r]), fr'[r].op, t)
<1> DEFINE f == fr'[r]
           first == ToSet(Ids(f.op, 1, f.email, f.ip))
           second == ToSet(Ids(f.op, 2, f.email, f.ip))
<1>1. /\ rows' = rows /\ now' = now /\ f.op \in AllOps /\ f.round = 1
      /\ pc'[r] \in {"block", "count"} /\ FrameFits(pc'[r], f)
      /\ f.until = UNION {BlocksAt(f.op, id, now) : id \in first \cup second}
    BY DEF Comes, ControlStep
<1>2. f.email \in Emails /\ f.ip \in Addresses
    BY <1>1 DEF FrameFits, Working, Listing
<1>3. first \subseteq second
    <2>1. 1 \in 1..2
        OBVIOUS
    <2> QED
        BY <1>1, <1>2, <2>1, IdsType
<1>4. Heed(pc'[r], f) = second
    BY <1>1 DEF Heed
<1>5. PICK id \in first \cup second : t \in BlocksAt(f.op, id, now)
    BY <1>1
<1>6. PICK k \in DOMAIN rows : /\ f.op # "reset" /\ k[1] = id
                               /\ k[2] = Blocks[ActionOf(f.op)] /\ t = rows[k].exp
    BY <1>5 DEF BlocksAt
<1> QED
    BY <1>1, <1>3, <1>4, <1>5, <1>6 DEF Held

\* What a request does after its checks it does with all blocks over.
LEMMA GoesOnHeld ==
    ASSUME BasicInv, NEW r \in Attempts, GoesOn(r), Bound(pc'[r], fr'[r])
    PROVE  Bound(pc[r], fr[r]) /\ Heed(pc[r], fr[r]) = {}
<1> DEFINE f == fr[r]
<1>1. FrameFits(pc[r], f) /\ fr'[r].op = f.op
    BY FrameFacts DEF GoesOn, SameWho
<1>2. pc[r] = "verify" => f.op = "login"
    BY <1>1 DEF GoesOn, Bound, FrameFits
<1>3. pc[r] = "verify" => f.round = 2
    BY <1>1, <1>2 DEF FrameFits, Working
<1>4. Heed(pc[r], f) = {}
    BY <1>3 DEF Heed, GoesOn
<1> QED
    BY <1>1, <1>4 DEF Bound, GoesOn, Working, Listing

\* The invariant about blocks is kept by every step.
LEMMA NextBlock == BasicInv /\ BlockInv /\ [Next]_vars => BlockInv'
<1> SUFFICES ASSUME BasicInv, BlockInv, [Next]_vars,
                    NEW q \in Attempts, Bound(pc'[q], fr'[q]), NEW t \in fr'[q].until
             PROVE  Held(rows', now', Heed(pc'[q], fr'[q]), fr'[q].op, t)
    BY DEF BlockInv
<1>1. \A x \in fr[q].until : x \in Nat
    BY FrameFacts DEF Frame
<1>2. FrameFits(pc[q], fr[q])
    BY FrameFacts
<1>3. Bound(pc[q], fr[q]) => fr[q].op \in AllOps
    BY <1>2 DEF Bound, FrameFits
<1>4. CASE Idle
    <2>1. rows' = rows /\ pc' = pc /\ fr' = fr /\ TableStep
        BY <1>4, QuietStep DEF Idle
    <2>2. Bound(pc[q], fr[q]) /\ t \in fr[q].until
        BY <2>1
    <2>3. Held(rows, now, Heed(pc[q], fr[q]), fr[q].op, t)
        BY <2>2 DEF BlockInv
    <2>4. Held(rows', now', Heed(pc[q], fr[q]), fr[q].op, t)
        BY <1>1, <1>3, <2>1, <2>2, <2>3, HeldStays
    <2> QED
        BY <2>1, <2>4
<1>5. ASSUME NEW r \in Attempts, Kind(r)
      PROVE  Held(rows', now', Heed(pc'[q], fr'[q]), fr'[q].op, t)
    <2>1. TableStep /\ ControlStep(r)
        BY <1>5, KindStep
    <2>2. CASE q # r
        <3>1. pc'[q] = pc[q] /\ Stays(fr[q], fr'[q])
            BY <2>1, <2>2 DEF ControlStep, Others
        <3>2. /\ Bound(pc[q], fr[q]) /\ t \in fr[q].until /\ fr'[q].op = fr[q].op
              /\ Heed(pc'[q], fr'[q]) = Heed(pc[q], fr[q])
            BY <3>1 DEF Stays, SameWho, Bound, Heed
        <3>3. Held(rows, now, Heed(pc[q], fr[q]), fr[q].op, t)
            BY <3>2 DEF BlockInv
        <3> QED
            BY <1>1, <1>3, <2>1, <3>2, <3>3, HeldStays
    <2>3. CASE q = r /\ Comes(r)
        BY <2>3, ComesHeld
    <2>4. CASE q = r /\ Ends(r)
        BY <2>4 DEF Ends, Bound, Working, Listing
    <2>5. CASE q = r /\ Checks(r)
        <3>1. t \in fr[r].until /\ Bound(pc[r], fr[r])
            BY <2>5 DEF Checks, SameWho, Bound, Working, Listing
        <3>2. Held(rows, now, Heed(pc[r], fr[r]), fr[r].op, t)
            BY <2>5, <3>1 DEF BlockInv
        <3> QED
            BY <1>1, <2>5, <3>1, <3>2, ChecksHeld
    <2>6. CASE q = r /\ GoesOn(r)
        <3>1. t \in fr[r].until /\ fr'[r].op = fr[r].op
            BY <2>6 DEF GoesOn, SameWho
        <3>2. Bound(pc[r], fr[r]) /\ Heed(pc[r], fr[r]) = {}
            BY <2>6, GoesOnHeld
        <3>3. Held(rows, now, {}, fr[r].op, t)
            BY <2>6, <3>1, <3>2 DEF BlockInv
        <3>4. {} \subseteq Heed(pc'[r], fr'[r])
            OBVIOUS
        <3> QED
            BY <1>1, <1>3, <2>1, <2>6, <3>1, <3>2, <3>3, <3>4, HeldStays
    <2> QED
        BY <1>5, <2>2, <2>3, <2>4, <2>5, <2>6 DEF Kind
<1> QED
    BY <1>4, <1>5, StepKinds

\* A request that is past its checks has nothing left to look for.
LEMMA PassedHeeds ==
    ASSUME BasicInv, NEW r \in Attempts, Passed(r)
    PROVE  Bound(pc[r], fr[r]) /\ Heed(pc[r], fr[r]) = {}
<1>1. FrameFits(pc[r], fr[r])
    BY FrameFacts
<1>2. pc[r] = "verify" => fr[r].round = 2
    BY <1>1 DEF FrameFits, Passed, Working
<1> QED
    BY <1>2 DEF Passed, Heed, Bound, Working, Listing

\* No request that came in blocked is let past the checks before the block is
\* over, at any limits, for any number of requests at work.
THEOREM BlockedRefused == Spec => []BlockedIsRefused
<1>1. Init => BlockInv
    BY DEF Init, BlockInv, Blank
<1>2. BasicInv /\ BlockInv => BlockedIsRefused
    <2> SUFFICES ASSUME BasicInv, BlockInv, NEW r \in Attempts, Passed(r),
                        NEW t \in fr[r].until
                 PROVE  t <= now
        BY DEF BlockedIsRefused
    <2>1. Bound(pc[r], fr[r]) /\ Heed(pc[r], fr[r]) = {}
        BY PassedHeeds
    <2>2. Held(rows, now, {}, fr[r].op, t)
        BY <2>1 DEF BlockInv
    <2> QED
        BY <2>2 DEF Held
<1> QED
    BY <1>1, <1>2, InitBasic, NextBasic, NextBlock, PTL DEF Spec
-----------------------------------------------------------------------------
(* A request that came in with a counter at its limit.                      *)

\* The identifiers whose counters a request has yet to look at in its first
\* round. None may be left when that is over.
Due(p, f) ==
    IF f.round # 1 THEN {}
    ELSE IF p \in {"block", "count"} THEN ToSet(f.left)
    ELSE IF p = "hit" THEN ToSet(Tail(f.left)) ELSE {}

Tally(rs, id, act, start) ==
    IF <<id, act, start>> \in DOMAIN rs THEN rs[<<id, act, start>>].count ELSE 0

\* In table rs, a handler that reads the time `at` finds the counter of an
\* identifier at its limit.
Full(rs, id, op, at) ==
    LET act == ActionOf(op)
    IN  Tally(rs, id, act, Bucket(at, Window[act])) >= Limit[act]

Owes(p, f) == Bound(p, f) /\ p # "ban"

\* What was at its limit when the request came in, and has not been cleared
\* since, the request will still find at its limit.
SpentInv ==
    \A r \in Attempts : Owes(pc[r], fr[r]) =>
        \A id \in fr[r].spent : /\ id \in Due(pc[r], fr[r])
                                /\ Full(rows, id, fr[r].op, fr[r].at)

\* A counter that is at its limit stays there, or is cleared for all requests.
LEMMA FullStays ==
    ASSUME BasicInv, TableStep, NEW q \in Attempts, NEW id \in fr'[q].spent,
           NEW op \in AllOps, NEW at \in Nat, Full(rows, id, op, at)
    PROVE  Full(rows', id, op, at)
<1> DEFINE act == ActionOf(op)
           key == <<id, act, Bucket(at, Window[act])>>
<1>1. act \in Actions
    BY DEF ActionOf, Actions, AllOps
<1>2. Limit[act] \in Nat
    BY <1>1
<1>3. \A k \in DOMAIN rows : rows[k].count \in Nat
    BY DEF BasicInv, TypeOK
<1>4. \A k \in DOMAIN rows' : rows'[k].count \in Nat
    BY DEF TableStep, RowsOK
<1>5. /\ Full(rows, id, op, at) <=>
            (IF key \in DOMAIN rows THEN rows[key].count ELSE 0) >= Limit[act]
      /\ Full(rows', id, op, at) <=>
            (IF key \in DOMAIN rows' THEN rows'[key].count ELSE 0) >= Limit[act]
    BY DEF Full, Tally
<1>6. key[1] = id
    OBVIOUS
<1> HIDE DEF act, key
<1>7. CASE key \in DOMAIN rows
    <2>1. key \in DOMAIN rows' /\ rows[key].count <= rows'[key].count
        BY <1>6, <1>7 DEF TableStep
    <2> QED
        BY <1>2, <1>3, <1>4, <1>5, <1>7, <2>1
<1>8. CASE key \notin DOMAIN rows
    BY <1>2, <1>4, <1>5, <1>8
<1> QED
    BY <1>7, <1>8

\* The check of a counter.
LEMMA ExhaustedIsFull ==
    ASSUME NEW f
    PROVE  Exhausted(f) <=> Full(rows, Head(f.left), f.op, f.at)
BY DEF Exhausted, Full, Tally, Count

\* A step of the checks leaves no full counter of the first round behind.
LEMMA ChecksDue ==
    ASSUME BasicInv, NEW r \in Attempts, Checks(r), Owes(pc'[r], fr'[r]),
           NEW id \in Due(pc[r], fr[r]), Full(rows, id, fr[r].op, fr[r].at)
    PROVE  /\ id \in Due(pc'[r], fr'[r])
           /\ fr'[r].op = fr[r].op /\ fr'[r].at = fr[r].at
<1> DEFINE f == fr[r]
           g == fr'[r]
<1>1. /\ f \in Frame /\ FrameFits(pc[r], f) /\ f.left \in Seq(Identifiers)
      /\ g.op = f.op /\ pc'[r] # "ban" /\ f.round = 1
    BY FrameFacts DEF Checks, SameWho, Owes, Due
<1>2. pc[r] \in {"block", "count", "hit"}
    BY DEF Due, Checks
<1>3. /\ Len(f.left) > 0 /\ ToSet(f.left) = {Head(f.left)} \cup ToSet(Tail(f.left))
      /\ Len(f.left) <= 1 => ToSet(Tail(f.left)) = {}
    BY <1>1, <1>2, HeadTail DEF FrameFits, Listing
<1>4. CASE pc[r] = "block" /\ pc'[r] = "count" /\ g = f
    BY <1>1, <1>4 DEF Due
<1>5. pc[r] = "count" /\ ~Exhausted(f) => id # Head(f.left)
    BY ExhaustedIsFull
<1>6. pc[r] = "hit" \/ (pc[r] = "count" /\ ~Exhausted(f)) => id \in ToSet(Tail(f.left))
    BY <1>1, <1>3, <1>5 DEF Due
<1>7. CASE pc[r] = "count" /\ ~Exhausted(f) /\ pc'[r] = "hit"
           /\ g.left = f.left /\ g.round = f.round /\ g.at = f.at
    BY <1>1, <1>6, <1>7 DEF Due
<1>8. CASE (pc[r] = "hit" \/ (pc[r] = "count" /\ ~Exhausted(f))) /\ PassedOn(r)
    <2>1. id \in ToSet(Tail(f.left))
        BY <1>6, <1>8
    <2>2. /\ Len(f.left) > 1 /\ pc'[r] = "block" /\ g.left = Tail(f.left)
          /\ g.round = f.round /\ g.at = f.at
        BY <1>3, <1>8, <2>1 DEF PassedOn
    <2> QED
        BY <1>1, <2>1, <2>2 DEF Due
<1> QED
    BY <1>1, <1>2, <1>4, <1>7, <1>8 DEF Checks

\* The invariant about counters is kept by every step.
LEMMA NextSpent == BasicInv /\ SpentInv /\ [Next]_vars => SpentInv'
<1> SUFFICES ASSUME BasicInv, SpentInv, [Next]_vars,
                    NEW q \in Attempts, Owes(pc'[q], fr'[q]), NEW id \in fr'[q].spent
             PROVE  /\ id \in Due(pc'[q], fr'[q])
                    /\ Full(rows', id, fr'[q].op, fr'[q].at)
    BY DEF SpentInv
<1>1. FrameFits(pc[q], fr[q]) /\ fr[q].at \in Nat
    BY FrameFacts
<1>2. Owes(pc[q], fr[q]) => fr[q].op \in AllOps
    BY <1>1 DEF Owes, Bound, FrameFits
<1>3. CASE Idle
    <2>1. rows' = rows /\ pc' = pc /\ fr' = fr
        BY <1>3 DEF Idle
    <2>2. Owes(pc[q], fr[q]) /\ id \in fr[q].spent
        BY <2>1
    <2> QED
        BY <2>1, <2>2 DEF SpentInv
<1>4. ASSUME NEW r \in Attempts, Kind(r)
      PROVE  /\ id \in Due(pc'[q], fr'[q])
             /\ Full(rows', id, fr'[q].op, fr'[q].at)
    <2>1. TableStep /\ ControlStep(r)
        BY <1>4, KindStep
    <2>2. CASE q # r
        <3>1. pc'[q] = pc[q] /\ Stays(fr[q], fr'[q])
            BY <2>1, <2>2 DEF ControlStep, Others
        <3>2. /\ Owes(pc[q], fr[q]) /\ id \in fr[q].spent
              /\ fr'[q].op = fr[q].op /\ fr'[q].at = fr[q].at
              /\ Due(pc'[q], fr'[q]) = Due(pc[q], fr[q])
            BY <3>1 DEF Stays, SameWho, Owes, Bound, Due
        <3>3. id \in Due(pc[q], fr[q]) /\ Full(rows, id, fr[q].op, fr[q].at)
            BY <3>2 DEF SpentInv
        <3> QED
            BY <1>1, <1>2, <2>1, <3>2, <3>3, FullStays
    <2>3. CASE q = r /\ Comes(r)
        <3> DEFINE f == fr'[r]
        <3>1. /\ f.round = 1 /\ f.at = now /\ f.left = Ids(f.op, 1, f.email, f.ip)
              /\ pc'[r] \in {"block", "count"} /\ rows' = rows
              /\ id \in ToSet(f.left) /\ Spent(f.op, id, Limit[ActionOf(f.op)])
            BY <2>3 DEF Comes
        <3> HIDE DEF f
        <3>2. Full(rows, id, f.op, f.at)
            BY <3>1 DEF Spent, Full, Tally, Count
        <3> QED
            BY <2>3, <3>1, <3>2 DEF Due, f
    <2>4. CASE q = r /\ Ends(r)
        BY <2>4 DEF Ends, Owes, Bound, Working, Listing
    <2>5. CASE q = r /\ Checks(r)
        <3>1. /\ id \in fr[r].spent /\ pc[r] \in {"block", "count", "hit", "verify"}
              /\ Owes(pc[r], fr[r])
            BY <2>5 DEF Checks, SameWho, Owes, Bound, Working, Listing
        <3>2. id \in Due(pc[r], fr[r]) /\ Full(rows, id, fr[r].op, fr[r].at)
            BY <3>1 DEF SpentInv
        <3>3. /\ id \in Due(pc'[r], fr'[r])
              /\ fr'[r].op = fr[r].op /\ fr'[r].at = fr[r].at
            BY <2>5, <3>2, ChecksDue
        <3> QED
            BY <1>1, <1>2, <2>1, <2>5, <3>1, <3>2, <3>3, FullStays
    <2>6. CASE q = r /\ GoesOn(r)
        <3>1. id \in fr[r].spent /\ Bound(pc'[r], fr'[r])
            BY <2>6 DEF GoesOn, SameWho, Owes
        <3>2. Bound(pc[r], fr[r])
            BY <2>6, <3>1, GoesOnHeld
        <3>3. Owes(pc[r], fr[r]) /\ Due(pc[r], fr[r]) = {}
            BY <2>6, <3>2 DEF GoesOn, Owes, Due
        <3> QED
            BY <3>1, <3>3 DEF SpentInv
    <2> QED
        BY <1>4, <2>2, <2>3, <2>4, <2>5, <2>6 DEF Kind
<1> QED
    BY <1>3, <1>4, StepKinds

\* No request that came in with an identifier at its limit is let past the
\* checks, unless a successful login has cleared the counter since: neither
\* those at work beside it nor the clock help it.
THEOREM ExhaustedRefused == Spec => []ExhaustedIsRefused
<1>1. Init => SpentInv
    BY DEF Init, SpentInv, Blank
<1>2. BasicInv /\ SpentInv => ExhaustedIsRefused
    <2> SUFFICES ASSUME BasicInv, SpentInv, NEW r \in Attempts, Passed(r)
                 PROVE  fr[r].spent = {}
        BY DEF ExhaustedIsRefused
    <2>1. Bound(pc[r], fr[r])
        BY PassedHeeds
    <2>2. Owes(pc[r], fr[r]) /\ Due(pc[r], fr[r]) = {}
        BY <2>1 DEF Owes, Due, Passed
    <2> QED
        BY <2>2 DEF SpentInv
<1> QED
    BY <1>1, <1>2, InitBasic, NextBasic, NextSpent, PTL DEF Spec
-----------------------------------------------------------------------------
(* A request that no other was at work with.                                *)

Checking(p, f) == p \in {"block", "count", "ban", "hit"}
                  \/ (p = "verify" /\ f.round = 1)

\* The identifiers a request has yet to check, in this round or the next.
Pending(p, f) ==
    IF f.round = 1 THEN ToSet(Ids(f.op, 2, f.email, f.ip))
    ELSE IF p = "hit" THEN ToSet(Tail(f.left)) ELSE ToSet(f.left)

\* A registration will count those of its first round itself, once.
Allow(f, id) ==
    IF f.op = "register" /\ f.round = 1 /\ id \in ToSet(f.left)
    THEN Limit[ActionOf(f.op)] - 1 ELSE Limit[ActionOf(f.op)]

Distinct(s) == \A i, j \in DOMAIN s : s[i] = s[j] => i = j

\* In table rs nothing refuses the request: the blocks of its identifiers are
\* over, and the counters of every window that it may check are below the limit.
NoBlock(rs, f) ==
    \A k \in DOMAIN rs :
        /\ f.op # "reset" /\ k[1] \in ToSet(Ids(f.op, 2, f.email, f.ip))
        /\ k[2] = Blocks[ActionOf(f.op)]
        => rs[k].exp <= f.at

NotFull(rs, p, f) ==
    \A id \in Pending(p, f), t \in Nat :
        t >= f.at => Tally(rs, id, ActionOf(f.op), Bucket(t, Window[ActionOf(f.op)]))
                        < Allow(f, id)

Listed(p, f) ==
    /\ p # "verify" => ToSet(f.left) \subseteq ToSet(Ids(f.op, 2, f.email, f.ip))
    /\ f.op = "register" => Distinct(f.left)

Free(rs, p, f) == p # "ban" /\ NoBlock(rs, f) /\ NotFull(rs, p, f) /\ Listed(p, f)

CauseInv ==
    /\ RefusedForCause
    /\ \A r \in Attempts : Checking(pc[r], fr[r]) /\ ~fr[r].cause =>
          /\ \A q \in Attempts \ {r} : pc[q] \notin Working
          /\ Free(rows, pc[r], fr[r])

\* The identifiers of a registration differ from one another.
LEMMA DistinctIds ==
    ASSUME NEW n, NEW e \in Emails, NEW a \in Addresses
    PROVE  Distinct(Ids("register", n, e, a))
<1> DEFINE x == <<"register", e, None>>
           y == <<"register", None, a>>
           z == <<"register", e, a>>
<1>1. Ids("register", n, e, a) = <<x, y, z>>
    BY DEF Ids, Triple
<1>2. x # y /\ x # z /\ y # z
    <2>1. e # None /\ a # None
        OBVIOUS
    <2> QED
        BY <2>1
<1> HIDE DEF x, y, z
<1> QED
    BY <1>1, <1>2 DEF Distinct

\* The tail of a list of distinct entries.
LEMMA DistinctTail ==
    ASSUME NEW S, NEW s \in Seq(S), Len(s) > 0, Distinct(s)
    PROVE  Head(s) \notin ToSet(Tail(s)) /\ Distinct(Tail(s))
<1>1. Head(s) = s[1] /\ DOMAIN s = 1..Len(s) /\ Len(s) \in Nat
    OBVIOUS
<1>2. /\ DOMAIN Tail(s) = 1..(Len(s) - 1)
      /\ \A i \in 1..(Len(s) - 1) : Tail(s)[i] = s[i + 1]
    OBVIOUS
<1>3. \A i \in 1..(Len(s) - 1) : i + 1 \in 1..Len(s) /\ i + 1 # 1
    BY <1>1
<1>4. 1 \in 1..Len(s)
    BY <1>1
<1>5. \A i \in 1..(Len(s) - 1) : Tail(s)[i] # Head(s)
    BY <1>1, <1>2, <1>3, <1>4 DEF Distinct
<1>6. ASSUME NEW i \in 1..(Len(s) - 1), NEW j \in 1..(Len(s) - 1),
             Tail(s)[i] = Tail(s)[j]
      PROVE  i = j
    <2>1. s[i + 1] = s[j + 1]
        BY <1>2, <1>6
    <2>2. i + 1 = j + 1
        BY <1>1, <1>3, <2>1 DEF Distinct
    <2> QED
        BY <2>2
<1> QED
    BY <1>2, <1>5, <1>6 DEF ToSet, Distinct

\* What counting one attempt changes.
LEMMA CountOneTally ==
    ASSUME BasicInv, NEW f \in Frame, f.op \in AllOps, CountOne(f)
    PROVE  /\ \A k \in DOMAIN rows' : k[2] \notin Actions =>
                  k \in DOMAIN rows /\ rows'[k] = rows[k]
           /\ \A id, act, s : /\ Tally(rows, id, act, s) \in Nat
                              /\ Tally(rows', id, act, s) <= Tally(rows, id, act, s) + 1
                              /\ Tally(rows', id, act, s) \in Nat
                              /\ id # Head(f.left) =>
                                    Tally(rows', id, act, s) = Tally(rows, id, act, s)
<1> DEFINE key == <<Head(f.left), ActionOf(f.op), f.start>>
           exp == f.start + Window[ActionOf(f.op)]
<1>1. Upsert(key, exp)
    BY DEF CountOne
<1>2. key[2] \in Actions /\ key[1] = Head(f.left)
    BY DEF ActionOf, Actions, AllOps
<1> HIDE DEF key, exp
<1>3. /\ DOMAIN rows' = DOMAIN rows \cup {key}
      /\ \A k \in DOMAIN rows \ {key} : rows'[k] = rows[k]
      /\ rows'[key] = IF key \in DOMAIN rows THEN [rows[key] EXCEPT !.count = @ + 1]
                                             ELSE [count |-> 1, exp |-> exp]
    BY <1>1 DEF Upsert
<1>4. \A k \in DOMAIN rows : /\ rows[k] \in [count : Nat \ {0}, exp : Nat]
                             /\ rows[k].count \in Nat
    BY DEF BasicInv, TypeOK
<1>5. rows'[key].count = IF key \in DOMAIN rows THEN rows[key].count + 1 ELSE 1
    BY <1>3, <1>4
<1>6. ASSUME NEW id, NEW act, NEW s
      PROVE  /\ Tally(rows, id, act, s) \in Nat
             /\ Tally(rows', id, act, s) <= Tally(rows, id, act, s) + 1
             /\ Tally(rows', id, act, s) \in Nat
             /\ id # Head(f.left) =>
                   Tally(rows', id, act, s) = Tally(rows, id, act, s)
    <2> DEFINE k == <<id, act, s>>
    <2>1. /\ Tally(rows, id, act, s) = IF k \in DOMAIN rows THEN rows[k].count ELSE 0
          /\ Tally(rows', id, act, s) = IF k \in DOMAIN rows' THEN rows'[k].count ELSE 0
          /\ k[1] = id
        BY DEF Tally
    <2> HIDE DEF k
    <2>2. CASE k = key
        BY <1>2, <1>3, <1>4, <1>5, <2>1, <2>2
    <2>3. CASE k # key
        BY <1>3, <1>4, <2>1, <2>3
    <2> QED
        BY <2>2, <2>3
<1> QED
    BY <1>2, <1>3, <1>6

\* Nothing refuses a request that arrives without a cause.
LEMMA ComesFree ==
    ASSUME BasicInv, NEW r \in Attempts, Comes(r), ~fr'[r].cause
    PROVE  /\ Free(rows', pc'[r], fr'[r])
           /\ \A q \in Attempts \ {r} : pc'[q] \notin Working
<1> DEFINE f == fr'[r]
           p == pc'[r]
           first == ToSet(Ids(f.op, 1, f.email, f.ip))
           second == ToSet(Ids(f.op, 2, f.email, f.ip))
           act == ActionOf(f.op)
           early == IF f.op = "register" THEN Limit[act] - 1 ELSE Limit[act]
<1>1. /\ rows' = rows /\ now' = now /\ f.op \in AllOps /\ f.round = 1 /\ f.at = now
      /\ p \in {"block", "count"} /\ FrameFits(p, f) /\ Others(r)
      /\ f.left = Ids(f.op, 1, f.email, f.ip)
    BY DEF Comes, ControlStep
<1>2. /\ f.until = UNION {BlocksAt(f.op, id, now) : id \in first \cup second}
      /\ f.until = {} /\ InFlight = {}
      /\ \A id \in first \cup second : ~Spent(f.op, id, early)
    BY DEF Comes
<1>3. f.email \in Emails /\ f.ip \in Addresses
    BY <1>1 DEF FrameFits, Working, Listing
<1>4. first \subseteq second
    <2>1. 1 \in 1..2
        OBVIOUS
    <2> QED
        BY <1>1, <1>3, <2>1, IdsType
<1>5. /\ act \in Actions /\ Window[act] \in Nat \ {0} /\ Limit[act] \in Nat /\ now \in Nat
      /\ \A k \in DOMAIN rows : rows[k].count \in Nat /\ rows[k].exp \in Nat
    BY <1>1 DEF ActionOf, Actions, AllOps, BasicInv, TypeOK
<1>6. NoBlock(rows, f)
    <2> SUFFICES ASSUME NEW k \in DOMAIN rows, f.op # "reset", k[1] \in second,
                        k[2] = Blocks[act], ~(rows[k].exp <= now)
                 PROVE  FALSE
        BY <1>1 DEF NoBlock
    <2>1. rows[k].exp > now
        BY <1>5
    <2>2. rows[k].exp \in BlocksAt(f.op, k[1], now)
        BY <2>1 DEF BlocksAt
    <2> QED
        BY <1>2, <2>2
<1>7. NotFull(rows, p, f)
    <2> SUFFICES ASSUME NEW id \in second, NEW t \in Nat, t >= now
                 PROVE  Tally(rows, id, act, Bucket(t, Window[act])) < Allow(f, id)
        BY <1>1 DEF NotFull, Pending
    <2>1. ~(Tally(rows, id, act, Bucket(now, Window[act])) >= early)
        BY <1>2 DEF Spent, Count, Tally
    <2>2. \A s : Tally(rows, id, act, s) \in Nat
        BY <1>5 DEF Tally
    <2>3. early <= Allow(f, id) /\ Allow(f, id) \in Int /\ early \in Int
        BY <1>5 DEF Allow
    <2>4. CASE Bucket(t, Window[act]) <= now
        <3>1. Bucket(t, Window[act]) = Bucket(now, Window[act])
            BY <1>5, <2>4, BucketNext
        <3> HIDE DEF early
        <3> QED
            BY <2>1, <2>2, <2>3, <3>1
    <2>5. CASE ~(Bucket(t, Window[act]) <= now)
        <3> DEFINE s == Bucket(t, Window[act])
                   k == <<id, act, s>>
        <3>1. k[2] = act /\ k[3] = s
            OBVIOUS
        <3>2. k \notin DOMAIN rows
            BY <1>5, <2>5, <3>1 DEF BasicInv, TimesOK
        <3>3. Tally(rows, id, act, s) = 0
            BY <3>2 DEF Tally
        <3> HIDE DEF early, s, k
        <3>4. 0 < early
            BY <2>1, <2>2, <2>3
        <3> QED
            BY <2>3, <3>3, <3>4 DEF s
    <2> QED
        BY <2>4, <2>5
<1>8. Listed(p, f)
    BY <1>1, <1>3, <1>4, DistinctIds DEF Listed
<1>9. \A q \in Attempts \ {r} : pc'[q] \notin Working
    BY <1>1, <1>2 DEF Others, InFlight, Working, Listing
<1> QED
    BY <1>1, <1>6, <1>7, <1>8, <1>9 DEF Free

\* Nor does anything refuse it later.
LEMMA FreeNotRefused ==
    ASSUME BasicInv, NEW r \in Attempts, Free(rows, pc[r], fr[r])
    PROVE  /\ pc[r] # "ban"
           /\ pc[r] = "block" => ~Blocked(fr[r])
           /\ pc[r] = "count" => ~Exhausted(fr[r])
<1> DEFINE f == fr[r]
           act == ActionOf(f.op)
<1>1. /\ f \in Frame /\ FrameFits(pc[r], f) /\ now \in Nat /\ f.at \in Nat
      /\ f.left \in Seq(Identifiers)
    BY FrameFacts
<1>2. pc[r] \in {"block", "count"} =>
         /\ Head(f.left) \in ToSet(f.left) /\ f.op \in AllOps
         /\ Head(f.left) \in ToSet(Ids(f.op, 2, f.email, f.ip))
         /\ Head(f.left) \in Pending(pc[r], f)
    BY <1>1, HeadTail DEF FrameFits, Working, Listing, Free, Listed, Pending
<1>3. \A k \in DOMAIN rows : rows[k].exp \in Nat /\ rows[k].count \in Nat
    BY DEF BasicInv, TypeOK
<1>4. ASSUME pc[r] = "block", Blocked(f) PROVE FALSE
    <2>1. PICK k \in DOMAIN rows : /\ f.op # "reset" /\ k[1] = Head(f.left)
                                   /\ k[2] = Blocks[act] /\ rows[k].exp > f.at
        BY <1>4 DEF Blocked, BlocksAt
    <2>2. rows[k].exp <= f.at
        BY <1>2, <1>4, <2>1 DEF Free, NoBlock
    <2> QED
        BY <1>1, <1>3, <2>1, <2>2
<1>5. ASSUME pc[r] = "count", Exhausted(f) PROVE FALSE
    <2> DEFINE n == Tally(rows, Head(f.left), act, Bucket(f.at, Window[act]))
    <2>1. n >= Limit[act]
        BY <1>5, ExhaustedIsFull DEF Full
    <2>2. f.at >= f.at
        BY <1>1
    <2>3. n < Allow(f, Head(f.left))
        BY <1>1, <1>2, <1>5, <2>2 DEF Free, NotFull
    <2>4. n \in Nat
        BY <1>3 DEF Tally
    <2>5. act \in Actions
        BY <1>2, <1>5 DEF ActionOf, Actions, AllOps
    <2>6. Limit[act] \in Nat
        BY <2>5
    <2>7. Allow(f, Head(f.left)) <= Limit[act] /\ Allow(f, Head(f.left)) \in Int
        BY <2>6 DEF Allow
    <2> HIDE DEF n, act
    <2> QED
        BY <2>1, <2>3, <2>4, <2>6, <2>7
<1> QED
    BY <1>4, <1>5 DEF Free

\* The next list of a request that is free to go on.
LEMMA ChecksListed ==
    ASSUME BasicInv, NEW r \in Attempts, Checks(r), Free(rows, pc[r], fr[r]),
           Checking(pc'[r], fr'[r])
    PROVE  Listed(pc'[r], fr'[r])
<1> DEFINE f == fr[r]
           g == fr'[r]
           all == Ids(f.op, 2, f.email, f.ip)
<1>1. /\ f \in Frame /\ FrameFits(pc[r], f) /\ f.left \in Seq(Identifiers)
      /\ g.op = f.op /\ g.email = f.email /\ g.ip = f.ip
      /\ FrameFits(pc'[r], g)
    BY FrameFacts DEF Checks, SameWho, ControlStep
<1>2. /\ f.email \in Emails /\ f.ip \in Addresses
      /\ pc[r] # "verify" => Len(f.left) > 0
    BY <1>1 DEF FrameFits, Working, Listing, Checks
<1>3. f.op = "register" => Distinct(all)
    BY <1>2, DistinctIds
<1>4. /\ pc[r] # "verify" => ToSet(f.left) \subseteq ToSet(all)
      /\ f.op = "register" => Distinct(f.left)
    BY DEF Free, Listed
<1>5. pc[r] # "verify" => /\ ToSet(Tail(f.left)) \subseteq ToSet(f.left)
                          /\ Distinct(f.left) => Distinct(Tail(f.left))
    BY <1>1, <1>2, HeadTail, DistinctTail
<1>6. CASE g.left = all
    BY <1>1, <1>3, <1>6 DEF Listed
<1>7. CASE pc[r] # "verify" /\ g.left = f.left
    BY <1>1, <1>4, <1>7 DEF Listed
<1>8. CASE pc[r] # "verify" /\ g.left = Tail(f.left)
    BY <1>1, <1>4, <1>5, <1>8 DEF Listed
<1>9. CASE pc'[r] = "verify"
    BY <1>1, <1>9 DEF Listed, FrameFits
<1>10. CASE PassedOn(r) /\ pc[r] # "verify"
    <2>1. g.left = all \/ g.left = Tail(f.left) \/ pc'[r] = "verify"
        BY <1>10 DEF PassedOn, Checking
    <2> QED
        BY <1>6, <1>8, <1>9, <1>10, <2>1
<1> QED
    BY <1>6, <1>7, <1>9, <1>10 DEF Checks

\* What it has yet to check it had yet to check before, and its allowance is
\* less by one at most for what it counts itself.
LEMMA ChecksPending ==
    ASSUME BasicInv, NEW r \in Attempts, Checks(r), Free(rows, pc[r], fr[r]),
           Checking(pc'[r], fr'[r]), NEW id \in Pending(pc'[r], fr'[r])
    PROVE  /\ id \in Pending(pc[r], fr[r])
           /\ Allow(fr[r], id) \in Int /\ Allow(fr'[r], id) \in Int
           /\ Allow(fr[r], id) <= Allow(fr'[r], id)
           /\ pc[r] = "hit" /\ id = Head(fr[r].left) =>
                 Allow(fr[r], id) + 1 <= Allow(fr'[r], id)
<1> DEFINE f == fr[r]
           g == fr'[r]
           p == pc[r]
           x == pc'[r]
           all == Ids(f.op, 2, f.email, f.ip)
           tail == ToSet(Tail(f.left))
<1>1. /\ f \in Frame /\ FrameFits(p, f) /\ f.left \in Seq(Identifiers)
      /\ g.op = f.op /\ g.email = f.email /\ g.ip = f.ip /\ FrameFits(x, g)
    BY FrameFacts DEF Checks, SameWho, ControlStep
<1>2. /\ f.op \in AllOps /\ f.round \in {1, 2} /\ g.round \in {1, 2}
      /\ p # "verify" => Len(f.left) > 0
      /\ p = "verify" => f.round = 1
      /\ p = "hit" => f.op \in {"register", "reset"}
      /\ p = "hit" /\ f.op = "reset" => Len(f.left) = 1
      /\ x = "verify" => g.round = 1 /\ f.op = "social"
    BY <1>1 DEF FrameFits, Working, Listing, Checks, Checking
<1>3. ActionOf(f.op) \in Actions
    BY <1>2 DEF ActionOf, Actions, AllOps
<1>4. Limit[ActionOf(f.op)] \in Nat
    BY <1>3
<1>5. p # "verify" => /\ ToSet(f.left) = {Head(f.left)} \cup tail
                      /\ f.op = "register" => Head(f.left) \notin tail
                      /\ Len(f.left) <= 1 => tail = {}
    BY <1>1, <1>2, HeadTail, DistinctTail DEF Free, Listed
<1>6. p # "ban" /\ x # "ban"
    BY FreeNotRefused DEF Checks, PassedOn, Free
<1> HIDE DEF x
\* the list at hand, or what is left of it when the one at hand is counted
<1>7. CASE x \in {"count", "hit"} /\ g.left = f.left /\ g.round = f.round
           /\ p \in {"block", "count"} /\ (x = "hit" => p = "count")
    BY <1>1, <1>4, <1>5, <1>7 DEF Pending, Allow, x
<1>8. CASE p = "verify" /\ x = "block" /\ g.round = 2 /\ g.left = all
    BY <1>1, <1>2, <1>4, <1>8 DEF Pending, Allow, x
<1>9. CASE PassedOn(r) /\ p \in {"count", "hit"}
    <2>1. CASE /\ Len(f.left) > 1 /\ x = "block" /\ g.left = Tail(f.left)
               /\ g.round = f.round
        <3>1. p = "hit" => f.op = "register"
            <4>1. Len(f.left) # 1
                <5> DEFINE n == Len(f.left)
                <5>1. n \in Nat /\ n > 1
                    BY <1>1, <2>1
                <5> HIDE DEF n
                <5>2. n # 1
                    BY <5>1
                <5> QED
                    BY <5>2 DEF n
            <4> QED
                BY <1>2, <4>1
        <3>2. CASE f.round = 1
            <4>1. id \in ToSet(all) /\ Pending(p, f) = ToSet(all)
                BY <1>1, <2>1, <3>2 DEF Pending, x
            <4>2. g.left = Tail(f.left) /\ g.round = 1
                BY <2>1, <3>2
            <4> QED
                BY <1>1, <1>4, <1>5, <1>9, <3>1, <3>2, <4>1, <4>2 DEF Allow
        <3>3. CASE f.round # 1
            <4>1. id \in tail
                BY <1>1, <2>1, <3>3 DEF Pending, x
            <4>2. id \in Pending(p, f)
                BY <1>5, <1>9, <3>3, <4>1 DEF Pending
            <4>3. p = "hit" => id # Head(f.left)
                BY <1>5, <3>1, <4>1
            <4> QED
                BY <1>1, <1>4, <2>1, <3>3, <4>2, <4>3 DEF Allow
        <3> QED
            BY <3>2, <3>3
    <2>2. CASE /\ Len(f.left) <= 1 /\ f.round = 1 /\ f.op \in {"login", "register"}
               /\ x = "block" /\ g.round = 2 /\ g.left = all
        <3>1. id \in Pending(p, f)
            BY <1>1, <2>2 DEF Pending, x
        <3>2. Allow(g, id) = Limit[ActionOf(f.op)]
            BY <1>1, <2>2 DEF Allow
        <3>3. Allow(f, id) \in Int /\ Allow(f, id) <= Limit[ActionOf(f.op)]
            BY <1>4 DEF Allow
        <3>4. p = "hit" /\ id = Head(f.left) =>
                 Allow(f, id) + 1 <= Limit[ActionOf(f.op)]
            BY <1>2, <1>4, <1>5, <2>2 DEF Allow
        <3> QED
            BY <1>4, <3>1, <3>2, <3>3, <3>4
    <2>3. CASE x = "verify" /\ g.round = f.round
        <3>1. p # "hit" /\ f.round = 1 /\ f.op = "social"
            BY <1>2, <2>3 DEF x
        <3> QED
            BY <1>1, <1>4, <2>3, <3>1 DEF Pending, Allow
    <2> QED
        BY <1>9, <2>1, <2>2, <2>3 DEF PassedOn, Checking, x
<1> QED
    BY <1>6, <1>7, <1>8, <1>9 DEF Checks, x

\* A request that nothing refuses stays so through its checks.
LEMMA ChecksFree ==
    ASSUME BasicInv, NEW r \in Attempts, Checks(r), Free(rows, pc[r], fr[r]),
           Checking(pc'[r], fr'[r])
    PROVE  Free(rows', pc'[r], fr'[r])
<1> DEFINE f == fr[r]
           g == fr'[r]
           act == ActionOf(f.op)
<1>1. /\ f \in Frame /\ FrameFits(pc[r], f) /\ f.at \in Nat /\ now \in Nat
      /\ f.at <= now /\ g.op = f.op /\ g.email = f.email /\ g.ip = f.ip
    BY FrameFacts DEF Checks, SameWho
<1>2. f.op \in AllOps
    BY <1>1 DEF FrameFits, Working, Listing, Checks
<1>3. g.at = f.at \/ g.at = now
    BY DEF Checks, PassedOn, Checking
<1>4. g.at \in Nat /\ f.at <= g.at
    BY <1>1, <1>3
<1>5. pc'[r] # "ban"
    BY FreeNotRefused DEF Checks, PassedOn
<1>6. rows' = rows \/ (pc[r] = "hit" /\ CountOne(f))
    BY DEF Checks
<1>7. \A k \in DOMAIN rows' : k[2] \notin Actions =>
         k \in DOMAIN rows /\ rows'[k] = rows[k]
    BY <1>1, <1>2, <1>6, CountOneTally
<1>8. NoBlock(rows', g)
    <2> SUFFICES ASSUME NEW k \in DOMAIN rows', f.op # "reset",
                        k[1] \in ToSet(Ids(f.op, 2, f.email, f.ip)), k[2] = Blocks[act]
                 PROVE  rows'[k].exp <= g.at
        BY <1>1 DEF NoBlock
    <2>1. k[2] \notin Actions
        BY <1>2 DEF Blocks, ActionOf, Actions, AllOps
    <2>2. k \in DOMAIN rows /\ rows'[k] = rows[k]
        BY <1>7, <2>1
    <2>3. rows[k].exp <= f.at
        BY <2>2 DEF Free, NoBlock
    <2>4. rows[k].exp \in Nat
        BY <2>2 DEF BasicInv, TypeOK
    <2> QED
        BY <1>1, <1>4, <2>2, <2>3, <2>4
<1>9. NotFull(rows', pc'[r], g)
    <2> SUFFICES ASSUME NEW id \in Pending(pc'[r], g), NEW t \in Nat, t >= g.at
                 PROVE  Tally(rows', id, act, Bucket(t, Window[act])) < Allow(g, id)
        BY <1>1 DEF NotFull
    <2> DEFINE s == Bucket(t, Window[act])
               m == Tally(rows, id, act, s)
               n == Tally(rows', id, act, s)
    <2>1. /\ id \in Pending(pc[r], f) /\ Allow(f, id) \in Int /\ Allow(g, id) \in Int
          /\ Allow(f, id) <= Allow(g, id)
          /\ pc[r] = "hit" /\ id = Head(f.left) => Allow(f, id) + 1 <= Allow(g, id)
        BY ChecksPending
    <2>2. t >= f.at
        BY <1>1, <1>4
    <2>3. m < Allow(f, id)
        BY <2>1, <2>2 DEF Free, NotFull
    <2>4. m \in Nat
        BY DEF Tally, BasicInv, TypeOK
    <2>5. \/ n = m
          \/ pc[r] = "hit" /\ id = Head(f.left) /\ n <= m + 1 /\ n \in Nat
        BY <1>1, <1>2, <1>6, CountOneTally
    <2> HIDE DEF m, n
    <2>6. n < Allow(g, id)
        BY <2>1, <2>3, <2>4, <2>5
    <2> QED
        BY <2>6 DEF n
<1> QED
    BY <1>5, <1>8, <1>9, ChecksListed DEF Free

\* The invariant about causes is kept by every step.
LEMMA NextCause == BasicInv /\ CauseInv /\ [Next]_vars => CauseInv'
<1> SUFFICES ASSUME BasicInv, CauseInv, [Next]_vars, NEW q \in Attempts
             PROVE  /\ pc'[q] = "refused" => fr'[q].cause
                    /\ Checking(pc'[q], fr'[q]) /\ ~fr'[q].cause =>
                          /\ \A o \in Attempts \ {q} : pc'[o] \notin Working
                          /\ Free(rows', pc'[q], fr'[q])
    BY DEF CauseInv, RefusedForCause
<1> DEFINE Goal == /\ pc'[q] = "refused" => fr'[q].cause
                   /\ Checking(pc'[q], fr'[q]) /\ ~fr'[q].cause =>
                         /\ \A o \in Attempts \ {q} : pc'[o] \notin Working
                         /\ Free(rows', pc'[q], fr'[q])
<1>1. /\ pc[q] = "refused" => fr[q].cause
      /\ Checking(pc[q], fr[q]) /\ ~fr[q].cause =>
            /\ \A o \in Attempts \ {q} : pc[o] \notin Working
            /\ Free(rows, pc[q], fr[q])
    BY DEF CauseInv, RefusedForCause
<1>2. \A p, f : Checking(p, f) => p \in Working
    BY DEF Checking, Working, Listing
<1>3. CASE Idle
    <2>1. rows' = rows /\ pc' = pc /\ fr' = fr
        BY <1>3 DEF Idle
    <2> QED
        BY <1>1, <2>1
<1>4. ASSUME NEW r \in Attempts, Kind(r) PROVE Goal
    <2>1. ControlStep(r)
        BY <1>4, KindStep
    <2>2. CASE q # r
        <3>1. pc'[q] = pc[q] /\ Stays(fr[q], fr'[q])
            BY <2>1, <2>2 DEF ControlStep, Others
        <3>2. (fr[q].cause => fr'[q].cause) /\ Checking(pc'[q], fr'[q]) = Checking(pc[q], fr[q])
            BY <3>1 DEF Stays, SameWho, Checking
        <3>3. CASE pc[r] \in Working
            BY <1>1, <2>2, <3>1, <3>2, <3>3
        <3>4. CASE Comes(r)
            <4>1. pc[q] \in Working => fr'[q].cause
                BY <3>4 DEF Comes, InFlight, Working, Listing
            <4> QED
                BY <1>1, <1>2, <3>1, <3>2, <4>1
        <3>5. pc[r] \in Working \/ Comes(r)
            BY <1>4 DEF Kind, Ends, Checks, GoesOn, Working, Listing
        <3> QED
            BY <3>3, <3>4, <3>5
    <2>3. CASE q = r /\ Comes(r)
        <3>1. pc'[q] # "refused"
            BY <2>3 DEF Comes
        <3> QED
            BY <2>3, <3>1, ComesFree
    <2>4. CASE q = r /\ Ends(r)
        <3>1. ~Checking(pc'[q], fr'[q])
            BY <2>4 DEF Ends, Checking
        <3>2. pc'[q] = "refused" => fr'[q].cause
            <4> SUFFICES ASSUME pc'[q] = "refused", ~fr'[q].cause PROVE FALSE
                OBVIOUS
            <4>1. /\ ~fr[r].cause
                  /\ \/ pc[r] = "ban"
                     \/ pc[r] = "block" /\ Blocked(fr[r])
                     \/ pc[r] = "count" /\ Exhausted(fr[r])
                BY <2>4 DEF Ends
            <4>2. Free(rows, pc[r], fr[r])
                BY <1>1, <2>4, <4>1 DEF Checking
            <4> QED
                BY <4>1, <4>2, FreeNotRefused
        <3> QED
            BY <3>1, <3>2
    <2>5. CASE q = r /\ Checks(r)
        <3>1. pc'[q] # "refused" /\ fr'[q].cause = fr[q].cause
            BY <2>5 DEF Checks, PassedOn
        <3>2. Checking(pc'[q], fr'[q]) => Checking(pc[q], fr[q])
            <4>1. FrameFits(pc[r], fr[r])
                BY FrameFacts
            <4> QED
                BY <2>5, <4>1 DEF Checks, Checking, FrameFits
        <3>3. \A o \in Attempts \ {q} : pc'[o] = pc[o]
            BY <2>1, <2>5 DEF ControlStep, Others
        <3>4. Free(rows, pc[q], fr[q]) /\ Checking(pc'[q], fr'[q])
                 => Free(rows', pc'[q], fr'[q])
            BY <2>5, ChecksFree
        <3> QED
            BY <1>1, <3>1, <3>2, <3>3, <3>4
    <2>6. CASE q = r /\ GoesOn(r)
        BY <2>6 DEF GoesOn, Checking
    <2> QED
        BY <1>4, <2>2, <2>3, <2>4, <2>5, <2>6 DEF Kind
<1> QED
    BY <1>3, <1>4, StepKinds

\* A request that no other was at work with is refused only if it came in
\* blocked or at a limit, whatever races and failures there were before it and
\* however far the clock moves meanwhile.
THEOREM NoneRefusedInVain == Spec => []RefusedForCause
<1>1. Init => CauseInv
    BY DEF Init, CauseInv, RefusedForCause, Checking
<1>2. CauseInv => RefusedForCause
    BY DEF CauseInv
<1> QED
    BY <1>1, <1>2, InitBasic, NextBasic, NextCause, PTL DEF Spec
-----------------------------------------------------------------------------
(* How far requests that run side by side pass a limit.                     *)

\* The counters under identifiers that are checked before they are counted.
Checked(k) == /\ k[2] \in Actions
              /\ ~(k[1][1] = "socialUser" \/ (k[1][1] = "social" /\ k[1][2] # None))

\* The window that the checks of a request look at.
Looked(f) == Bucket(f.at, Window[ActionOf(f.op)])

\* The request may add one to the counter k without another look at it. One that
\* is counted when it is let in is counted right after its check, or by the
\* checks to come in a window that has begun since.
CountsNow(k, p, f) ==
    \/ p \in {"block", "count"} /\ k[1] \in ToSet(f.left) /\ k[3] > f.at
    \/ p = "hit" /\ k[1] = Head(f.left) /\ k[3] = f.start
    \/ p = "hit" /\ k[1] \in ToSet(Tail(f.left)) /\ k[3] > f.at

\* One that is counted when it fails, in the window of its checks or a later one.
CountsLater(k, p, f) ==
    \/ /\ p \in {"block", "count", "verify"} \/ (p = "in" /\ f.op = "social")
       /\ k[1] \in ToSet(Ids(f.op, 2, f.email, f.ip))
       /\ \/ k[3] > f.at
          \/ k[3] = Looked(f) /\ (p # "verify" /\ p # "in" => k[1] \notin ToSet(f.left))
    \/ p = "record" /\ k[1] \in ToSet(f.left) /\ k[3] = f.start

May(k, p, f) ==
    /\ p \in Working /\ k[2] = ActionOf(f.op)
    /\ IF f.op \in {"register", "reset"} THEN CountsNow(k, p, f)
                                         ELSE CountsLater(k, p, f)

Entitled(k) == {r \in Attempts : May(k, pc[r], fr[r])}

\* A counter, and the requests that may add to it unseen, stay within the bound.
OverInv ==
    \A k \in DOMAIN rows : Checked(k) =>
        rows[k].count + Cardinality(Entitled(k)) <= Limit[k[2]] - 1 + MaxInFlight

Admitted == {"hit", "verify", "record", "clear", "in", "reclear"}

\* What it rests on: how many requests are at work, that their lists name no
\* identifier twice, and that a limit of 0 lets no request pass.
SureInv ==
    /\ IsFiniteSet(InFlight) /\ Cardinality(InFlight) <= MaxInFlight
    /\ \A r \in Attempts : /\ pc[r] \in Listing => Distinct(fr[r].left)
                           /\ pc[r] \in Admitted => Limit[ActionOf(fr[r].op)] >= 1

\* The settings of an operation.
LEMMA SettingsOf ==
    ASSUME NEW op \in AllOps
    PROVE  /\ ActionOf(op) \in Actions /\ Window[ActionOf(op)] \in Nat \ {0}
           /\ Limit[ActionOf(op)] \in Nat
<1>1. ActionOf(op) \in Actions
    BY DEF ActionOf, Actions, AllOps
<1> QED
    BY <1>1

\* No list names an identifier twice.
LEMMA ListsDistinct ==
    ASSUME NEW op \in AllOps, NEW n, NEW e \in Emails, NEW a \in Addresses
    PROVE  /\ Distinct(Ids(op, n, e, a)) /\ Distinct(SocialIds(e, a))
           /\ Distinct(SubSeq(SocialIds(e, a), 1, 2))
<1>1. e # None /\ a # None
    OBVIOUS
<1>2. ASSUME NEW kind PROVE Distinct(Triple(kind, e, a))
    <2> DEFINE x == <<kind, e, None>>
               y == <<kind, None, a>>
               z == <<kind, e, a>>
    <2>1. x # y /\ x # z /\ y # z
        BY <1>1
    <2>2. Triple(kind, e, a) = <<x, y, z>>
        BY DEF Triple
    <2> HIDE DEF x, y, z
    <2> QED
        BY <2>1, <2>2 DEF Distinct
<1>3. Distinct(SocialIds(e, a)) /\ Distinct(SubSeq(SocialIds(e, a), 1, 2))
    <2> DEFINE x == <<"socialUser", e, None>>
               y == <<"social", None, a>>
               v == <<"social", e, None>>
               w == <<"social", e, a>>
               s == <<x, y, v, w>>
    <2>1. x # y /\ x # v /\ x # w /\ y # v /\ y # w /\ v # w
        BY <1>1
    <2>2. SocialIds(e, a) = s
        BY DEF SocialIds
    <2> HIDE DEF x, y, v, w
    <2>3. Distinct(s)
        BY <2>1 DEF Distinct
    <2>4. \A i \in 1..2 : s[i] \in {x, y} /\ s[1] = x /\ s[2] = y
        OBVIOUS
    <2>5. SubSeq(s, 1, 2) \in Seq({x, y}) /\ Len(SubSeq(s, 1, 2)) = 2
          /\ \A i \in 1..2 : SubSeq(s, 1, 2)[i] = s[i]
        BY <2>4, SubSeqProperties
    <2> HIDE DEF s
    <2> DEFINE t == SubSeq(s, 1, 2)
    <2> HIDE DEF t
    <2>6. DOMAIN t = 1..2 /\ t[1] = x /\ t[2] = y
        BY <2>4, <2>5 DEF t
    <2>7. Distinct(t)
        BY <2>1, <2>6 DEF Distinct
    <2> QED
        BY <2>2, <2>3, <2>7 DEF t
<1>4. CASE op \in {"login", "register"}
    BY <1>2, <1>3, <1>4 DEF Ids
<1>5. CASE op = "social"
    <2>1. Ids(op, n, e, a) = <<<<op, None, a>>>> \/ Ids(op, n, e, a) = SocialIds(e, a)
        BY <1>5 DEF Ids
    <2>2. Distinct(<<<<op, None, a>>>>)
        BY DEF Distinct
    <2> QED
        BY <1>3, <2>1, <2>2
<1>6. CASE op = "reset"
    <2>1. Ids(op, n, e, a) = <<<<op, e, None>>>>
        BY <1>6 DEF Ids
    <2>2. Distinct(<<<<op, e, None>>>>)
        BY DEF Distinct
    <2> QED
        BY <1>3, <2>1, <2>2
<1> QED
    BY <1>4, <1>5, <1>6 DEF AllOps

\* A counter below its limit, and a limit that is not 0.
LEMMA NotExhausted ==
    ASSUME BasicInv, NEW f \in Frame, f.op \in AllOps, ~Exhausted(f)
    PROVE  /\ Limit[ActionOf(f.op)] >= 1
           /\ \A k \in DOMAIN rows :
                 k[1] = Head(f.left) /\ k[2] = ActionOf(f.op) /\ k[3] = Looked(f)
                 => rows[k].count < Limit[k[2]]
<1> DEFINE key == <<Head(f.left), ActionOf(f.op), Looked(f)>>
           n == Tally(rows, Head(f.left), ActionOf(f.op), Looked(f))
<1>1. Limit[ActionOf(f.op)] \in Nat
    BY SettingsOf
<1>2. \A k \in DOMAIN rows : rows[k].count \in Nat /\ k \in Keys
    BY DEF BasicInv, TypeOK
<1>3. n = IF key \in DOMAIN rows THEN rows[key].count ELSE 0
    BY DEF Tally
<1>4. ~(n >= Limit[ActionOf(f.op)])
    BY ExhaustedIsFull DEF Full, Looked
<1>5. n \in Nat
    BY <1>2, <1>3
<1>6. \A k \in Keys : k = <<k[1], k[2], k[3]>>
    BY DEF Keys
<1>7. \A k \in DOMAIN rows :
         k[1] = Head(f.left) /\ k[2] = ActionOf(f.op) /\ k[3] = Looked(f) => k = key
    BY <1>2, <1>6
<1> HIDE DEF key, n
<1>8. n < Limit[ActionOf(f.op)]
    BY <1>1, <1>4, <1>5
<1>9. Limit[ActionOf(f.op)] >= 1
    BY <1>1, <1>5, <1>8
<1> QED
    BY <1>3, <1>7, <1>8, <1>9

\* The counter that an attempt is added to.
Adds(k, f) == k[1] = Head(f.left) /\ k[2] = ActionOf(f.op) /\ k[3] = f.start

\* What counting one attempt does to each counter.
LEMMA CountOneRow ==
    ASSUME BasicInv, NEW f \in Frame, f.op \in AllOps, CountOne(f),
           NEW k \in DOMAIN rows', k \in Keys
    PROVE  /\ Adds(k, f) => IF k \in DOMAIN rows THEN rows'[k].count = rows[k].count + 1
                                                 ELSE rows'[k].count = 1
           /\ ~Adds(k, f) => k \in DOMAIN rows /\ rows'[k] = rows[k]
<1> DEFINE key == <<Head(f.left), ActionOf(f.op), f.start>>
           exp == f.start + Window[ActionOf(f.op)]
<1>1. Upsert(key, exp)
    BY DEF CountOne
<1>2. Adds(k, f) <=> k = key
    BY DEF Adds, Keys
<1> HIDE DEF key, exp
<1>3. /\ DOMAIN rows' = DOMAIN rows \cup {key}
      /\ \A x \in DOMAIN rows \ {key} : rows'[x] = rows[x]
      /\ rows'[key] = IF key \in DOMAIN rows THEN [rows[key] EXCEPT !.count = @ + 1]
                                             ELSE [count |-> 1, exp |-> exp]
    BY <1>1 DEF Upsert
<1>4. key \in DOMAIN rows => rows[key] \in [count : Nat \ {0}, exp : Nat]
    BY DEF BasicInv, TypeOK
<1>5. rows'[key].count = IF key \in DOMAIN rows THEN rows[key].count + 1 ELSE 1
    BY <1>3, <1>4
<1> QED
    BY <1>2, <1>3, <1>5

\* What a step of r does to the counter k: it leaves it, and r may add to it
\* unseen only if it could before or has just found it below the limit; or r adds
\* to it, and may not add again.
Leaves(r, k) ==
    /\ k \in DOMAIN rows /\ rows'[k].count = rows[k].count
    /\ May(k, pc'[r], fr'[r]) => \/ May(k, pc[r], fr[r])
                                 \/ rows[k].count < Limit[k[2]]
Adding(r, k) ==
    /\ pc[r] \in {"hit", "record"} /\ k[2] = ActionOf(fr[r].op)
    /\ ~May(k, pc'[r], fr'[r])
    /\ IF k \in DOMAIN rows
       THEN May(k, pc[r], fr[r]) /\ rows'[k].count = rows[k].count + 1
       ELSE rows'[k].count = 1
OneCount(r, k) == Leaves(r, k) \/ Adding(r, k)

\* A request that is at work.
LEMMA AtWork ==
    ASSUME BasicInv, NEW r \in Attempts, pc[r] \in Working
    PROVE  LET f == fr[r]
           IN  /\ f \in Frame /\ f.op \in AllOps /\ f.email \in Emails
               /\ f.ip \in Addresses /\ FrameFits(pc[r], f)
               /\ f.at \in Nat /\ f.start \in Nat /\ f.at <= now /\ f.start <= now
               /\ now \in Nat /\ f.left \in Seq(Identifiers)
               /\ ActionOf(f.op) \in Actions /\ Window[ActionOf(f.op)] \in Nat \ {0}
BY FrameFacts, SettingsOf DEF FrameFits

\* An identifier that has passed its check, or has been counted.
LEMMA PassedMay ==
    ASSUME BasicInv, SureInv, NEW r \in Attempts, pc[r] \in {"count", "hit"},
           pc[r] = "count" => fr[r].op \in {"login", "social"}, PassedOn(r),
           SameWho(fr[r], fr'[r]), NEW k \in Keys, k[3] <= now,
           May(k, pc'[r], fr'[r])
    PROVE  LET f == fr[r]
           IN  /\ pc[r] = "hit" => May(k, pc[r], f) /\ ~Adds(k, f)
               /\ pc[r] = "count" => \/ May(k, pc[r], f)
                                     \/ /\ k[1] = Head(f.left) /\ k[3] = Looked(f)
                                        /\ k[2] = ActionOf(f.op)
<1> DEFINE f == fr[r]
           g == fr'[r]
           l == f.left
           all == ToSet(Ids(f.op, 2, f.email, f.ip))
<1>1. /\ f.op \in AllOps /\ f.at \in Nat /\ now \in Nat /\ f.at <= now
      /\ l \in Seq(Identifiers) /\ Len(l) > 0 /\ Len(l) \in Nat /\ Distinct(l)
      /\ pc[r] = "hit" => f.op \in {"register", "reset"}
    <2>1. pc[r] \in Working /\ pc[r] \in Listing
        BY DEF Working, Listing
    <2> QED
        BY <2>1, AtWork DEF FrameFits, SureInv
<1>2. /\ ToSet(l) = {Head(l)} \cup ToSet(Tail(l)) /\ Head(l) \notin ToSet(Tail(l))
      /\ Len(l) <= 1 => ToSet(Tail(l)) = {}
    BY <1>1, HeadTail, DistinctTail
<1>3. g.op = f.op /\ g.email = f.email /\ g.ip = f.ip /\ k[3] \in Nat
    BY DEF SameWho, Keys
<1>4. /\ k[2] = ActionOf(f.op) /\ pc'[r] \in {"block", "in", "verify"}
      /\ IF f.op \in {"register", "reset"} THEN CountsNow(k, pc'[r], g)
                                           ELSE CountsLater(k, pc'[r], g)
    BY <1>3 DEF May, PassedOn
<1>5. Looked(g) = Bucket(g.at, Window[ActionOf(f.op)])
    BY <1>3 DEF Looked
<1>6. CASE /\ Len(l) > 1 /\ pc'[r] = "block" /\ g.left = Tail(l) /\ g.at = f.at
    <2>1. CASE f.op \in {"register", "reset"}
        <3>1. pc[r] = "hit" /\ k[1] \in ToSet(Tail(l)) /\ k[3] > f.at
            BY <1>1, <1>4, <1>6, <2>1 DEF CountsNow
        <3> QED
            BY <1>2, <1>4, <2>1, <3>1 DEF May, CountsNow, Adds, Working, Listing
    <2>2. CASE f.op \notin {"register", "reset"}
        <3>1. /\ pc[r] = "count" /\ k[1] \in all
              /\ k[3] > f.at \/ (k[3] = Looked(f) /\ k[1] \notin ToSet(Tail(l)))
            BY <1>1, <1>3, <1>4, <1>5, <1>6, <2>2 DEF CountsLater, Looked
        <3> QED
            BY <1>2, <1>4, <2>2, <3>1 DEF May, CountsLater, Working, Listing
    <2> QED
        BY <2>1, <2>2
<1>7. CASE /\ pc'[r] = "block" /\ g.at = now /\ f.op \in {"login", "register"}
           /\ g.left = Ids(f.op, 2, f.email, f.ip)
    <2>1. ~(k[3] > now)
        BY <1>1, <1>3
    <2>2. k[1] \in all /\ k[1] \notin ToSet(g.left)
        BY <1>3, <1>4, <1>7, <2>1 DEF CountsNow, CountsLater
    <2> QED
        BY <1>7, <2>2
<1>8. CASE /\ Len(l) <= 1 /\ g.at = f.at /\ pc'[r] \in {"in", "verify"}
    <2>1. f.op \in {"login", "social"} /\ pc[r] = "count"
        BY <1>1, <1>4, <1>8 DEF CountsNow, AllOps
    <2>2. k[1] \in all /\ (k[3] > f.at \/ k[3] = Looked(f))
        BY <1>3, <1>4, <1>5, <1>8, <2>1 DEF CountsLater, Looked
    <2> QED
        BY <1>2, <1>4, <1>8, <2>1, <2>2 DEF May, CountsLater, Working, Listing
<1> QED
    BY <1>6, <1>7, <1>8 DEF PassedOn

\* A window that is read later is the one the checks have looked at, or a later one.
LEMMA LaterWindow ==
    ASSUME NEW f, f.op \in AllOps, f.at \in Nat, NEW t \in Nat, f.at <= t
    PROVE  LET s == Bucket(t, Window[ActionOf(f.op)])
           IN  s \in Nat /\ (s > f.at \/ s = Looked(f))
<1>1. Window[ActionOf(f.op)] \in Nat \ {0}
    BY SettingsOf
<1> DEFINE w == Window[ActionOf(f.op)]
<1> HIDE DEF w
<1>2. Bucket(t, w) \in Nat
    BY <1>1, BucketType DEF w
<1>3. Bucket(t, w) <= f.at => Bucket(t, w) = Bucket(f.at, w)
    BY <1>1, BucketNext DEF w
<1> QED
    BY <1>2, <1>3 DEF Looked, w

\* A step of the checks.
LEMMA ChecksCount ==
    ASSUME BasicInv, SureInv, NEW r \in Attempts, Checks(r), NEW k \in DOMAIN rows',
           k \in Keys, k[2] \in Actions
    PROVE  OneCount(r, k)
<1> DEFINE f == fr[r]
           g == fr'[r]
<1>1. /\ f \in Frame /\ f.op \in AllOps /\ f.at \in Nat /\ now \in Nat /\ f.at <= now
      /\ FrameFits(pc[r], f)
      /\ f.left \in Seq(Identifiers)
    BY AtWork DEF Checks, Working, Listing
<1>2. g.op = f.op /\ g.email = f.email /\ g.ip = f.ip /\ now' = now /\ TableStep
    BY DEF Checks, SameWho
<1>3. k[3] \in Nat /\ k[3] <= now
    BY <1>2 DEF TableStep, RowsOK, Keys
<1>4. ~Exhausted(f) => (/\ k \in DOMAIN rows /\ k[1] = Head(f.left)
                        /\ k[2] = ActionOf(f.op) /\ k[3] = Looked(f)
                        => rows[k].count < Limit[k[2]])
    BY <1>1, NotExhausted
<1>5. CASE pc[r] = "block" /\ pc'[r] = "count" /\ g = f /\ UNCHANGED rows
    <2>1. May(k, "count", f) <=> May(k, "block", f)
        BY DEF May, CountsNow, CountsLater, Working, Listing
    <2> QED
        BY <1>5, <2>1 DEF OneCount, Leaves
<1>6. CASE pc[r] = "count" /\ pc'[r] = "ban" /\ g = f /\ UNCHANGED rows
    BY <1>6 DEF OneCount, Leaves, May, CountsNow, CountsLater
<1>7. CASE /\ pc[r] = "count" /\ pc'[r] = "hit" /\ UNCHANGED rows /\ ~Exhausted(f)
           /\ g.left = f.left /\ g.round = f.round /\ g.at = f.at
           /\ g.start \in {Bucket(t, Window[ActionOf(f.op)]) : t \in {f.at, now}}
    <2>1. ASSUME May(k, pc'[r], g)
          PROVE  May(k, pc[r], f) \/ rows[k].count < Limit[k[2]]
        <3>1. f.op \in {"register", "reset"} /\ k[2] = ActionOf(f.op)
            BY <1>2, <1>7, <2>1 DEF May, CountsLater, AllOps
        <3>2. CountsNow(k, "hit", g)
            BY <1>2, <1>7, <2>1, <3>1 DEF May
        <3>3. ToSet(f.left) = {Head(f.left)} \cup ToSet(Tail(f.left))
            BY <1>1, <1>7, HeadTail DEF FrameFits, Listing
        <3>4. CASE k[1] \in ToSet(f.left) /\ k[3] > f.at
            BY <1>7, <3>1, <3>4 DEF May, CountsNow, Working, Listing
        <3>5. CASE k[1] = Head(f.left) /\ k[3] = g.start
            <4>1. g.start > f.at \/ g.start = Looked(f)
                <5>1. PICK t \in {f.at, now} : g.start = Bucket(t, Window[ActionOf(f.op)])
                    BY <1>7
                <5>2. t \in Nat /\ f.at <= t
                    BY <1>1
                <5> HIDE DEF f, g
                <5> QED
                    BY <1>1, <5>1, <5>2, LaterWindow
            <4> QED
                BY <1>4, <1>7, <3>1, <3>3, <3>4, <3>5, <4>1
        <3> QED
            BY <1>7, <3>2, <3>3, <3>4, <3>5 DEF CountsNow
    <2> QED
        BY <1>7, <2>1 DEF OneCount, Leaves
<1>8. CASE /\ pc[r] = "count" /\ ~Exhausted(f) /\ f.op \in {"login", "social"}
           /\ UNCHANGED rows /\ PassedOn(r)
    <2>1. ASSUME May(k, pc'[r], g)
          PROVE  \/ May(k, pc[r], f)
                 \/ k[1] = Head(f.left) /\ k[3] = Looked(f) /\ k[2] = ActionOf(f.op)
        <3>1. SameWho(f, g)
            BY DEF Checks
        <3> QED
            BY <1>3, <1>8, <2>1, <3>1, PassedMay
    <2> QED
        BY <1>4, <1>8, <2>1 DEF OneCount, Leaves
<1>9. CASE pc[r] = "hit" /\ CountOne(f) /\ PassedOn(r)
    <2>1. ASSUME May(k, pc'[r], g) PROVE May(k, pc[r], f) /\ ~Adds(k, f)
        <3>1. SameWho(f, g)
            BY DEF Checks
        <3> QED
            BY <1>3, <1>9, <2>1, <3>1, PassedMay
    <2>2. CASE Adds(k, f)
        <3>1. IF k \in DOMAIN rows THEN rows'[k].count = rows[k].count + 1
                                   ELSE rows'[k].count = 1
            BY <1>1, <1>9, <2>2, CountOneRow
        <3>2. May(k, pc[r], f)
            BY <1>1, <1>9, <2>2 DEF May, CountsNow, Adds, FrameFits, Working, Listing
        <3> QED
            BY <1>9, <2>1, <2>2, <3>1, <3>2 DEF OneCount, Adding, Adds
    <2>3. CASE ~Adds(k, f)
        <3>1. k \in DOMAIN rows /\ rows'[k] = rows[k]
            BY <1>1, <1>9, <2>3, CountOneRow
        <3> QED
            BY <2>1, <3>1 DEF OneCount, Leaves
    <2> QED
        BY <2>2, <2>3
<1>10. CASE /\ pc[r] = "verify" /\ pc'[r] = "block" /\ UNCHANGED rows /\ f.op = "social"
            /\ g.at = now /\ g.left = Ids(f.op, 2, f.email, f.ip)
    <2>1. ~May(k, pc'[r], g)
        <3> SUFFICES ASSUME May(k, "block", g) PROVE FALSE
            BY <1>10
        <3>1. CountsLater(k, "block", g)
            BY <1>2, <1>10 DEF May
        <3>2. ~(k[3] > g.at)
            BY <1>1, <1>3, <1>10
        <3>3. k[1] \in ToSet(g.left) => FALSE
            BY <3>1, <3>2 DEF CountsLater
        <3>4. k[1] \in ToSet(Ids(f.op, 2, f.email, f.ip))
            BY <1>2, <3>1 DEF CountsLater
        <3> QED
            BY <1>10, <3>3, <3>4
    <2> QED
        BY <1>10, <2>1 DEF OneCount, Leaves
<1> QED
    BY <1>5, <1>6, <1>7, <1>8, <1>9, <1>10 DEF Checks

\* A request that ends.
LEMMA EndsCount ==
    ASSUME BasicInv, NEW r \in Attempts, Acts(r), Ends(r), NEW k \in DOMAIN rows',
           k \in Keys, k[2] \in Actions
    PROVE  OneCount(r, k)
<1>1. ~May(k, pc'[r], fr'[r])
    BY DEF Ends, May, Working, Listing
<1>2. CASE k \in DOMAIN rows /\ rows'[k] = rows[k]
    BY <1>1, <1>2 DEF OneCount, Leaves
<1>3. CASE Ban(r)
    <2> DEFINE f == fr[r]
               act == ActionOf(f.op)
               s == Bucket(f.at, BlockTime[act])
               key == <<Head(f.left), Blocks[act], s>>
               exp == s + BlockTime[act]
    <2>1. Upsert(key, exp) /\ pc[r] = "ban"
        BY <1>3 DEF Ban
    <2>2. f.op \in AllOps /\ f.op # "reset"
        BY <2>1, AtWork DEF FrameFits, Working, Listing
    <2>3. key[2] \notin Actions
        BY <2>2 DEF ActionOf, Actions, AllOps, Blocks
    <2> HIDE DEF key, exp
    <2>4. k \in DOMAIN rows /\ rows'[k] = rows[k]
        BY <2>1, <2>3 DEF Upsert
    <2> QED
        BY <1>2, <2>4
<1>4. CASE pc[r] \in {"hit", "record"} /\ CountOne(fr[r])
    <2> DEFINE f == fr[r]
    <2>1. /\ f \in Frame /\ f.op \in AllOps /\ FrameFits(pc[r], f)
          /\ f.left \in Seq(Identifiers) /\ pc[r] \in Working
        BY <1>4, AtWork DEF Working, Listing
    <2>2. CASE Adds(k, f)
        <3>1. IF k \in DOMAIN rows THEN rows'[k].count = rows[k].count + 1
                                   ELSE rows'[k].count = 1
            BY <1>4, <2>1, <2>2, CountOneRow
        <3>2. Head(f.left) \in ToSet(f.left)
            BY <1>4, <2>1, HeadTail DEF FrameFits, Listing
        <3>3. May(k, pc[r], f)
            BY <1>4, <2>1, <2>2, <3>2 DEF May, CountsNow, CountsLater, Adds, FrameFits
        <3> QED
            BY <1>1, <1>4, <2>2, <3>1, <3>3 DEF OneCount, Adding, Adds
    <2>3. CASE ~Adds(k, f)
        <3>1. k \in DOMAIN rows /\ rows'[k] = rows[k]
            BY <1>4, <2>1, <2>3, CountOneRow
        <3> QED
            BY <1>2, <3>1
    <2> QED
        BY <2>2, <2>3
<1>5. CASE UNCHANGED rows
    BY <1>2, <1>5
<1>6. CASE Clear(r)
    <2> DEFINE ids == ToSet(Ids("login", 1, fr[r].email, fr[r].ip))
    <2>1. rows' = [x \in {y \in DOMAIN rows : y[1] \notin ids \/ y[2] \notin {"LOGIN"}}
                      |-> rows[x]]
        BY <1>6 DEF Clear, ClearRows
    <2> HIDE DEF ids
    <2> QED
        BY <1>2, <2>1
<1>7. Arrive(r) => UNCHANGED rows
    BY Zenon DEF Arrive
<1> QED
    BY <1>3, <1>4, <1>5, <1>6, <1>7 DEF Acts, Handle, Throw, CheckBlock, CheckCount,
       Hit, Verify, RecordNext, Enter

\* The recording of a failure begins, in a window that the request has looked at
\* or that has begun since.
LEMMA RecordCount ==
    ASSUME BasicInv, NEW r \in Attempts, pc[r] \in {"verify", "in"},
           fr[r].op \in {"login", "social"}, pc[r] = "in" => fr[r].op = "social",
           NEW ids \in Seq(Identifiers), Len(ids) > 0, Record(r, ids),
           UNCHANGED <<now, rows>>,
           NEW k \in DOMAIN rows', k[1] \in ToSet(ids) =>
               k[1] \in ToSet(Ids(fr[r].op, 2, fr[r].email, fr[r].ip))
    PROVE  OneCount(r, k)
<1> DEFINE f == fr[r]
           g == fr'[r]
<1>1. /\ f \in Frame /\ f.op \in AllOps /\ f.at \in Nat /\ now \in Nat /\ f.at <= now
    BY AtWork DEF Working, Listing
<1>2. /\ GoesOn(r) /\ pc'[r] = "record" /\ g.left = ids
      /\ g.start = Bucket(now, Window[ActionOf(f.op)])
    BY RecordBegins
<1>3. g.op = f.op
    BY <1>2 DEF GoesOn, SameWho
<1>4. g.start > f.at \/ g.start = Looked(f)
    <2> HIDE DEF f, g
    <2> QED
        BY <1>1, <1>2, LaterWindow
<1>5. ASSUME May(k, "record", g) PROVE May(k, pc[r], f)
    <2>1. k[2] = ActionOf(f.op) /\ CountsLater(k, "record", g)
        BY <1>3, <1>5 DEF May
    <2>2. k[1] \in ToSet(ids) /\ k[3] = g.start
        BY <1>2, <2>1 DEF CountsLater
    <2> QED
        BY <1>4, <2>1, <2>2 DEF May, CountsLater, Working, Listing
<1> QED
    BY <1>2, <1>5 DEF OneCount, Leaves

\* What a failure is counted under is among the identifiers of the second round.
LEMMA CountedIsListed ==
    ASSUME NEW e \in Emails, NEW a \in Addresses
    PROVE  LET s == SocialIds(e, a)
           IN  /\ ToSet(s) = ToSet(Ids("social", 2, e, a))
               /\ ToSet(SubSeq(s, 1, 2)) \subseteq ToSet(s)
               /\ \A op \in AllOps : ToSet(Ids(op, 1, e, a)) \subseteq ToSet(Ids(op, 2, e, a))
<1> DEFINE s == SocialIds(e, a)
<1>1. s = Ids("social", 2, e, a) /\ s \in Seq(Identifiers)
    BY SocialIdsType DEF Ids
<1>2. Len(s) = 4
    BY DEF SocialIds
<1> HIDE DEF s
<1>3. DOMAIN s = 1..4
    BY <1>1, <1>2
<1>4. \A i \in 1..2 : s[i] \in Identifiers
    BY <1>1, <1>2
<1>5. /\ Len(SubSeq(s, 1, 2)) = 2 /\ SubSeq(s, 1, 2) \in Seq(Identifiers)
      /\ \A i \in 1..2 : SubSeq(s, 1, 2)[i] = s[i]
    BY <1>4, SubSeqProperties
<1> DEFINE t == SubSeq(s, 1, 2)
<1>6. DOMAIN t = 1..2 /\ \A i \in 1..2 : t[i] = s[i]
    BY <1>5
<1> HIDE DEF t
<1>7. ToSet(t) \subseteq ToSet(s)
    BY <1>3, <1>6 DEF ToSet
<1> QED
    BY <1>1, <1>7, IdsType DEF s, t

\* A request that is past the checks does not come in, check or ban.
LEMMA LaterSteps ==
    ASSUME NEW r, pc[r] \in {"verify", "record", "clear", "in"}
    PROVE  ~Hit(r) /\ ~Ban(r) /\ ~CheckBlock(r) /\ ~CheckCount(r) /\ ~Arrive(r)
<1>1. Hit(r) => pc[r] = "hit"
    BY DEF Hit
<1>2. Ban(r) => pc[r] = "ban"
    BY DEF Ban
<1>3. CheckBlock(r) => pc[r] = "block"
    BY DEF CheckBlock
<1>4. CheckCount(r) => pc[r] = "count"
    BY DEF CheckCount
<1>5. Arrive(r) => pc[r] = "new"
    BY DEF Arrive
<1> QED
    BY <1>1, <1>2, <1>3, <1>4, <1>5

\* What follows the checks.
LEMMA GoesOnCount ==
    ASSUME BasicInv, SureInv, NEW r \in Attempts, Acts(r), GoesOn(r),
           NEW k \in DOMAIN rows', k \in Keys
    PROVE  OneCount(r, k)
<1> DEFINE f == fr[r]
           g == fr'[r]
<1>1. /\ f \in Frame /\ f.op \in AllOps /\ f.email \in Emails /\ f.ip \in Addresses
      /\ f.at \in Nat /\ now \in Nat /\ f.at <= now /\ FrameFits(pc[r], f)
      /\ f.left \in Seq(Identifiers) /\ g.op = f.op
    BY AtWork DEF GoesOn, Working, Listing, SameWho
<1>2. /\ ToSet(SocialIds(f.email, f.ip)) \subseteq ToSet(Ids("social", 2, f.email, f.ip))
      /\ ToSet(SubSeq(SocialIds(f.email, f.ip), 1, 2))
            \subseteq ToSet(Ids("social", 2, f.email, f.ip))
      /\ ToSet(Ids(f.op, 1, f.email, f.ip)) \subseteq ToSet(Ids(f.op, 2, f.email, f.ip))
    BY <1>1, CountedIsListed
<1>3. /\ \A n \in 1..2 : /\ Ids(f.op, n, f.email, f.ip) \in Seq(Identifiers)
                         /\ Len(Ids(f.op, n, f.email, f.ip)) > 0
      /\ SocialIds(f.email, f.ip) \in Seq(Identifiers) /\ Len(SocialIds(f.email, f.ip)) > 0
      /\ SubSeq(SocialIds(f.email, f.ip), 1, 2) \in Seq(Identifiers)
      /\ Len(SubSeq(SocialIds(f.email, f.ip), 1, 2)) > 0
    BY <1>1, IdsType, SocialIdsType
<1> HIDE DEF f, g
<1>4. ASSUME f.op = "login", pc'[r] \in {"clear", "in", "reclear"},
             k \in DOMAIN rows, rows'[k] = rows[k]
      PROVE  OneCount(r, k)
    BY <1>1, <1>4 DEF OneCount, Leaves, May, CountsLater, g
<1>5. CASE Verify(r)
    <2>1. pc[r] = "verify" /\ UNCHANGED <<now, rows>>
        BY <1>5 DEF Verify
    <2>2. CASE f.op = "login" /\ Turn(r, "clear", f)
        <3>1. pc'[r] = "clear"
            BY <2>2 DEF Turn, BasicInv, TypeOK
        <3> QED
            BY <1>4, <2>1, <2>2, <3>1
    <2>3. CASE f.op = "login" /\ Record(r, Ids("login", 1, f.email, f.ip))
        <3> DEFINE ids == Ids("login", 1, f.email, f.ip)
        <3>1. /\ ids \in Seq(Identifiers) /\ Len(ids) > 0 /\ Record(r, ids)
              /\ k[1] \in ToSet(ids) => k[1] \in ToSet(Ids(f.op, 2, f.email, f.ip))
            BY <1>2, <1>3, <2>3
        <3> HIDE DEF ids
        <3> QED
            BY <2>1, <2>3, <3>1, RecordCount DEF f
    <2>4. CASE f.op = "social" /\ Turn(r, "block", Round(f, 2))
        <3>1. pc'[r] = "block"
            BY <2>4 DEF Turn, BasicInv, TypeOK
        <3> QED
            BY <3>1 DEF GoesOn
    <2>5. ASSUME f.op = "social",
                 NEW ids \in {Ids("social", 1, f.email, f.ip), SocialIds(f.email, f.ip),
                              SubSeq(SocialIds(f.email, f.ip), 1, 2)},
                 Record(r, ids)
          PROVE  OneCount(r, k)
        <3>1. ids \in Seq(Identifiers) /\ Len(ids) > 0
            <4>1. 1 \in 1..2
                OBVIOUS
            <4>2. /\ Ids("social", 1, f.email, f.ip) \in Seq(Identifiers)
                  /\ Len(Ids("social", 1, f.email, f.ip)) > 0
                BY <1>3, <2>5, <4>1, Zenon
            <4> QED
                BY <1>3, <2>5, <4>2, Zenon
        <3>2. k[1] \in ToSet(ids) => k[1] \in ToSet(Ids(f.op, 2, f.email, f.ip))
            BY <1>2, <2>5
        <3> QED
            BY <2>1, <2>5, <3>1, <3>2, RecordCount DEF f
    <2> QED
        BY <1>5, <2>2, <2>3, <2>4, <2>5 DEF Verify, f
<1>6. CASE Enter(r)
    <2>1. pc[r] = "in" /\ UNCHANGED <<now, rows>>
        BY <1>6 DEF Enter
    <2>2. CASE f.op = "login" /\ Turn(r, "reclear", f)
        <3>1. pc'[r] = "reclear"
            BY <2>2 DEF Turn, BasicInv, TypeOK
        <3> QED
            BY <1>4, <2>1, <2>2, <3>1
    <2>3. CASE f.op # "login" /\ Leave(r)
        <3>1. pc'[r] = "done"
            BY <2>3 DEF Leave, Turn, BasicInv, TypeOK
        <3> QED
            BY <3>1 DEF GoesOn
    <2>4. CASE f.op = "social" /\ Record(r, SocialIds(f.email, f.ip))
        <3> DEFINE ids == SocialIds(f.email, f.ip)
        <3>1. /\ ids \in Seq(Identifiers) /\ Len(ids) > 0 /\ Record(r, ids)
              /\ k[1] \in ToSet(ids) => k[1] \in ToSet(Ids(f.op, 2, f.email, f.ip))
            BY <1>2, <1>3, <2>4
        <3> HIDE DEF ids
        <3> QED
            BY <2>1, <2>4, <3>1, RecordCount DEF f
    <2> QED
        BY <1>6, <2>2, <2>3, <2>4 DEF Enter, f
<1>7. CASE RecordNext(r)
    <2>1. /\ pc[r] = "record" /\ CountOne(f) /\ f.op \in {"login", "social"}
          /\ Len(f.left) > 0 /\ Distinct(f.left)
        BY <1>1, <1>7 DEF RecordNext, FrameFits, Listing, SureInv, f
    <2>2. pc'[r] = "record" /\ g.left = Tail(f.left) /\ g.start = f.start
        <3>1. CASE Leave(r)
            <4>1. pc'[r] = "done"
                BY <3>1 DEF Leave, Turn, BasicInv, TypeOK
            <4> QED
                BY <4>1 DEF GoesOn
        <3>2. CASE Turn(r, "record", [f EXCEPT !.left = Tail(@)])
            <4> DEFINE h == [f EXCEPT !.left = Tail(@)]
            <4>1. h.left = Tail(f.left) /\ h.start = f.start
                BY <1>1 DEF Frame
            <4>2. Turn(r, "record", h)
                BY <3>2
            <4> HIDE DEF h
            <4> QED
                BY <4>1, <4>2 DEF Turn, BasicInv, TypeOK, g
        <3> QED
            BY <1>7, <3>1, <3>2 DEF RecordNext, f
    <2>3. /\ ToSet(f.left) = {Head(f.left)} \cup ToSet(Tail(f.left))
          /\ Head(f.left) \notin ToSet(Tail(f.left))
        BY <1>1, <2>1, HeadTail, DistinctTail
    <2>4. ASSUME May(k, pc'[r], g) PROVE May(k, pc[r], f) /\ ~Adds(k, f)
        <3>1. k[2] = ActionOf(f.op) /\ CountsLater(k, "record", g)
            BY <1>1, <2>1, <2>2, <2>4 DEF May
        <3>2. k[1] \in ToSet(Tail(f.left)) /\ k[3] = f.start
            BY <2>2, <3>1 DEF CountsLater
        <3> QED
            BY <2>1, <2>3, <3>1, <3>2 DEF May, CountsLater, Adds, Working, Listing
    <2>5. CASE Adds(k, f)
        <3>1. IF k \in DOMAIN rows THEN rows'[k].count = rows[k].count + 1
                                   ELSE rows'[k].count = 1
            BY <1>1, <2>1, <2>5, CountOneRow
        <3>2. May(k, pc[r], f)
            BY <2>1, <2>3, <2>5 DEF May, CountsLater, Adds, Working, Listing
        <3> QED
            BY <2>1, <2>4, <2>5, <3>1, <3>2 DEF OneCount, Adding, Adds, f, g
    <2>6. CASE ~Adds(k, f)
        <3>1. k \in DOMAIN rows /\ rows'[k] = rows[k]
            BY <1>1, <2>1, <2>6, CountOneRow
        <3> QED
            BY <2>4, <3>1 DEF OneCount, Leaves, f, g
    <2> QED
        BY <2>5, <2>6
<1>8. CASE Clear(r)
    <2> DEFINE ids == ToSet(Ids("login", 1, fr[r].email, fr[r].ip))
    <2>1. rows' = [x \in {y \in DOMAIN rows : y[1] \notin ids \/ y[2] \notin {"LOGIN"}}
                      |-> rows[x]]
        BY <1>8 DEF Clear, ClearRows
    <2> HIDE DEF ids
    <2>2. k \in DOMAIN rows /\ rows'[k] = rows[k]
        BY <2>1
    <2>3. pc[r] \in {"clear", "reclear"}
        BY <1>8 DEF Clear, ClearRows
    <2>4. f.op = "login" /\ pc'[r] = "in"
        <3>1. f.op = "login"
            BY <1>1, <2>3 DEF FrameFits
        <3>2. pc' = [pc EXCEPT ![r] = "in"] \/ pc' = [pc EXCEPT ![r] = "done"]
            BY <1>8 DEF Clear, ClearRows
        <3>3. pc'[r] \in {"in", "done"}
            BY <3>2 DEF BasicInv, TypeOK
        <3> QED
            BY <3>1, <3>3 DEF GoesOn
    <2> QED
        BY <1>4, <2>2, <2>4
<1> QED
    <2>1. ~Hit(r) /\ ~Ban(r) /\ ~CheckBlock(r) /\ ~CheckCount(r) /\ ~Arrive(r)
        BY LaterSteps DEF GoesOn
    <2>2. Throw(r) => pc'[r] = "done"
        BY DEF Throw, Leave, Turn, BasicInv, TypeOK
    <2> QED
        BY <1>5, <1>6, <1>7, <1>8, <2>1, <2>2 DEF Acts, Handle, GoesOn

\* After a step of r its list names no identifier twice, and its limit is not 0
\* if it is past a check.
LEMMA ActsSure ==
    ASSUME BasicInv, SureInv, NEW r \in Attempts, Acts(r)
    PROVE  /\ pc'[r] \in Listing => Distinct(fr'[r].left)
           /\ pc'[r] \in Admitted => Limit[ActionOf(fr'[r].op)] >= 1
<1> DEFINE f == fr[r]
           g == fr'[r]
<1>1. Kind(r)
    BY ActsKind
<1>2. CASE Comes(r)
    <2>1. /\ pc'[r] \in {"block", "count"} /\ g.op \in AllOps
          /\ g.left = Ids(g.op, 1, g.email, g.ip) /\ FrameFits(pc'[r], g)
        BY <1>2 DEF Comes, ControlStep
    <2>2. g.email \in Emails /\ g.ip \in Addresses
        BY <2>1 DEF FrameFits, Working, Listing
    <2> HIDE DEF g
    <2> QED
        BY <2>1, <2>2, ListsDistinct DEF Admitted, g
<1>3. CASE Ends(r)
    BY <1>3 DEF Ends, Listing, Admitted
<1>4. ASSUME pc[r] \in Working
      PROVE  /\ f \in Frame /\ f.op \in AllOps /\ f.email \in Emails /\ f.ip \in Addresses
             /\ f.left \in Seq(Identifiers)
             /\ pc[r] \in Listing => Len(f.left) > 0 /\ Distinct(f.left)
             /\ pc[r] \in Admitted => Limit[ActionOf(f.op)] >= 1
             /\ ~Exhausted(f) => Limit[ActionOf(f.op)] >= 1
    BY <1>4, AtWork, NotExhausted DEF FrameFits, SureInv
<1>5. ASSUME pc[r] \in Listing PROVE Distinct(Tail(f.left))
    BY <1>4, <1>5, DistinctTail DEF Working
<1>6. CASE Checks(r)
    <2>1. pc[r] \in Working /\ g.op = f.op
        BY <1>6 DEF Checks, SameWho, Working, Listing
    <2>2. Distinct(Ids(f.op, 2, f.email, f.ip))
        BY <1>4, <2>1, ListsDistinct
    <2>3. pc'[r] \in Listing => Distinct(g.left)
        <3>1. PassedOn(r) /\ pc[r] \in {"count", "hit"} /\ pc'[r] \in Listing =>
                 g.left \in {Tail(f.left), Ids(f.op, 2, f.email, f.ip)}
            BY DEF PassedOn, Listing
        <3> QED
            BY <1>4, <1>5, <1>6, <2>1, <2>2, <3>1 DEF Checks, Listing
    <2>4. pc'[r] \in Admitted => pc[r] \in Admitted \/ ~Exhausted(f)
        BY <1>6 DEF Checks, Admitted
    <2> QED
        BY <1>4, <2>1, <2>3, <2>4
<1>7. CASE GoesOn(r)
    <2>1. pc[r] \in Working /\ pc[r] \in Admitted /\ g.op = f.op
        BY <1>7 DEF GoesOn, SameWho, Working, Listing, Admitted
    <2>2. pc'[r] \in Listing => Distinct(g.left)
        <3> SUFFICES ASSUME pc'[r] = "record" PROVE Distinct(g.left)
            BY <1>7 DEF GoesOn, Listing
        <3>1. ASSUME NEW ids, Record(r, ids) PROVE g.left = ids
            <4> DEFINE s == Bucket(now, Window[ActionOf(fr[r].op)])
                       h == [fr[r] EXCEPT !.left = ids, !.start = s]
            <4>1. h.left = ids
                BY <1>4, <2>1 DEF Frame
            <4>2. Turn(r, "record", h)
                BY <3>1 DEF Record
            <4> HIDE DEF h
            <4> QED
                BY <4>1, <4>2 DEF Turn, BasicInv, TypeOK
        <3>2. /\ \A n : Distinct(Ids("login", n, f.email, f.ip))
              /\ \A n : Distinct(Ids("social", n, f.email, f.ip))
              /\ Distinct(SocialIds(f.email, f.ip))
              /\ Distinct(SubSeq(SocialIds(f.email, f.ip), 1, 2))
            BY <1>4, <2>1, ListsDistinct DEF AllOps
        <3>3. CASE Verify(r)
            <4>1. \A p, h : Turn(r, p, h) => pc'[r] = p
                BY DEF Turn, BasicInv, TypeOK
            <4>2. \E ids \in {Ids("login", 1, f.email, f.ip), Ids("social", 1, f.email, f.ip),
                              SocialIds(f.email, f.ip), SubSeq(SocialIds(f.email, f.ip), 1, 2)} :
                     Record(r, ids)
                BY <3>3, <4>1 DEF Verify
            <4> QED
                BY <3>1, <3>2, <4>2
        <3>4. CASE Enter(r)
            <4>1. \A p, h : Turn(r, p, h) => pc'[r] = p
                BY DEF Turn, BasicInv, TypeOK
            <4>2. Record(r, SocialIds(f.email, f.ip))
                BY <3>4, <4>1 DEF Enter, Leave
            <4> QED
                BY <3>1, <3>2, <4>2
        <3>5. CASE RecordNext(r)
            <4> DEFINE h == [f EXCEPT !.left = Tail(@)]
            <4>1. h.left = Tail(f.left)
                BY <1>4, <2>1 DEF Frame
            <4>2. Turn(r, "record", h) /\ pc[r] \in Listing
                <5>1. ~Leave(r)
                    BY DEF Leave, Turn, BasicInv, TypeOK
                <5> QED
                    BY <3>5, <5>1 DEF RecordNext, Listing
            <4> HIDE DEF h
            <4>3. g.left = Tail(f.left)
                BY <4>1, <4>2 DEF Turn, BasicInv, TypeOK
            <4> QED
                BY <1>5, <4>2, <4>3
        <3>6. CASE Clear(r)
            <4>1. pc' = [pc EXCEPT ![r] = "in"] \/ pc' = [pc EXCEPT ![r] = "done"]
                BY <3>6 DEF Clear, ClearRows
            <4> QED
                BY <4>1 DEF BasicInv, TypeOK
        <3>7. ~Hit(r) /\ ~Ban(r) /\ ~CheckBlock(r) /\ ~CheckCount(r) /\ ~Arrive(r)
            BY <1>7, LaterSteps DEF GoesOn
        <3>8. ~Throw(r)
            BY DEF Throw, Leave, Turn, BasicInv, TypeOK
        <3> QED
            BY <1>2, <3>3, <3>4, <3>5, <3>6, <3>7, <3>8 DEF Acts, Handle
    <2> QED
        BY <1>4, <2>1, <2>2
<1> QED
    BY <1>1, <1>2, <1>3, <1>6, <1>7 DEF Kind

\* Of the identifiers of a login or a social login those that are checked at all
\* are checked in the first round.
LEMMA CheckedAtOnce ==
    ASSUME NEW op \in AllOps, NEW e \in Emails, NEW a \in Addresses,
           op \in {"login", "social"}, NEW k, Checked(k),
           k[1] \in ToSet(Ids(op, 2, e, a))
    PROVE  k[1] \in ToSet(Ids(op, 1, e, a))
<1>1. CASE op = "login"
    BY <1>1 DEF Ids
<1>2. CASE op = "social"
    <2> DEFINE x == <<"socialUser", e, None>>
               y == <<"social", None, a>>
               v == <<"social", e, None>>
               w == <<"social", e, a>>
    <2>1. Ids(op, 1, e, a) = <<y>> /\ Ids(op, 2, e, a) = <<x, y, v, w>>
        BY <1>2 DEF Ids, SocialIds
    <2>2. /\ x[1] = "socialUser" /\ v[1] = "social" /\ v[2] # None
          /\ w[1] = "social" /\ w[2] # None
        OBVIOUS
    <2>3. k[1] # x /\ k[1] # v /\ k[1] # w
        BY <2>2 DEF Checked
    <2> HIDE DEF x, y, v, w
    <2>4. ToSet(<<y>>) = {y} /\ ToSet(<<x, y, v, w>>) = {x, y, v, w}
        BY DEF ToSet
    <2> QED
        BY <2>1, <2>3, <2>4
<1> QED
    BY <1>1, <1>2

\* A request that arrives may add to no counter that is there.
LEMMA ComesCount ==
    ASSUME BasicInv, NEW r \in Attempts, Comes(r), NEW k \in DOMAIN rows', k \in Keys,
           Checked(k)
    PROVE  OneCount(r, k)
<1> DEFINE f == fr'[r]
<1>1. /\ UNCHANGED <<now, rows>> /\ pc'[r] \in {"block", "count"} /\ f.op \in AllOps
      /\ f.at = now /\ f.left = Ids(f.op, 1, f.email, f.ip) /\ FrameFits(pc'[r], f)
    BY DEF Comes, ControlStep
<1>2. f.email \in Emails /\ f.ip \in Addresses
    BY <1>1 DEF FrameFits, Working, Listing
<1>3. now \in Nat /\ k[3] \in Nat /\ k[3] <= now
    BY <1>1 DEF BasicInv, TypeOK, TimesOK, Keys, Checked
<1>4. ~May(k, pc'[r], f)
    <2> SUFFICES ASSUME May(k, pc'[r], f) PROVE FALSE
        OBVIOUS
    <2>1. f.op \notin {"register", "reset"} /\ CountsLater(k, pc'[r], f)
        BY <1>1, <1>3 DEF May, CountsNow
    <2>2. /\ k[1] \in ToSet(Ids(f.op, 2, f.email, f.ip))
          /\ k[1] \notin ToSet(Ids(f.op, 1, f.email, f.ip))
        BY <1>1, <1>3, <2>1 DEF CountsLater
    <2> HIDE DEF f
    <2>3. f.op \in {"login", "social"}
        BY <1>1, <2>1 DEF AllOps
    <2> QED
        BY <1>1, <1>2, <2>2, <2>3, CheckedAtOnce
<1> QED
    BY <1>1, <1>4 DEF OneCount, Leaves

\* Every step of a request treats every counter in one of the two ways.
LEMMA ActsCount ==
    ASSUME BasicInv, SureInv, NEW r \in Attempts, Acts(r), NEW k \in DOMAIN rows',
           Checked(k)
    PROVE  OneCount(r, k)
<1>1. Kind(r)
    BY ActsKind
<1>2. k \in Keys /\ k[2] \in Actions
    BY <1>1, KindStep DEF TableStep, RowsOK, Checked
<1> QED
    BY <1>1, <1>2, ComesCount, EndsCount, ChecksCount, GoesOnCount DEF Kind

\* The other requests may do what they could.
LEMMA OthersMay ==
    ASSUME BasicInv, NEW r \in Attempts, ControlStep(r), NEW q \in Attempts \ {r}, NEW k
    PROVE  /\ pc'[q] = pc[q] /\ fr'[q].left = fr[q].left /\ fr'[q].op = fr[q].op
           /\ May(k, pc'[q], fr'[q]) <=> May(k, pc[q], fr[q])
<1>1. pc'[q] = pc[q] /\ Stays(fr[q], fr'[q])
    BY DEF ControlStep, Others
<1> DEFINE f == fr[q]
           g == fr'[q]
<1>2. /\ g.op = f.op /\ g.email = f.email /\ g.ip = f.ip /\ g.left = f.left
      /\ g.at = f.at /\ g.start = f.start
    BY <1>1 DEF Stays, SameWho
<1> HIDE DEF f, g
<1>3. \A p : May(k, p, g) <=> May(k, p, f)
    BY <1>2 DEF May, CountsNow, CountsLater, Looked
<1> QED
    BY <1>1, <1>2, <1>3 DEF f, g

\* What SureInv rests on is preserved.
LEMMA NextSure == BasicInv /\ SureInv /\ [Next]_vars => SureInv'
<1> SUFFICES ASSUME BasicInv, SureInv, [Next]_vars PROVE SureInv'
    OBVIOUS
<1> DEFINE Fit(p, f) == /\ p \in Listing => Distinct(f.left)
                        /\ p \in Admitted => Limit[ActionOf(f.op)] >= 1
<1>1. CASE Idle
    BY <1>1 DEF Idle, SureInv, InFlight
<1>2. ASSUME NEW r \in Attempts, Acts(r) PROVE SureInv'
    <2>1. Kind(r) /\ ControlStep(r)
        BY <1>2, ActsKind, KindStep
    <2>2. IsFiniteSet(InFlight') /\ Cardinality(InFlight') <= MaxInFlight
        <3>1. \A q \in Attempts \ {r} : q \in InFlight' <=> q \in InFlight
            BY <2>1, OthersMay DEF InFlight
        <3>2. IsFiniteSet(InFlight) /\ Cardinality(InFlight) <= MaxInFlight
            BY DEF SureInv
        <3>3. CASE r \in InFlight
            <4>1. InFlight' \in SUBSET InFlight
                BY <3>1, <3>3 DEF InFlight
            <4>2. /\ IsFiniteSet(InFlight') /\ Cardinality(InFlight') <= Cardinality(InFlight)
                  /\ Cardinality(InFlight') \in Nat /\ Cardinality(InFlight) \in Nat
                BY <3>2, <4>1, FS_Subset, FS_CardinalityType
            <4> QED
                BY <3>2, <4>2
        <3>4. CASE r \notin InFlight
            <4>1. Cardinality(InFlight) < MaxInFlight \/ InFlight' \subseteq InFlight
                <5>1. CASE Arrive(r)
                    <6>1. \E op \in Operations, e \in Emails, a \in Addresses :
                             Cardinality(InFlight) < MaxInFlight
                        BY <5>1, Zenon DEF Arrive
                    <6> QED
                        BY <6>1
                <5>2. CASE ~Arrive(r)
                    <6>1. r \in InFlight
                        BY <1>2, <5>2 DEF Acts, Handle, Throw, CheckBlock, CheckCount,
                           Ban, Hit, Verify, RecordNext, Clear, ClearRows, Enter, InFlight
                    <6> QED
                        BY <3>4, <6>1
                <5> QED
                    BY <5>1, <5>2
            <4>2. InFlight' \in SUBSET (InFlight \cup {r})
                BY <3>1 DEF InFlight
            <4>3. /\ IsFiniteSet(InFlight \cup {r})
                  /\ Cardinality(InFlight \cup {r}) = Cardinality(InFlight) + 1
                  /\ Cardinality(InFlight) \in Nat
                BY <3>2, <3>4, FS_AddElement, FS_CardinalityType
            <4>4. /\ IsFiniteSet(InFlight') /\ Cardinality(InFlight') \in Nat
                  /\ Cardinality(InFlight') <= Cardinality(InFlight) + 1
                BY <4>2, <4>3, FS_Subset, FS_CardinalityType
            <4>5. InFlight' \subseteq InFlight =>
                     Cardinality(InFlight') <= Cardinality(InFlight)
                BY <3>2, FS_Subset
            <4> QED
                BY <3>2, <4>1, <4>3, <4>4, <4>5
        <3> QED
            BY <3>3, <3>4
    <2>3. ASSUME NEW q \in Attempts PROVE Fit(pc'[q], fr'[q])
        <3>1. CASE q # r
            <4>1. pc'[q] = pc[q] /\ fr'[q].left = fr[q].left /\ fr'[q].op = fr[q].op
                BY <2>1, <3>1, OthersMay
            <4> QED
                BY <4>1 DEF SureInv
        <3>2. CASE q = r
            BY <1>2, <3>2, ActsSure
        <3> QED
            BY <3>1, <3>2
    <2> QED
        BY <2>2, <2>3 DEF SureInv
<1> QED
    BY <1>1, <1>2, StepActs

\* A counter and the requests that may add to it stay within the bound.
LEMMA NextOver == BasicInv /\ SureInv /\ OverInv /\ [Next]_vars => OverInv'
<1> SUFFICES ASSUME BasicInv, SureInv, OverInv, [Next]_vars PROVE OverInv'
    OBVIOUS
<1>1. CASE Idle
    BY <1>1 DEF Idle, OverInv, Entitled
<1>2. ASSUME NEW r \in Attempts, Acts(r), NEW k \in DOMAIN rows', Checked(k)
      PROVE  rows'[k].count + Cardinality(Entitled(k)') <= Limit[k[2]] - 1 + MaxInFlight
    <2> DEFINE E == Entitled(k)
               F == Entitled(k)'
    <2>1. Kind(r) /\ ControlStep(r) /\ TableStep
        BY <1>2, ActsKind, KindStep
    <2>2. OneCount(r, k)
        BY <1>2, ActsCount
    <2>3. \A q \in Attempts \ {r} : q \in F <=> q \in E
        BY <2>1, OthersMay DEF Entitled
    <2>4. r \in E <=> May(k, pc[r], fr[r])
        BY DEF Entitled
    <2>5. r \in F <=> May(k, pc'[r], fr'[r])
        BY DEF Entitled
    <2>6. E \subseteq InFlight /\ F \subseteq InFlight' /\ E \subseteq Attempts /\ F \subseteq Attempts
        BY DEF Entitled, May, InFlight, Working, Listing
    <2>7. /\ IsFiniteSet(InFlight) /\ Cardinality(InFlight) <= MaxInFlight
          /\ IsFiniteSet(InFlight') /\ Cardinality(InFlight') <= MaxInFlight
          /\ Cardinality(InFlight) \in Nat /\ Cardinality(InFlight') \in Nat
        BY NextSure, FS_CardinalityType DEF SureInv
    <2>8. /\ IsFiniteSet(E) /\ Cardinality(E) \in Nat
          /\ IsFiniteSet(F) /\ Cardinality(F) \in Nat /\ Cardinality(F) <= MaxInFlight
        BY <2>6, <2>7, FS_Subset, FS_CardinalityType
    <2>9. /\ k \in DOMAIN rows => /\ rows[k].count \in Nat
                                  /\ rows[k].count + Cardinality(E)
                                        <= Limit[k[2]] - 1 + MaxInFlight
          /\ Limit[k[2]] \in Nat
        BY <1>2 DEF BasicInv, TypeOK, OverInv, Checked
    <2> SUFFICES rows'[k].count + Cardinality(F) <= Limit[k[2]] - 1 + MaxInFlight
        OBVIOUS
    <2> HIDE DEF E, F
    <2>10. CASE Leaves(r, k)
        <3>1. k \in DOMAIN rows /\ rows'[k].count = rows[k].count
            BY <2>10 DEF Leaves
        <3>2. CASE rows[k].count < Limit[k[2]]
            BY <2>8, <2>9, <3>1, <3>2
        <3>3. CASE r \in F => r \in E
            <4>1. F \in SUBSET E
                BY <2>3, <2>6, <3>3
            <4>2. Cardinality(F) <= Cardinality(E)
                BY <2>8, <4>1, FS_Subset
            <4> QED
                BY <2>8, <2>9, <3>1, <4>2
        <3> QED
            BY <2>4, <2>5, <2>10, <3>2, <3>3 DEF Leaves
    <2>11. CASE Adding(r, k)
        <3>1. r \notin F /\ r \in InFlight
            BY <2>5, <2>11 DEF Adding, InFlight
        <3>2. CASE k \in DOMAIN rows
            <4>1. r \in E /\ rows'[k].count = rows[k].count + 1
                BY <2>4, <2>11, <3>2 DEF Adding
            <4>2. F \in SUBSET (E \ {r})
                BY <2>3, <2>6, <3>1
            <4>3. /\ IsFiniteSet(E \ {r})
                  /\ Cardinality(E \ {r}) = Cardinality(E) - 1
                BY <2>8, <4>1, FS_RemoveElement
            <4>4. Cardinality(F) <= Cardinality(E) - 1
                BY <4>2, <4>3, FS_Subset
            <4> QED
                BY <2>8, <2>9, <3>2, <4>1, <4>4
        <3>3. CASE k \notin DOMAIN rows
            <4>1. rows'[k].count = 1
                BY <2>11, <3>3 DEF Adding
            <4>2. F \in SUBSET (InFlight \ {r})
                <5>1. F \subseteq InFlight
                    BY <2>3, <2>6, <3>1
                <5> QED
                    BY <3>1, <5>1
            <4>3. /\ IsFiniteSet(InFlight \ {r})
                  /\ Cardinality(InFlight \ {r}) = Cardinality(InFlight) - 1
                BY <2>7, <3>1, FS_RemoveElement
            <4>4. Cardinality(F) <= Cardinality(InFlight) - 1
                BY <4>2, <4>3, FS_Subset
            <4>5. Limit[k[2]] >= 1
                BY <2>11 DEF Adding, SureInv, Admitted
            <4> QED
                BY <2>7, <2>8, <2>9, <4>1, <4>4, <4>5
        <3> QED
            BY <3>2, <3>3
    <2> QED
        BY <2>2, <2>10, <2>11 DEF OneCount
<1> QED
    BY <1>1, <1>2, StepActs DEF OverInv

\* Concurrent requests pass a limit by no more than the requests that may be in
\* flight, for any limits, windows and numbers of requests, however the clock
\* moves between a check and the count that follows it.
THEOREM OvershootIsBounded == Spec => []OvershootBounded
<1>1. Init => SureInv /\ OverInv
    <2> SUFFICES ASSUME Init PROVE SureInv /\ OverInv
        OBVIOUS
    <2>1. InFlight = {} /\ DOMAIN rows = {}
        BY DEF Init, InFlight
    <2>2. \A r \in Attempts : pc[r] = "new"
        BY DEF Init
    <2> QED
        BY <2>1, <2>2, FS_EmptySet DEF SureInv, OverInv, Listing, Admitted
<1>2. BasicInv /\ SureInv /\ OverInv => OvershootBounded
    <2> SUFFICES ASSUME BasicInv, SureInv, OverInv, NEW k \in DOMAIN rows, Checked(k)
                 PROVE  rows[k].count <= Limit[k[2]] - 1 + MaxInFlight
        BY DEF OvershootBounded, Checked
    <2>1. Entitled(k) \in SUBSET InFlight
        BY DEF Entitled, May, InFlight, Working, Listing
    <2>2. Cardinality(Entitled(k)) \in Nat
        BY <2>1, FS_Subset, FS_CardinalityType DEF SureInv
    <2>3. rows[k].count \in Nat /\ Limit[k[2]] \in Nat
        BY DEF BasicInv, TypeOK, Checked
    <2>4. rows[k].count + Cardinality(Entitled(k)) <= Limit[k[2]] - 1 + MaxInFlight
        BY DEF OverInv
    <2> QED
        BY <2>2, <2>3, <2>4
<1> QED
    BY <1>1, <1>2, InitBasic, NextBasic, NextSure, NextOver, PTL DEF Spec
=============================================================================
