---------------------------- MODULE InboxHistory ----------------------------
(***************************************************************************)
(* The SLA history follows the messages: an import of one unknown message  *)
(* at a time, a reply and a repair leave the last cycle open exactly while *)
(* a buyer waits, since the first message he waits for an answer to.       *)
(***************************************************************************)
EXTENDS InboxProofs

-----------------------------------------------------------------------------
(* What the last cycle, from w to e, has to do with the dates B of a       *)
(* buyer's messages and S of the seller's.                                 *)

Lasts(B, S, w, e) ==
    /\ w \in B
    /\ \A a \in B : a < w => \E s \in S : a < s /\ s < w
    /\ \A b \in B, s \in S : ~(w < s /\ s < b)
    /\ e = 0 => \A s \in S : ~(w < s)
    /\ e # 0 => (\E s \in S : w < s) /\ \A s \in S : w < s => e <= s
Follows(B, S, cs) ==
    /\ B = {} => cs = <<>>
    /\ B # {} => cs # <<>> /\ Lasts(B, S, cs[Len(cs)].start, cs[Len(cs)].end)

\* A newest message of the buyer joins an open cycle, or begins one.
LEMMA BuyerJoins ==
    ASSUME NEW B \in SUBSET Nat, NEW S \in SUBSET Nat, NEW w \in Nat, NEW d \in Nat,
           \A s \in S : s < d, Lasts(B, S, w, 0), w < d
    PROVE  Lasts(B \cup {d}, S, w, 0)
BY DEF Lasts

LEMMA BuyerBegins ==
    ASSUME NEW B \in SUBSET Nat, NEW S \in SUBSET Nat, NEW w \in Nat, NEW e \in Nat, NEW d \in Nat,
           \A x \in B \cup S : x < d, B \cap S = {}, B # {} => e # 0 /\ Lasts(B, S, w, e)
    PROVE  Lasts(B \cup {d}, S, d, 0)
<1>1. ASSUME NEW a \in B PROVE \E s \in S : a < s /\ s < d
  <2>1. PICK s \in S : w < s
    BY <1>1 DEF Lasts
  <2>2. ~(w < s /\ s < a) /\ s # a /\ s < d /\ s \in Nat /\ a \in Nat
    BY <1>1, <2>1 DEF Lasts
  <2> QED
    BY <2>1, <2>2
<1>2. \A b \in B \cup {d}, s \in S : ~(d < s /\ s < b)
  OBVIOUS
<1>3. \A s \in S : ~(d < s)
  OBVIOUS
<1> QED
  BY <1>1, <1>2, <1>3 DEF Lasts

\* A newest message of the seller closes an open cycle, or changes nothing.
LEMMA SellerCloses ==
    ASSUME NEW B \in SUBSET Nat, NEW S \in SUBSET Nat, NEW w \in Nat, NEW d \in Nat,
           \A x \in B \cup S : x < d, Lasts(B, S, w, 0)
    PROVE  Lasts(B, S \cup {d}, w, d)
<1>1. w < d /\ d # 0 /\ w \in B
  BY DEF Lasts
<1>2. \A a \in B : a < w => \E s \in S \cup {d} : a < s /\ s < w
  BY DEF Lasts
<1>3. \A b \in B, s \in S \cup {d} : ~(w < s /\ s < b)
  BY DEF Lasts
<1>4. \A s \in S \cup {d} : w < s => d <= s
  BY DEF Lasts
<1> QED
  BY <1>1, <1>2, <1>3, <1>4 DEF Lasts

LEMMA SellerAdds ==
    ASSUME NEW B \in SUBSET Nat, NEW S \in SUBSET Nat, NEW w \in Nat, NEW e \in Nat, NEW d \in Nat,
           \A x \in B \cup S : x < d, Lasts(B, S, w, e), e # 0
    PROVE  Lasts(B, S \cup {d}, w, e)
<1>1. PICK s0 \in S : w < s0 /\ e <= s0
  BY DEF Lasts
<1>2. e <= d
  BY <1>1
<1>3. \A a \in B : a < w => \E s \in S \cup {d} : a < s /\ s < w
  BY DEF Lasts
<1>4. \A b \in B, s \in S \cup {d} : ~(w < s /\ s < b)
  BY DEF Lasts
<1>5. (\E s \in S \cup {d} : w < s) /\ \A s \in S \cup {d} : w < s => e <= s
  BY <1>1, <1>2 DEF Lasts
<1> QED
  BY <1>3, <1>4, <1>5 DEF Lasts

\* Messages of the seller may get later dates, as long as they pass none of the buyer's.
Between2(B, s, t) == s <= t /\ \A b \in B : (b < s <=> b < t) /\ (s < b <=> t < b)
LEMMA SellerLater ==
    ASSUME NEW B \in SUBSET Nat, NEW S \in SUBSET Nat, NEW T \in SUBSET Nat, NEW cs,
           B # {} => cs[Len(cs)].end \in Nat,
           \A t \in T : \E s \in S : Between2(B, s, t),
           \A s \in S : \E t \in T : Between2(B, s, t),
           Follows(B, S, cs)
    PROVE  Follows(B, T, cs)
<1> SUFFICES ASSUME B # {} PROVE Lasts(B, T, cs[Len(cs)].start, cs[Len(cs)].end)
  BY DEF Follows
<1> DEFINE w == cs[Len(cs)].start
           e == cs[Len(cs)].end
<1>1. Lasts(B, S, w, e) /\ w \in B /\ w \in Nat /\ e \in Nat
  BY DEF Follows, Lasts
<1> HIDE DEF w, e
<1>2. ASSUME NEW a \in B, a < w PROVE \E t \in T : a < t /\ t < w
  <2>1. PICK s \in S : a < s /\ s < w
    BY <1>1, <1>2 DEF Lasts
  <2>2. PICK t \in T : Between2(B, s, t)
    OBVIOUS
  <2> QED
    BY <2>1, <2>2, <1>1, <1>2 DEF Between2
<1>3. ASSUME NEW t \in T, w < t PROVE \E s \in S : Between2(B, s, t) /\ w < s
  BY <1>1, <1>3 DEF Between2
<1>4. \A b \in B, t \in T : ~(w < t /\ t < b)
  <2> SUFFICES ASSUME NEW b \in B, NEW t \in T, w < t, t < b PROVE FALSE
    OBVIOUS
  <2>1. PICK s \in S : Between2(B, s, t) /\ w < s
    BY <1>3
  <2> QED
    BY <2>1, <1>1 DEF Between2, Lasts
<1>5. e = 0 => \A t \in T : ~(w < t)
  BY <1>1, <1>3 DEF Lasts
<1>6. e # 0 => \E t \in T : w < t
  <2> SUFFICES ASSUME e # 0 PROVE \E t \in T : w < t
    OBVIOUS
  <2>1. PICK s \in S : w < s
    BY <1>1 DEF Lasts
  <2>2. PICK t \in T : Between2(B, s, t)
    OBVIOUS
  <2> QED
    BY <2>1, <2>2, <1>1 DEF Between2
<1>7. e # 0 => \A t \in T : w < t => e <= t
  <2> SUFFICES ASSUME e # 0, NEW t \in T, w < t PROVE e <= t
    OBVIOUS
  <2>1. PICK s \in S : Between2(B, s, t) /\ w < s
    BY <1>3
  <2>2. e <= s /\ s <= t /\ s \in Nat /\ t \in Nat
    BY <2>1, <1>1 DEF Lasts, Between2
  <2> QED
    BY <2>2, <1>1
<1> QED
  BY <1>1, <1>2, <1>4, <1>5, <1>6, <1>7 DEF Lasts, w, e

-----------------------------------------------------------------------------
(* Dates and order of what eBay has and of what is stored.                 *)

\* The message of the thread that a stored message is.
Mine(x) == IF x.ext # 0 THEN x.ext ELSE reply[x.reply].answer.msg
KnownIn(rs, k) == \E x \in rs : x.ext = k

\* Messages are listed by date; a reply carries what its steps so far have read.
ReplyDates(e, now) ==
    /\ e.at <= now
    /\ e.pc \in {"idle", "clicked", "ready"} => e.answer.msg = 0
    /\ e.pc \in {"idle", "clicked", "ready", "answered"} => e.cycle = 0 /\ ~e.gone
SentDates ==
    /\ clock \in Nat
    /\ \A j, k \in DOMAIN thread : j < k => thread[j].at < thread[k].at
    /\ \A k \in DOMAIN thread : thread[k].at <= clock /\ (thread[k].reply # None => thread[k].from = "seller")
    /\ \A r \in Reply : ReplyDates(reply[r], clock)

\* A stored message has its sender, and its date unless it was sent from here.
RowDates(rs) == \A x \in rs :
    /\ x.at <= clock
    /\ x.ext # 0 => x.from = thread[x.ext].from
    /\ x.reply = None => x.at = thread[x.ext].at
    /\ x.reply # None => x.from = "seller"

\* A stored message is dated between the message before its own and its own.
Ordered(rs) == \A x \in rs :
    /\ x.at <= thread[Mine(x)].at
    /\ \A j \in DOMAIN thread : j < Mine(x) => thread[j].at < x.at

\* A reply without identifier waits for the next unknown message, or is too old to claim it.
Locals(rs) == \A x \in rs : x.ext = 0 =>
    /\ \A j \in DOMAIN thread : j < Mine(x) => KnownIn(rs, j)
    /\ KnownIn(rs, Mine(x)) => thread[Mine(x)].at - x.at > Window
\* What is unknown comes last.
Known1st(rs) == \A j, k \in DOMAIN thread : j < k /\ KnownIn(rs, k) => KnownIn(rs, j)
Aligned(rs) == Ordered(rs) /\ Locals(rs) /\ Known1st(rs)

Said(rs, from) == {x.at : x \in {y \in rs : y.from = from}}
Timed(rs, cs) == Follows(Said(rs, "buyer"), Said(rs, "seller"), cs)

LEMMA ThreadIs ==
    ASSUME IInv
    PROVE  /\ scope.clock \in Nat /\ scope.thread \in Nat /\ Len(thread) \in Nat /\ DOMAIN thread = 1..Len(thread)
           /\ \A k \in DOMAIN thread : thread[k] \in MessageSet /\ thread[k].at \in Nat /\ k \in Nat /\ k # 0
<1>1. thread \in Seq(MessageSet)
  BY DEF IInv, TypeOK, MessageSet
<1>2. scope.clock \in Nat /\ scope.thread \in Nat
  BY ScopeBounds DEF IInv, ReadsInv
<1>3. \A k \in DOMAIN thread : thread[k] \in MessageSet
  BY Named DEF IInv
<1>4. \A k \in DOMAIN thread : thread[k].at \in Nat
  BY <1>2, <1>3 DEF MessageSet
<1> QED
  BY <1>1, <1>2, <1>3, <1>4

LEMMA MineIs ==
    ASSUME IInv, SentDates, NEW rs \in SUBSET RowSet, RowsInv(rs), RowDates(rs), NEW x \in rs
    PROVE  /\ Mine(x) \in DOMAIN thread /\ Mine(x) \in Nat /\ x.at \in Nat
           /\ x.from = thread[Mine(x)].from
           /\ x.reply = None => x.ext # 0 /\ x.at = thread[Mine(x)].at
           /\ x.reply # None => x.reply \in Reply /\ x.from = "seller"
           /\ x.ext = 0 => /\ thread[Mine(x)].reply = x.reply /\ x.reply # None
                           /\ thread[Mine(x)].body = BodyOf[x.reply]
           /\ x.ext # 0 => Mine(x) = x.ext
<1>1. x \in RowSet /\ scope.clock \in Nat /\ x.ext \in 0..Len(thread) /\ Len(thread) \in Nat /\ DOMAIN thread = 1..Len(thread)
  BY ThreadIs DEF RowsInv
<1>2. x.at \in Nat /\ (x.reply # None => x.reply \in Reply)
  BY <1>1 DEF RowSet
<1>3. CASE x.ext # 0
  <2>1. Mine(x) = x.ext /\ x.ext \in DOMAIN thread
    BY <1>3, <1>1 DEF Mine
  <2> QED
    BY <2>1, <1>1, <1>2, <1>3 DEF RowDates
<1>4. CASE x.ext = 0
  <2>1. x.reply # None /\ x.reply \in Reply /\ Delivered(x.reply) /\ x.from = "seller"
    BY <1>4, <1>2 DEF RowsInv, RowDates
  <2>2. PICK k \in DOMAIN thread : thread[k].reply = x.reply
    BY <2>1 DEF Delivered
  <2>3. reply[x.reply].answer.msg = k /\ thread[k].body = BodyOf[x.reply]
    BY <2>1, <2>2 DEF IInv, SentInv
  <2>4. Mine(x) = k /\ thread[k].from = "seller"
    BY <1>4, <2>1, <2>2, <2>3 DEF Mine, SentDates
  <2> QED
    BY <2>1, <2>2, <2>3, <2>4, <1>1, <1>2, <1>4
<1> QED
  BY <1>3, <1>4

\* Dates of the two sides differ.
LEMMA SidesDiffer ==
    ASSUME IInv, SentDates, NEW rs \in SUBSET RowSet, RowsInv(rs), RowDates(rs), Ordered(rs)
    PROVE  /\ Said(rs, "buyer") \in SUBSET Nat /\ Said(rs, "seller") \in SUBSET Nat
           /\ Said(rs, "buyer") \cap Said(rs, "seller") = {}
<1>1. \A f : Said(rs, f) \in SUBSET Nat
  BY MineIs DEF Said
<1>2. ASSUME NEW x \in rs, NEW y \in rs, x.from = "buyer", y.from = "seller" PROVE x.at # y.at
  <2>1. x.reply = None /\ x.at = thread[Mine(x)].at /\ Mine(x) # Mine(y)
    BY <1>2, MineIs
  <2>2. /\ Mine(x) \in DOMAIN thread /\ Mine(y) \in DOMAIN thread /\ Mine(x) \in Nat /\ Mine(y) \in Nat
        /\ x.at \in Nat /\ y.at \in Nat /\ thread[Mine(y)].at \in Nat
    BY MineIs, ThreadIs
  <2>3. CASE Mine(x) < Mine(y)
    BY <2>1, <2>2, <2>3 DEF Ordered
  <2>4. CASE Mine(y) < Mine(x)
    <3>1. thread[Mine(y)].at < thread[Mine(x)].at /\ y.at <= thread[Mine(y)].at
      BY <2>2, <2>4 DEF SentDates, Ordered
    <3> QED
      BY <3>1, <2>1, <2>2
  <2> QED
    BY <2>1, <2>2, <2>3, <2>4
<1> QED
  BY <1>1, <1>2 DEF Said

-----------------------------------------------------------------------------
(* What one message does to the stored ones.                               *)

\* A row gets the identifier and the date of its own message.
Becomes(old, new, k) ==
    new.ext = k /\ new.at = thread[k].at /\ new.from = old.from /\ new.reply = old.reply

LEMMA MovedRow ==
    ASSUME IInv, SentDates, NEW rs \in SUBSET RowSet, RowsInv(rs), RowDates(rs),
           NEW k \in DOMAIN thread, NEW old \in rs, Mine(old) = k, NEW new, Becomes(old, new, k),
           NEW out, out = (rs \ {old}) \cup {new}, out \in SUBSET RowSet, RowsInv(out)
    PROVE  /\ Mine(new) = k /\ old.at \in Nat /\ new.at = thread[k].at
           /\ RowDates(out)
           /\ \A j \in DOMAIN thread : KnownIn(out, j) <=> KnownIn(rs, j) \/ j = k
<1>1. /\ Mine(new) = k /\ k # 0 /\ new.ext = k /\ new.at = thread[k].at /\ new.from = thread[k].from
      /\ (old.ext = 0 \/ old.ext = k) /\ old.at \in Nat
  BY MineIs, ThreadIs DEF Mine, Becomes
<1>2. RowDates(out)
  <2>1. \A x \in rs : RowDates({x})
    BY DEF RowDates
  <2>2. RowDates({new})
    BY <1>1, MineIs DEF RowDates, SentDates, Becomes
  <2> QED
    BY <2>1, <2>2 DEF RowDates
<1>3. ASSUME NEW j \in DOMAIN thread PROVE KnownIn(out, j) <=> KnownIn(rs, j) \/ j = k
  <2>1. KnownIn(out, j) => KnownIn(rs, j) \/ j = k
    BY <1>1 DEF KnownIn
  <2>2. KnownIn(out, k)
    BY <1>1 DEF KnownIn
  <2>3. j # k /\ KnownIn(rs, j) => KnownIn(out, j)
    BY <1>1, ThreadIs DEF KnownIn
  <2> QED
    BY <2>1, <2>2, <2>3
<1> QED
  BY <1>1, <1>2, <1>3

\* The order is kept.
LEMMA MovedAligned ==
    ASSUME IInv, SentDates, NEW rs \in SUBSET RowSet, RowsInv(rs), RowDates(rs),
           NEW k \in DOMAIN thread, NEW old \in rs, Mine(old) = k, NEW new, Becomes(old, new, k),
           NEW out, out = (rs \ {old}) \cup {new}, out \in SUBSET RowSet, RowsInv(out),
           Aligned(rs), \A j \in DOMAIN thread : j < k => KnownIn(rs, j)
    PROVE  Aligned(out)
<1>1. /\ Mine(new) = k /\ new.at = thread[k].at /\ new.ext = k /\ k # 0
      /\ \A j \in DOMAIN thread : KnownIn(out, j) <=> KnownIn(rs, j) \/ j = k
  BY MovedRow, ThreadIs DEF Becomes
<1>2. Ordered(out)
  <2>1. \A x \in rs : Ordered({x})
    BY DEF Aligned, Ordered
  <2>2. Ordered({new})
    BY <1>1, ThreadIs DEF Ordered, SentDates
  <2> QED
    BY <2>1, <2>2 DEF Ordered
<1>3. Locals(out)
  <2> SUFFICES ASSUME NEW x \in out, x.ext = 0
               PROVE  /\ \A j \in DOMAIN thread : j < Mine(x) => KnownIn(out, j)
                      /\ KnownIn(out, Mine(x)) => thread[Mine(x)].at - x.at > Window
    BY DEF Locals
  <2>1. x \in rs /\ x # old
    BY <1>1
  <2>2. Mine(x) = k => KnownIn(rs, k)
    <3> SUFFICES ASSUME Mine(x) = k, old.ext = 0 PROVE FALSE
      BY <1>1, MineIs DEF KnownIn
    <3>1. x.reply # None /\ thread[k].reply = x.reply /\ thread[k].reply = old.reply
      BY <2>1, MineIs
    <3> QED
      BY <3>1, <2>1 DEF RowsInv
  <2>3. Mine(x) \in DOMAIN thread
    BY <2>1, MineIs
  <2> QED
    BY <1>1, <2>1, <2>2, <2>3 DEF Aligned, Locals
<1>4. Known1st(out)
  BY <1>1 DEF Aligned, Known1st
<1> QED
  BY <1>2, <1>3, <1>4 DEF Aligned

LEMMA MovedTimed ==
    ASSUME IInv, SentDates, NEW rs \in SUBSET RowSet, RowsInv(rs), RowDates(rs),
           NEW k \in DOMAIN thread, NEW old \in rs, Mine(old) = k, NEW new, Becomes(old, new, k),
           NEW out, out = (rs \ {old}) \cup {new}, out \in SUBSET RowSet, RowsInv(out),
           Ordered(rs), NEW cs \in Seq(CycleSet), Timed(rs, cs)
    PROVE  Timed(out, cs)
<1> DEFINE B == Said(rs, "buyer")
           S == Said(rs, "seller")
           T == Said(out, "seller")
<1>1. /\ Mine(new) = k /\ new.at = thread[k].at /\ new.from = old.from /\ old.at \in Nat
      /\ new.at \in Nat /\ k \in Nat
  BY MovedRow, ThreadIs DEF Becomes
<1>2. old.from = "buyer" => new.at = old.at
  BY <1>1, MineIs
<1>3. Said(out, "buyer") = B
  BY <1>1, <1>2 DEF Said
<1>4. ASSUME old.from = "seller" PROVE Between2(B, old.at, new.at)
  <2>1. old.at <= new.at
    BY <1>1 DEF Ordered
  <2>2. ASSUME NEW x \in rs, x.from = "buyer"
        PROVE  (x.at < old.at <=> x.at < new.at) /\ (old.at < x.at <=> new.at < x.at)
    <3>1. /\ x.at = thread[Mine(x)].at /\ Mine(x) \in DOMAIN thread /\ Mine(x) \in Nat /\ x.at \in Nat
          /\ Mine(x) # k
      BY <2>2, <1>4, MineIs
    <3>2. CASE Mine(x) < k
      <4>1. x.at < old.at
        BY <3>1, <3>2 DEF Ordered
      <4> QED
        BY <4>1, <2>1, <3>1, <1>1
    <3>3. CASE k < Mine(x)
      <4>1. new.at < x.at
        BY <3>1, <3>3, <1>1 DEF SentDates
      <4> QED
        BY <4>1, <2>1, <3>1, <1>1
    <3> QED
      BY <3>1, <3>2, <3>3, <1>1
  <2> QED
    BY <2>1, <2>2 DEF Between2, Said
<1>5. B \in SUBSET Nat /\ S \in SUBSET Nat /\ T \in SUBSET Nat
  BY SidesDiffer, MovedRow, MineIs DEF Said
<1>6. \A s \in S : Between2(B, s, s)
  BY <1>5 DEF Between2
<1>7. \A t \in T : \E s \in S : Between2(B, s, t)
  <2> SUFFICES ASSUME NEW x \in out, x.from = "seller" PROVE \E s \in S : Between2(B, s, x.at)
    BY DEF Said
  <2>1. CASE x = new
    BY <2>1, <1>1, <1>4 DEF Said
  <2>2. CASE x # new
    <3>1. x.at \in S
      BY <2>2 DEF Said
    <3> QED
      BY <3>1, <1>6
  <2> QED
    BY <2>1, <2>2
<1>8. \A s \in S : \E t \in T : Between2(B, s, t)
  <2> SUFFICES ASSUME NEW x \in rs, x.from = "seller" PROVE \E t \in T : Between2(B, x.at, t)
    BY DEF Said
  <2>1. CASE x = old
    BY <2>1, <1>1, <1>4 DEF Said
  <2>2. CASE x # old
    <3>1. x.at \in T /\ x.at \in S
      BY <2>2 DEF Said
    <3> QED
      BY <3>1, <1>6
  <2> QED
    BY <2>1, <2>2
<1>9. B # {} => cs[Len(cs)].end \in Nat
  <2> SUFFICES ASSUME B # {} PROVE cs[Len(cs)].end \in Nat
    OBVIOUS
  <2>1. cs # <<>> /\ scope.clock \in Nat
    BY ThreadIs DEF Timed, Follows
  <2>2. Len(cs) \in 1..Len(cs)
    BY <2>1
  <2>3. cs[Len(cs)] \in CycleSet
    BY <2>2, ElementOfSeq
  <2> QED
    BY <2>1, <2>3 DEF CycleSet
<1>10. Follows(B, S, cs)
  BY DEF Timed
<1> HIDE DEF B, S, T
<1>11. Follows(B, T, cs)
  BY <1>5, <1>7, <1>8, <1>9, <1>10, SellerLater
<1> QED
  BY <1>3, <1>11 DEF Timed, T

\* The first unknown message: a reply that may be it is it.
Next1st(rs, k) == ~KnownIn(rs, k) /\ \A j \in DOMAIN thread : j < k => KnownIn(rs, j)

LEMMA ClaimIsMine ==
    ASSUME IInv, SentDates, NEW rs \in SUBSET RowSet, RowsInv(rs), RowDates(rs), Aligned(rs),
           NEW k \in DOMAIN thread, Next1st(rs, k), NEW old \in Claimable(rs, thread[k])
    PROVE  old \in rs /\ Mine(old) = k
<1>1. old \in rs /\ old.ext = 0 /\ Distance(old, thread[k]) <= Window
  BY DEF Claimable
<1>2. /\ Mine(old) \in DOMAIN thread /\ Mine(old) \in Nat /\ k \in Nat /\ old.at \in Nat
      /\ thread[k].at \in Nat /\ thread[Mine(old)].at \in Nat /\ Window \in Nat
  BY <1>1, MineIs, ThreadIs, WindowAssumption
<1>3. ~(k < Mine(old))
  BY <1>1 DEF Aligned, Locals, Next1st
<1>4. ASSUME Mine(old) < k PROVE FALSE
  <2>1. thread[Mine(old)].at - old.at > Window /\ thread[Mine(old)].at < thread[k].at
    BY <1>1, <1>2, <1>4 DEF Aligned, Locals, Next1st, SentDates
  <2>2. Distance(old, thread[k]) > Window
    BY <1>2, <2>1 DEF Distance
  <2> QED
    BY <1>1, <1>2, <2>2 DEF Distance
<1> QED
  BY <1>1, <1>2, <1>3, <1>4

\* Else it is new, and newer than every stored message.
LEMMA Newest ==
    ASSUME IInv, SentDates, NEW rs \in SUBSET RowSet, RowsInv(rs), RowDates(rs), Aligned(rs),
           NEW k \in DOMAIN thread, Next1st(rs, k), Claimable(rs, thread[k]) = {}, NEW x \in rs
    PROVE  /\ x.at < thread[k].at
           /\ Mine(x) = k => thread[k].at - x.at > Window
<1>1. /\ Mine(x) \in DOMAIN thread /\ Mine(x) \in Nat /\ k \in Nat /\ x.at \in Nat
      /\ thread[k].at \in Nat /\ thread[Mine(x)].at \in Nat /\ Window \in Nat
      /\ x.at <= thread[Mine(x)].at
  BY MineIs, ThreadIs, WindowAssumption DEF Aligned, Ordered
<1>2. ~(k < Mine(x))
  <2>1. CASE x.ext = 0
    BY <2>1 DEF Aligned, Locals, Next1st
  <2>2. CASE x.ext # 0
    <3>1. KnownIn(rs, Mine(x))
      BY <2>2, MineIs DEF KnownIn
    <3> QED
      BY <3>1, <1>1 DEF Aligned, Known1st, Next1st
  <2> QED
    BY <2>1, <2>2
<1>3. CASE Mine(x) < k
  BY <1>1, <1>3 DEF SentDates
<1>4. CASE Mine(x) = k
  <2>1. x.ext = 0
    BY <1>4, MineIs DEF Next1st, KnownIn
  <2>2. thread[k].from = "seller" /\ BodyOf[x.reply] = thread[k].body
    BY <2>1, <1>4, MineIs
  <2>3. ~(Distance(x, thread[k]) <= Window)
    BY <2>1, <2>2 DEF Claimable
  <2>4. Distance(x, thread[k]) = thread[k].at - x.at
    BY <1>1, <1>4 DEF Distance
  <2> QED
    BY <1>1, <2>3, <2>4
<1> QED
  BY <1>1, <1>2, <1>3, <1>4

LEMMA NewAligned ==
    ASSUME IInv, SentDates, NEW rs \in SUBSET RowSet, RowsInv(rs), RowDates(rs), Aligned(rs),
           NEW k \in DOMAIN thread, Next1st(rs, k), Claimable(rs, thread[k]) = {},
           NEW new, new = [ext |-> k, at |-> thread[k].at, from |-> thread[k].from, reply |-> None],
           NEW out, out = rs \cup {new}
    PROVE  Aligned(out)
<1>1. /\ new.ext = k /\ new.at = thread[k].at /\ k # 0 /\ k \in Nat /\ thread[k].at \in Nat
      /\ \A j \in DOMAIN thread : KnownIn(out, j) <=> KnownIn(rs, j) \/ j = k
  <2>1. new.ext = k /\ new.at = thread[k].at /\ k # 0 /\ k \in Nat /\ thread[k].at \in Nat
    BY ThreadIs
  <2>2. \A j \in DOMAIN thread : KnownIn(out, j) <=> KnownIn(rs, j) \/ j = k
    BY <2>1 DEF KnownIn
  <2> QED
    BY <2>1, <2>2
<1>2. Ordered(out)
  <2>1. Mine(new) = k
    BY <1>1 DEF Mine
  <2>2. Ordered({new})
    BY <1>1, <2>1, ThreadIs DEF Ordered, SentDates
  <2> QED
    BY <2>2 DEF Aligned, Ordered
<1>3. Locals(out)
  <2> SUFFICES ASSUME NEW x \in out, x.ext = 0
               PROVE  /\ \A j \in DOMAIN thread : j < Mine(x) => KnownIn(out, j)
                      /\ KnownIn(out, Mine(x)) => thread[Mine(x)].at - x.at > Window
    BY DEF Locals
  <2>1. x \in rs /\ Mine(x) \in DOMAIN thread
    BY <1>1, MineIs
  <2>2. Mine(x) = k => thread[Mine(x)].at - x.at > Window
    BY <2>1, Newest
  <2> QED
    BY <1>1, <2>1, <2>2 DEF Aligned, Locals
<1>4. Known1st(out)
  BY <1>1 DEF Aligned, Known1st, Next1st
<1> QED
  BY <1>2, <1>3, <1>4 DEF Aligned

-----------------------------------------------------------------------------
(* What one message does to the cycles.                                    *)

\* The last cycle is the one an answer newer than every message closes.
LEMMA AnswersLast ==
    ASSUME NEW cs \in Seq(CycleSet), scope.clock \in Nat,
           \A i \in DOMAIN cs : cs[i].end = 0 => i = Len(cs),
           NEW d \in Nat, cs # <<>> => cs[Len(cs)].start < d
    PROVE  /\ Len(cs) \in Nat /\ DOMAIN cs = 1..Len(cs)
           /\ cs # <<>> => Len(cs) \in DOMAIN cs /\ Len(cs) # 0 /\ cs[Len(cs)] \in CycleSet
           /\ IF cs # <<>> /\ cs[Len(cs)].end = 0 THEN Answered(cs, d) = Len(cs) ELSE Answered(cs, d) = 0
<1>1. Len(cs) \in Nat /\ DOMAIN cs = 1..Len(cs) /\ (cs # <<>> => Len(cs) \in DOMAIN cs /\ Len(cs) # 0)
  OBVIOUS
<1>2. cs # <<>> => cs[Len(cs)] \in CycleSet
  BY <1>1, ElementOfSeq
<1>3. CASE cs # <<>> /\ cs[Len(cs)].end = 0
  <2> DEFINE T == {i \in DOMAIN cs : cs[i].end = 0 /\ cs[i].start < d}
  <2>1. T = {Len(cs)} /\ T \in SUBSET (1..Len(cs))
    BY <1>1, <1>3
  <2> HIDE DEF T
  <2>2. Max({0} \cup T) \in {0} \cup T /\ \A k \in T : k <= Max({0} \cup T)
    BY <1>1, <2>1, MaxPosition
  <2>3. Max({0} \cup T) = Len(cs)
    BY <1>1, <1>3, <2>1, <2>2
  <2> QED
    BY <1>1, <1>2, <1>3, <2>3 DEF Answered, T
<1>4. CASE ~(cs # <<>> /\ cs[Len(cs)].end = 0)
  <2>1. Answered(cs, d) = 0
    BY <1>1, <1>4, AnsweredPosition
  <2> QED
    BY <1>1, <1>2, <1>4, <2>1
<1> QED
  BY <1>3, <1>4

LEMMA LastIs ==
    ASSUME scope.clock \in Nat, NEW rs, NEW cs \in Seq(CycleSet), Timed(rs, cs), Said(rs, "buyer") # {}
    PROVE  /\ cs # <<>> /\ Len(cs) \in DOMAIN cs /\ Len(cs) \in Nat /\ cs[Len(cs)] \in CycleSet
           /\ cs[Len(cs)].start \in Nat /\ cs[Len(cs)].end \in Nat
           /\ cs[Len(cs)].start \in Said(rs, "buyer")
           /\ Lasts(Said(rs, "buyer"), Said(rs, "seller"), cs[Len(cs)].start, cs[Len(cs)].end)
<1>1. cs # <<>> /\ Lasts(Said(rs, "buyer"), Said(rs, "seller"), cs[Len(cs)].start, cs[Len(cs)].end)
  BY DEF Timed, Follows
<1>2. Len(cs) \in DOMAIN cs /\ Len(cs) \in Nat
  BY <1>1
<1>3. cs[Len(cs)] \in CycleSet
  BY <1>2, ElementOfSeq
<1> QED
  BY <1>1, <1>2, <1>3 DEF CycleSet, Lasts

\* A newest message of the seller closes the cycle that is open.
LEMMA NewAnswer ==
    ASSUME scope.clock \in Nat, NEW rs, Said(rs, "buyer") \in SUBSET Nat, Said(rs, "seller") \in SUBSET Nat,
           NEW cs \in Seq(CycleSet), \A i \in DOMAIN cs : cs[i].end = 0 => i = Len(cs), Timed(rs, cs),
           NEW new, new.from = "seller", new.at \in Nat, \A x \in rs : x.at < new.at,
           NEW out \in Seq(CycleSet),
           IF Answered(cs, new.at) = 0 THEN out = cs
           ELSE /\ Len(out) = Len(cs) /\ out[Answered(cs, new.at)].end = new.at
                /\ out[Answered(cs, new.at)].start = cs[Answered(cs, new.at)].start
    PROVE  Timed(rs \cup {new}, out)
<1> DEFINE B == Said(rs, "buyer")
           S == Said(rs, "seller")
<1>1. Said(rs \cup {new}, "buyer") = B /\ Said(rs \cup {new}, "seller") = S \cup {new.at}
  BY DEF Said
<1>2. \A x \in B \cup S : x < new.at
  BY DEF Said
<1>3. CASE B = {}
  <2>1. cs = <<>>
    BY <1>3 DEF Timed, Follows
  <2>2. Answered(cs, new.at) = 0
    BY <2>1, AnswersLast
  <2> QED
    BY <1>1, <1>3, <2>1, <2>2 DEF Timed, Follows
<1>4. CASE B # {}
  <2>1. /\ cs # <<>> /\ cs[Len(cs)].start \in Nat /\ cs[Len(cs)].end \in Nat
        /\ cs[Len(cs)].start \in B /\ Lasts(B, S, cs[Len(cs)].start, cs[Len(cs)].end)
        /\ Len(cs) \in DOMAIN cs /\ Len(cs) \in Nat /\ Len(cs) # 0
    BY <1>4, LastIs
  <2>2. cs[Len(cs)].start < new.at
    BY <2>1, <1>2
  <2>3. IF cs[Len(cs)].end = 0 THEN Answered(cs, new.at) = Len(cs) ELSE Answered(cs, new.at) = 0
    BY <2>1, <2>2, AnswersLast
  <2> HIDE DEF B, S
  <2>4. CASE cs[Len(cs)].end = 0
    <3>1. Lasts(B, S \cup {new.at}, cs[Len(cs)].start, new.at)
      BY <2>1, <2>4, <1>2, SellerCloses DEF B, S
    <3>2. /\ Len(out) = Len(cs) /\ out[Len(out)].end = new.at /\ out[Len(out)].start = cs[Len(cs)].start
          /\ out # <<>>
      BY <2>1, <2>3, <2>4
    <3> QED
      BY <3>1, <3>2, <1>1, <1>4 DEF Timed, Follows
  <2>5. CASE cs[Len(cs)].end # 0
    <3>1. Lasts(B, S \cup {new.at}, cs[Len(cs)].start, cs[Len(cs)].end)
      BY <2>1, <2>5, <1>2, SellerAdds DEF B, S
    <3> QED
      BY <3>1, <2>1, <2>3, <2>5, <1>1, <1>4 DEF Timed, Follows
  <2> QED
    BY <2>4, <2>5
<1> QED
  BY <1>3, <1>4

\* A newest message of the buyer begins a cycle if none is open.
LEMMA NewQuestion ==
    ASSUME scope.clock \in Nat, NEW rs, Said(rs, "buyer") \in SUBSET Nat, Said(rs, "seller") \in SUBSET Nat,
           Said(rs, "buyer") \cap Said(rs, "seller") = {},
           NEW cs \in Seq(CycleSet), \A i \in DOMAIN cs : cs[i].end = 0 => i = Len(cs), Timed(rs, cs),
           NEW new, new.from = "buyer", new.at \in Nat, \A x \in rs : x.at < new.at,
           NEW out \in Seq(CycleSet),
           IF \E i \in DOMAIN cs : cs[i].end = 0 THEN out = cs
           ELSE out # <<>> /\ out[Len(out)].start = new.at /\ out[Len(out)].end = 0
    PROVE  Timed(rs \cup {new}, out)
<1> DEFINE B == Said(rs, "buyer")
           S == Said(rs, "seller")
<1>1. Said(rs \cup {new}, "buyer") = B \cup {new.at} /\ Said(rs \cup {new}, "seller") = S
  BY DEF Said
<1>2. \A x \in B \cup S : x < new.at
  BY DEF Said
<1>3. CASE \E i \in DOMAIN cs : cs[i].end = 0
  <2>1. B # {}
    <3> SUFFICES ASSUME B = {} PROVE FALSE
      OBVIOUS
    <3>1. cs = <<>>
      BY DEF Timed, Follows
    <3> QED
      BY <3>1, <1>3
  <2>2. /\ cs # <<>> /\ cs[Len(cs)].start \in Nat /\ cs[Len(cs)].start \in B
        /\ Lasts(B, S, cs[Len(cs)].start, cs[Len(cs)].end) /\ cs[Len(cs)].end = 0
    BY <2>1, <1>3, LastIs
  <2> HIDE DEF B, S
  <2>3. Lasts(B \cup {new.at}, S, cs[Len(cs)].start, 0)
    BY <2>2, <1>2, BuyerJoins DEF B, S
  <2> QED
    BY <1>1, <1>3, <2>2, <2>3 DEF Timed, Follows
<1>4. CASE ~ \E i \in DOMAIN cs : cs[i].end = 0
  <2>1. Lasts(B \cup {new.at}, S, new.at, 0)
    <3>1. CASE B = {}
      <4>1. Lasts(B \cup {new.at}, S, new.at, 0)
        BY <3>1, <1>2, 0 \in Nat DEF Lasts
      <4> QED
        BY <4>1
    <3>2. CASE B # {}
      <4>1. /\ cs[Len(cs)].start \in Nat /\ cs[Len(cs)].end \in Nat /\ cs[Len(cs)].end # 0
            /\ Lasts(B, S, cs[Len(cs)].start, cs[Len(cs)].end)
        BY <3>2, <1>4, LastIs
      <4> HIDE DEF B, S
      <4> QED
        BY <4>1, <1>2, BuyerBegins DEF B, S
    <3> QED
      BY <3>1, <3>2
  <2> QED
    BY <2>1, <1>1, <1>4 DEF Timed, Follows
<1> QED
  BY <1>3, <1>4

-----------------------------------------------------------------------------
(* What one message of an import does to the session.                      *)

LEMMA StartIs ==
    ASSUME NEW s \in SessionSet, Len(s.seen) \in Nat, DOMAIN s.mem = 1..Len(s.mem), NEW at,
           NEW u, u = StartCycle(s, at)
    PROVE  /\ u.rows = s.rows /\ (s.status # "CLOSED" => u.status # "CLOSED")
           /\ s.seen = s.mem =>
                IF \E i \in DOMAIN s.mem : s.mem[i].end = 0 THEN u.mem = s.mem
                ELSE u.mem = Append(s.mem, [start |-> at, end |-> 0, by |-> None])
<1> PICK e : e = [start |-> at, end |-> 0, by |-> None]
  OBVIOUS
<1> DEFINE open == \/ \E i \in DOMAIN s.mem : i > Len(s.seen) /\ s.mem[i].end = 0
                   \/ \E i \in DOMAIN s.seen : s.seen[i].end = 0
<1>1. CASE open
  <2>1. u = s
    BY <1>1 DEF StartCycle
  <2>2. s.seen = s.mem => \E i \in DOMAIN s.mem : s.mem[i].end = 0
    BY <1>1
  <2> QED
    BY <2>1, <2>2
<1>2. CASE ~open
  <2> PICK st : st = Reopened(s.status)
    OBVIOUS
  <2> PICK mem : mem = Append(s.mem, e)
    OBVIOUS
  <2>1. u = [s EXCEPT !.mem = mem, !.status = st]
    BY <1>2 DEF StartCycle
  <2>2. u.rows = s.rows /\ u.mem = mem /\ u.status = st
    BY <2>1 DEF SessionSet
  <2>3. s.status # "CLOSED" => st # "CLOSED"
    BY DEF Reopened
  <2>4. s.seen = s.mem => ~ \E i \in DOMAIN s.mem : s.mem[i].end = 0
    BY <1>2
  <2> QED
    BY <2>2, <2>3, <2>4
<1> QED
  BY <1>1, <1>2

LEMMA CompleteIs ==
    ASSUME NEW s \in Sessions, NEW at \in 1..scope.clock, scope.clock \in Nat,
           NEW u, u = CompleteAfterReply(s, None, at)
    PROVE  /\ u.rows = s.rows /\ (s.status # "CLOSED" => u.status # "CLOSED")
           /\ s.seen = s.mem /\ s.status # "CLOSED" =>
                IF Answered(s.mem, at) = 0 THEN u.mem = s.mem
                ELSE /\ Len(u.mem) = Len(s.mem) /\ u.mem[Answered(s.mem, at)].end = at
                     /\ u.mem[Answered(s.mem, at)].start = s.mem[Answered(s.mem, at)].start
<1> PICK c : c = Answered(s.seen, at)
  OBVIOUS
<1>1. CASE s.status = "CLOSED" \/ c = 0
  <2>1. u = s
    BY <1>1 DEF CompleteAfterReply
  <2> QED
    BY <2>1, <1>1
<1>2. CASE ~(s.status = "CLOSED" \/ c = 0)
  <2>1. /\ SessionInv(s) /\ s \in SessionSet /\ s.mem \in Seq(CycleSet) /\ Len(s.mem) \in Nat
        /\ DOMAIN s.mem = 1..Len(s.mem) /\ DOMAIN s.seen = 1..Len(s.seen) /\ Len(s.seen) \in Nat
        /\ s.seen \in Seq(CycleSet)
    BY SessionCycles
  <2>2. c \in DOMAIN s.seen /\ c \in 1..Len(s.mem)
    <3>1. c \in DOMAIN s.seen
      BY <2>1, <1>2, AnsweredPosition
    <3> QED
      BY <3>1, <2>1 DEF SessionInv
  <2>3. s.mem[c] \in CycleSet
    BY <2>1, <2>2, ElementOfSeq
  <2>4. u = [s EXCEPT !.mem[c].end = at, !.mem[c].by = None, !.status = "RESOLVED"]
    BY <1>2 DEF CompleteAfterReply
  <2> DEFINE e == [s.mem[c] EXCEPT !.end = at, !.by = None]
  <2>5. e.end = at /\ e.start = s.mem[c].start
    BY <2>3 DEF CycleSet
  <2> DEFINE mem == [s.mem EXCEPT ![c] = e]
  <2>8. u = [s EXCEPT !.mem = mem, !.status = "RESOLVED"]
    <3>1. [s EXCEPT !.mem[c].end = at, !.mem[c].by = None, !.status = "RESOLVED"]
             = [s EXCEPT !.mem = mem, !.status = "RESOLVED"]
      BY <2>1, <2>2, <2>3 DEF SessionSet, CycleSet
    <3> QED
      BY <2>4, <3>1
  <2>6. u.rows = s.rows /\ u.status = "RESOLVED" /\ u.mem = mem
    <3> HIDE DEF mem
    <3> QED
      BY <2>1, <2>8 DEF SessionSet
  <2> HIDE DEF e
  <2>7. Len(u.mem) = Len(s.mem) /\ u.mem[c] = e
    BY <2>1, <2>2, <2>6
  <2> QED
    BY <2>5, <2>6, <2>7, <1>2
<1> QED
  BY <1>1, <1>2

NewOf(k) == [ext |-> k, at |-> thread[k].at, from |-> thread[k].from, reply |-> None]
\* A row is moved, or one is added and the cycles follow.
Moved(s, t, k) == \E old \in s.rows, new \in RowSet :
    /\ Becomes(old, new, k) /\ t.rows = (s.rows \ {old}) \cup {new}
    /\ t.mem = s.mem /\ t.status = s.status
    /\ \/ old.ext = k /\ t.seen = s.seen
       \/ ~KnownIn(s.rows, k) /\ old \in Claimable(s.rows, thread[k]) /\ t.seen = s.mem
Added(s, t, k) ==
    /\ ~KnownIn(s.rows, k) /\ Claimable(s.rows, thread[k]) = {}
    /\ t.rows = s.rows \cup {NewOf(k)}
    /\ s.status # "CLOSED" => t.status # "CLOSED"
    /\ s.seen = s.mem /\ s.status # "CLOSED" =>
         /\ thread[k].from = "buyer" =>
              IF \E i \in DOMAIN s.mem : s.mem[i].end = 0 THEN t.mem = s.mem
              ELSE t.mem = Append(s.mem, [start |-> thread[k].at, end |-> 0, by |-> None])
         /\ thread[k].from = "seller" =>
              IF Answered(s.mem, thread[k].at) = 0 THEN t.mem = s.mem
              ELSE /\ Len(t.mem) = Len(s.mem) /\ t.mem[Answered(s.mem, thread[k].at)].end = thread[k].at
                   /\ t.mem[Answered(s.mem, thread[k].at)].start = s.mem[Answered(s.mem, thread[k].at)].start
         /\ thread[k].from = "ebay" => t.mem = s.mem

LEMMA ImportRowIs ==
    ASSUME IInv, NEW s \in Sessions, NEW k \in DOMAIN thread, NEW t, t = ImportRow(s, k)
    PROVE  Moved(s, t, k) \/ Added(s, t, k)
<1> PICK m : m = thread[k]
  OBVIOUS
<1> DEFINE known == {x \in s.rows : x.ext = k}
           added == [s EXCEPT !.rows = @ \cup {NewOf(k)}]
           begun == StartCycle(added, m.at)
<1>1. /\ s \in SessionSet /\ s.rows \in SUBSET RowSet /\ RowsInv(s.rows) /\ SessionInv(s)
      /\ m \in MessageSet /\ m.at \in 1..scope.clock /\ k # 0 /\ k \in 0..scope.thread /\ scope.clock \in Nat
  <2>1. s \in SessionSet /\ SessionInv(s)
    BY SessionCycles
  <2>2. m \in MessageSet /\ k # 0 /\ k \in 0..scope.thread
    BY Named, ScopeBounds DEF IInv, TypeOK, ReadsInv
  <2> QED
    BY <2>1, <2>2, ThreadIs DEF SessionSet, SessionInv, MessageSet
<1>2. CASE known # {}
  <2> PICK old : old = CHOOSE x \in known : TRUE
    OBVIOUS
  <2> PICK new : new = [old EXCEPT !.at = m.at]
    OBVIOUS
  <2>1. old \in s.rows /\ old.ext = k /\ old \in RowSet
    BY <1>2, <1>1
  <2>2. new \in RowSet /\ Becomes(old, new, k)
    BY <2>1, <1>1 DEF RowSet, Becomes
  <2>3. s.rows \ known = s.rows \ {old}
    BY <2>1, <1>1 DEF RowsInv
  <2>4. t = [s EXCEPT !.rows = (s.rows \ {old}) \cup {new}]
    BY <1>2, <2>3 DEF ImportRow
  <2>5. t.rows = (s.rows \ {old}) \cup {new} /\ t.mem = s.mem /\ t.status = s.status /\ t.seen = s.seen
    BY <2>4, <1>1 DEF SessionSet
  <2> QED
    BY <2>1, <2>2, <2>5 DEF Moved
<1>3. CASE known = {} /\ Claimable(s.rows, m) # {}
  <2> PICK old : old = LocalReplyMatch(s.rows, m)
    OBVIOUS
  <2> PICK new : new = [old EXCEPT !.ext = k, !.at = m.at]
    OBVIOUS
  <2>1. old \in Claimable(s.rows, m) /\ old \in s.rows /\ old \in RowSet
    BY <1>1, <1>3, NearestClaimed DEF IInv, ReadsInv, Claimable
  <2>2. new \in RowSet /\ Becomes(old, new, k)
    BY <2>1, <1>1 DEF RowSet, Becomes
  <2>3. t = Flush([s EXCEPT !.rows = (s.rows \ {old}) \cup {new}])
    BY <1>3 DEF ImportRow
  <2>4. t.rows = (s.rows \ {old}) \cup {new} /\ t.mem = s.mem /\ t.status = s.status /\ t.seen = s.mem
    BY <2>3, <1>1 DEF SessionSet, Flush
  <2>5. ~KnownIn(s.rows, k)
    BY <1>3 DEF KnownIn
  <2> QED
    BY <2>1, <2>2, <2>4, <2>5 DEF Moved
<1>4. CASE known = {} /\ Claimable(s.rows, m) = {}
  <2>1. ~KnownIn(s.rows, k)
    BY <1>4 DEF KnownIn
  <2>2. \A x \in s.rows : x.ext # k
    BY <1>4
  <2>3. /\ s.rows \cup {NewOf(k)} \in SUBSET RowSet /\ RowsInv(s.rows \cup {NewOf(k)})
        /\ \A x \in s.rows : \E y \in s.rows \cup {NewOf(k)} : y.reply = x.reply
    <3> PICK new : new = NewOf(k)
      OBVIOUS
    <3>1. new = [ext |-> k, at |-> thread[k].at, from |-> thread[k].from, reply |-> None]
      BY DEF NewOf
    <3> QED
      BY ONLY <1>1, <2>2, <3>1, IInv, k \in DOMAIN thread, new = NewOf(k), AddedRow
  <2> PICK rs : rs = s.rows \cup {NewOf(k)}
    OBVIOUS
  <2>4. added \in Sessions
    <3>1. rs \in SUBSET RowSet /\ RowsInv(rs) /\ \A x \in s.rows : \E y \in rs : y.reply = x.reply
      BY <2>3
    <3>2. [s EXCEPT !.rows = rs] \in Sessions
      BY <3>1, RowsReplaced
    <3> QED
      BY <3>2
  <2>5. added.rows = rs /\ added.seen = s.seen /\ added.mem = s.mem /\ added.status = s.status
    BY <1>1 DEF SessionSet
  <2>6. t = CASE m.from = "buyer" -> (IF owned THEN Flush(begun) ELSE begun)
              [] m.from = "seller" -> CompleteAfterReply(added, None, m.at)
              [] OTHER -> added
    BY <1>4 DEF ImportRow, NewOf
  <2> HIDE DEF added
  <2>7. /\ SessionInv(added) /\ added \in SessionSet /\ Len(added.seen) \in Nat
        /\ DOMAIN added.mem = 1..Len(added.mem)
    BY <2>4, SessionCycles
  <2>8. CASE m.from = "buyer"
    <3>1. /\ begun.rows = rs /\ (s.status # "CLOSED" => begun.status # "CLOSED")
          /\ s.seen = s.mem =>
                IF \E i \in DOMAIN s.mem : s.mem[i].end = 0 THEN begun.mem = s.mem
                ELSE begun.mem = Append(s.mem, [start |-> m.at, end |-> 0, by |-> None])
      <4> PICK v : v = begun
        OBVIOUS
      <4>1. /\ v.rows = added.rows /\ (added.status # "CLOSED" => v.status # "CLOSED")
            /\ added.seen = added.mem =>
                IF \E i \in DOMAIN added.mem : added.mem[i].end = 0 THEN v.mem = added.mem
                ELSE v.mem = Append(added.mem, [start |-> m.at, end |-> 0, by |-> None])
        BY <2>7, StartIs
      <4> QED
        BY <4>1, <2>5
    <3>2. begun \in SessionSet
      BY <1>1, <2>4, StartTyped, SessionCycles
    <3> HIDE DEF begun
    <3>3. Flush(begun).rows = begun.rows /\ Flush(begun).mem = begun.mem /\ Flush(begun).status = begun.status
      BY <3>2 DEF SessionSet, Flush
    <3>4. t \in {begun, Flush(begun)}
      BY <2>6, <2>8
    <3>5. t.rows = begun.rows /\ t.mem = begun.mem /\ t.status = begun.status
      BY <3>3, <3>4
    <3>6. m.from # "seller" /\ m.from # "ebay"
      BY <2>8
    <3> QED
      BY <3>1, <3>5, <3>6, <2>1, <1>4 DEF Added
  <2>9. CASE m.from = "seller"
    <3>1. t = CompleteAfterReply(added, None, m.at)
      BY <2>6, <2>9
    <3>2. /\ t.rows = rs /\ (s.status # "CLOSED" => t.status # "CLOSED")
          /\ s.seen = s.mem /\ s.status # "CLOSED" =>
                IF Answered(s.mem, m.at) = 0 THEN t.mem = s.mem
                ELSE /\ Len(t.mem) = Len(s.mem) /\ t.mem[Answered(s.mem, m.at)].end = m.at
                     /\ t.mem[Answered(s.mem, m.at)].start = s.mem[Answered(s.mem, m.at)].start
      BY <1>1, <2>4, <2>5, <3>1, CompleteIs
    <3>3. m.from # "buyer" /\ m.from # "ebay"
      BY <2>9
    <3> QED
      BY <3>2, <3>3, <2>1, <1>4 DEF Added
  <2>10. CASE m.from \notin {"buyer", "seller"}
    <3>1. t = added /\ m.from # "buyer" /\ m.from # "seller"
      BY <2>6, <2>10
    <3> QED
      BY <3>1, <2>5, <2>1, <1>4 DEF Added
  <2> QED
    BY <2>8, <2>9, <2>10
<1> QED
  BY <1>2, <1>3, <1>4

-----------------------------------------------------------------------------
(* The session of an import.                                               *)

LEMMA ImportRowDates ==
    ASSUME IInv, SentDates, NEW s \in Sessions, RowDates(s.rows), NEW k \in DOMAIN thread,
           NEW t, t = ImportRow(s, k)
    PROVE  RowDates(t.rows)
<1>1. s.rows \in SUBSET RowSet /\ RowsInv(s.rows)
  BY SessionCycles DEF SessionSet, SessionInv
<1>2. thread[k].at <= clock /\ k # 0
  BY ThreadIs DEF SentDates
<1>3. CASE Moved(s, t, k)
  <2>1. PICK old \in s.rows, new \in RowSet :
           /\ Becomes(old, new, k) /\ t.rows = (s.rows \ {old}) \cup {new}
           /\ old.ext = k \/ old \in Claimable(s.rows, thread[k])
    BY <1>3 DEF Moved
  <2>2. old.ext # k => old.ext = 0 /\ thread[k].from = "seller"
    BY <2>1 DEF Claimable
  <2>3. old.from = thread[k].from /\ (old.reply # None => old.from = "seller")
    BY <1>1, <1>2, <2>2, MineIs DEF RowDates
  <2>4. RowDates({new})
    BY <1>2, <2>1, <2>3 DEF RowDates, Becomes
  <2> QED
    BY <2>1, <2>4 DEF RowDates
<1>4. CASE Added(s, t, k)
  <2>1. RowDates({NewOf(k)})
    BY <1>2 DEF RowDates, NewOf
  <2> QED
    BY <1>4, <2>1 DEF RowDates, Added
<1> QED
  BY <1>3, <1>4, ImportRowIs

\* A session after the first n messages, at most one of which was unknown, is in step.
SessionStraight(s, n) ==
    /\ Aligned(s.rows) /\ Timed(s.rows, s.mem) /\ s.status # "CLOSED"
    /\ \A j \in DOMAIN thread : KnownIn(s.rows, j) <=> KnownIn(rows, j) \/ j <= n
    /\ (\A j \in DOMAIN thread : j <= n => KnownIn(rows, j)) => s.seen = s.mem

LEMMA ImportRowStraight ==
    ASSUME IInv, SentDates, NEW s \in Sessions, RowDates(s.rows), NEW k \in DOMAIN thread,
           NEW t, t = ImportRow(s, k), SessionStraight(s, k - 1),
           KnownIn(rows, k) \/ \A j \in DOMAIN thread : j < k => KnownIn(rows, j)
    PROVE  SessionStraight(t, k)
<1>1. /\ s.rows \in SUBSET RowSet /\ RowsInv(s.rows) /\ s.mem \in Seq(CycleSet)
      /\ t \in Sessions /\ t.rows \in SUBSET RowSet /\ RowsInv(t.rows) /\ t.mem \in Seq(CycleSet)
      /\ \A i \in DOMAIN s.mem : s.mem[i].end = 0 => i = Len(s.mem)
  BY ImportRowTyped, SessionCycles DEF SessionSet, SessionInv
<1>2. /\ scope.clock \in Nat /\ k # 0 /\ k \in Nat /\ thread[k].at \in Nat
      /\ thread[k] \in MessageSet /\ \A j \in DOMAIN thread : j \in Nat
  BY ThreadIs
<1>3. /\ Aligned(s.rows) /\ Timed(s.rows, s.mem) /\ s.status # "CLOSED" /\ Ordered(s.rows)
      /\ \A j \in DOMAIN thread : KnownIn(s.rows, j) <=> KnownIn(rows, j) \/ j < k
      /\ \A j \in DOMAIN thread : j < k => KnownIn(s.rows, j)
      /\ (\A j \in DOMAIN thread : j < k => KnownIn(rows, j)) => s.seen = s.mem
  BY <1>2 DEF SessionStraight, Aligned
<1>4. CASE Moved(s, t, k)
  <2>1. PICK old \in s.rows, new \in RowSet :
           /\ Becomes(old, new, k) /\ t.rows = (s.rows \ {old}) \cup {new}
           /\ t.mem = s.mem /\ t.status = s.status
           /\ \/ old.ext = k /\ t.seen = s.seen
              \/ ~KnownIn(s.rows, k) /\ old \in Claimable(s.rows, thread[k]) /\ t.seen = s.mem
    BY <1>4 DEF Moved
  <2>2. Mine(old) = k
    <3>1. CASE old.ext = k
      BY <3>1, <1>2 DEF Mine
    <3>2. CASE ~KnownIn(s.rows, k) /\ old \in Claimable(s.rows, thread[k])
      <4>1. Next1st(s.rows, k)
        BY <3>2, <1>3 DEF Next1st
      <4> QED
        BY <4>1, <3>2, <1>1, <1>3, ClaimIsMine
    <3> QED
      BY <3>1, <3>2, <2>1
  <2>3. /\ Aligned(t.rows)
        /\ \A j \in DOMAIN thread : KnownIn(t.rows, j) <=> KnownIn(s.rows, j) \/ j = k
    <3> PICK rs, out : rs = s.rows /\ out = t.rows
      OBVIOUS
    <3>1. /\ rs \in SUBSET RowSet /\ RowsInv(rs) /\ RowDates(rs) /\ old \in rs /\ Aligned(rs)
          /\ \A j \in DOMAIN thread : j < k => KnownIn(rs, j)
          /\ out = (rs \ {old}) \cup {new} /\ out \in SUBSET RowSet /\ RowsInv(out)
          /\ Becomes(old, new, k) /\ k \in DOMAIN thread
      BY <1>1, <1>3, <2>1
    <3>2. Aligned(out)
      BY ONLY IInv, SentDates, <3>1, <2>2, MovedAligned
    <3>3. \A j \in DOMAIN thread : KnownIn(out, j) <=> KnownIn(rs, j) \/ j = k
      BY ONLY IInv, SentDates, <3>1, <2>2, MovedRow
    <3> QED
      BY <3>2, <3>3
  <2>4. Timed(t.rows, t.mem)
    BY <1>1, <1>3, <2>1, <2>2, MovedTimed
  <2>5. \A j \in DOMAIN thread : KnownIn(t.rows, j) <=> KnownIn(rows, j) \/ j <= k
    BY <1>2, <1>3, <2>3
  <2>6. (\A j \in DOMAIN thread : j <= k => KnownIn(rows, j)) => t.seen = t.mem
    <3> SUFFICES ASSUME \A j \in DOMAIN thread : j <= k => KnownIn(rows, j) PROVE t.seen = t.mem
      OBVIOUS
    <3>1. s.seen = s.mem
      BY <1>2, <1>3
    <3> QED
      BY <3>1, <2>1
  <2> QED
    BY <1>3, <2>1, <2>3, <2>4, <2>5, <2>6 DEF SessionStraight
<1>5. CASE Added(s, t, k)
  <2> PICK new : new = NewOf(k)
    OBVIOUS
  <2>1. /\ ~KnownIn(s.rows, k) /\ Claimable(s.rows, thread[k]) = {} /\ t.rows = s.rows \cup {new}
        /\ t.status # "CLOSED" /\ ~KnownIn(rows, k)
    BY <1>3, <1>5 DEF Added
  <2>2. s.seen = s.mem /\ Next1st(s.rows, k)
    BY <1>3, <2>1 DEF Next1st
  <2>3. /\ new.at = thread[k].at /\ new.from = thread[k].from
        /\ new = [ext |-> k, at |-> thread[k].at, from |-> thread[k].from, reply |-> None]
    BY DEF NewOf
  <2>4. Aligned(t.rows)
    BY ONLY IInv, SentDates, RowDates(s.rows), k \in DOMAIN thread, <1>1, <1>3, <2>1, <2>2, <2>3, NewAligned
  <2>5. \A j \in DOMAIN thread : KnownIn(t.rows, j) <=> KnownIn(rows, j) \/ j <= k
    <3>1. new.ext = k
      BY <2>3
    <3>2. \A j \in DOMAIN thread : KnownIn(t.rows, j) <=> KnownIn(s.rows, j) \/ j = k
      BY <2>1, <3>1 DEF KnownIn
    <3> QED
      BY <1>2, <1>3, <3>2
  <2>6. Timed(t.rows, t.mem)
    <3>1. \A x \in s.rows : x.at < new.at
      BY <1>1, <1>3, <2>1, <2>2, <2>3, Newest
    <3>2. /\ Said(s.rows, "buyer") \in SUBSET Nat /\ Said(s.rows, "seller") \in SUBSET Nat
          /\ Said(s.rows, "buyer") \cap Said(s.rows, "seller") = {}
      BY <1>1, <1>3, SidesDiffer
    <3> PICK rs, cs, out : rs = s.rows /\ cs = s.mem /\ out = t.mem
      OBVIOUS
    <3>6. /\ scope.clock \in Nat /\ Said(rs, "buyer") \in SUBSET Nat /\ Said(rs, "seller") \in SUBSET Nat
          /\ Said(rs, "buyer") \cap Said(rs, "seller") = {}
          /\ cs \in Seq(CycleSet) /\ (\A i \in DOMAIN cs : cs[i].end = 0 => i = Len(cs)) /\ Timed(rs, cs)
          /\ new.at \in Nat /\ (\A x \in rs : x.at < new.at)
          /\ out \in Seq(CycleSet)
      BY <1>1, <1>2, <1>3, <2>3, <3>1, <3>2
    <3>3. CASE thread[k].from = "buyer"
      <4>1. IF \E i \in DOMAIN s.mem : s.mem[i].end = 0 THEN t.mem = s.mem
            ELSE t.mem = Append(s.mem, [start |-> new.at, end |-> 0, by |-> None])
        BY <1>3, <1>5, <2>2, <2>3, <3>3 DEF Added
      <4>2. IF \E i \in DOMAIN s.mem : s.mem[i].end = 0 THEN t.mem = s.mem
            ELSE t.mem # <<>> /\ t.mem[Len(t.mem)].start = new.at /\ t.mem[Len(t.mem)].end = 0
        <5> PICK e : e = [start |-> new.at, end |-> 0, by |-> None]
          OBVIOUS
        <5>1. e.start = new.at /\ e.end = 0
          OBVIOUS
        <5>2. t.mem = Append(s.mem, e) => t.mem # <<>> /\ t.mem[Len(t.mem)] = e
          BY <1>1
        <5> QED
          BY <4>1, <5>1, <5>2
      <4>3. new.from = "buyer" /\ IF \E i \in DOMAIN cs : cs[i].end = 0 THEN out = cs
                                  ELSE out # <<>> /\ out[Len(out)].start = new.at /\ out[Len(out)].end = 0
        BY <2>3, <3>3, <4>2
      <4>4. Timed(rs \cup {new}, out)
        BY ONLY <3>6, <4>3, NewQuestion
      <4> QED
        BY <4>4, <2>1
    <3>4. CASE thread[k].from = "seller"
      <4>1. IF Answered(s.mem, new.at) = 0 THEN t.mem = s.mem
            ELSE /\ Len(t.mem) = Len(s.mem) /\ t.mem[Answered(s.mem, new.at)].end = new.at
                 /\ t.mem[Answered(s.mem, new.at)].start = s.mem[Answered(s.mem, new.at)].start
        <5>1. new.at = thread[k].at
          BY <2>3
        <5>2. s.seen = s.mem /\ s.status # "CLOSED" /\ Added(s, t, k)
          BY <1>3, <1>5, <2>2
        <5> QED
          BY ONLY <5>1, <5>2, <3>4 DEF Added
      <4>2. new.from = "seller"
        BY <2>3, <3>4
      <4>3. IF Answered(cs, new.at) = 0 THEN out = cs
            ELSE /\ Len(out) = Len(cs) /\ out[Answered(cs, new.at)].end = new.at
                 /\ out[Answered(cs, new.at)].start = cs[Answered(cs, new.at)].start
        BY <4>1
      <4>4. Timed(rs \cup {new}, out)
        BY ONLY <3>6, <4>2, <4>3, NewAnswer
      <4> QED
        BY <4>4, <2>1
    <3>5. CASE thread[k].from = "ebay"
      <4>1. t.mem = s.mem
        BY <1>3, <1>5, <2>2, <3>5 DEF Added
      <4>2. Said(t.rows, "buyer") = Said(s.rows, "buyer") /\ Said(t.rows, "seller") = Said(s.rows, "seller")
        BY <2>1, <2>3, <3>5 DEF Said
      <4> QED
        BY <4>1, <4>2, <1>3 DEF Timed
    <3> QED
      BY <3>3, <3>4, <3>5, <1>2 DEF MessageSet
  <2>7. ~ \A j \in DOMAIN thread : j <= k => KnownIn(rows, j)
    BY <1>2, <2>1
  <2> QED
    BY <2>1, <2>4, <2>5, <2>6, <2>7 DEF SessionStraight
<1> QED
  BY <1>4, <1>5, ImportRowIs

LEMMA ImportedDates ==
    ASSUME IInv, SentDates, RowDates(rows), imp # None
    PROVE  RowDates(Imported.rows)
<1> DEFINE D == 0..imp.upto
           Good == {k \in D : RowDates(Session[k].rows)}
<1>1. /\ Initial(D) /\ imp.upto \in D
      /\ \A k \in D : k # 0 => k - 1 \in D /\ k \in DOMAIN thread /\ Session[k] = ImportRow(Session[k - 1], k)
      /\ \A k \in D : Session[k] \in Sessions
  BY SessionIs
<1>2. 0 \in D => 0 \in Good
  BY SessionIs
<1>3. ASSUME NEW n \in D, n # 0, n - 1 \in Good PROVE n \in Good
  BY <1>1, <1>3, ImportRowDates
<1>4. D \subseteq Good
  <2> HIDE DEF D, Good
  <2> QED
    BY <1>1, <1>2, <1>3, SetInduction
<1> QED
  BY <1>1, <1>4 DEF Imported

\* One unknown message has only known ones before it.
LEMMA UnknownOnce ==
    ASSUME IInv, NEW n \in Nat, ~(Cardinality(Unknown \cap (1..n)) > 1),
           NEW k \in DOMAIN thread, k <= n, ~KnownIn(rows, k), NEW j \in DOMAIN thread, j < k
    PROVE  KnownIn(rows, j)
<1> SUFFICES ASSUME ~KnownIn(rows, j) PROVE FALSE
  OBVIOUS
<1> DEFINE U == Unknown \cap (1..n)
<1>1. j \in U /\ k \in U /\ j # k /\ U \subseteq 1..n
  BY ThreadIs DEF Unknown, KnownIn
<1> HIDE DEF U
<1>2. IsFiniteSet(U) /\ Cardinality(U) \in Nat
  <2>1. IsFiniteSet(1..n)
    BY FS_Interval
  <2> QED
    BY <1>1, <2>1, FS_Subset, FS_CardinalityType
<1>3. Cardinality({j} \cup {k}) = 2 /\ {j} \cup {k} \subseteq U
  <2>1. IsFiniteSet({j}) /\ Cardinality({j}) = 1
    BY FS_Singleton
  <2>2. k \notin {j}
    BY <1>1
  <2>3. Cardinality({j} \cup {k}) = 1 + 1
    BY ONLY <2>1, <2>2, FS_AddElement
  <2> QED
    BY <1>1, <2>3
<1> QED
  BY <1>2, <1>3, FS_Subset DEF U

LEMMA ImportedStraight ==
    ASSUME IInv, SentDates, RowDates(rows), imp # None,
           Aligned(rows), Timed(rows, cycles), imp.status # "CLOSED",
           ~(Cardinality(Unknown \cap (1..imp.upto)) > 1)
    PROVE  SessionStraight(Imported, imp.upto)
<1> DEFINE D == 0..imp.upto
           Good == {k \in D : RowDates(Session[k].rows) /\ SessionStraight(Session[k], k)}
<1>1. /\ Initial(D) /\ imp.upto \in D /\ imp.upto \in Nat
      /\ \A k \in D : k # 0 => k - 1 \in D /\ k \in DOMAIN thread /\ Session[k] = ImportRow(Session[k - 1], k)
      /\ \A k \in D : Session[k] \in Sessions /\ k <= imp.upto
  BY SessionIs
<1>2. 0 \in D => 0 \in Good
  <2>1. /\ Session[0].rows = rows /\ Session[0].seen = cycles /\ Session[0].mem = cycles
        /\ Session[0].status = imp.status
    BY SessionIs
  <2>2. \A j \in DOMAIN thread : ~(j <= 0)
    BY ThreadIs
  <2> QED
    BY <2>1, <2>2 DEF SessionStraight
<1>3. ASSUME NEW n \in D, n # 0, n - 1 \in Good PROVE n \in Good
  <2>1. n \in DOMAIN thread /\ Session[n] = ImportRow(Session[n - 1], n) /\ Session[n - 1] \in Sessions
    BY <1>1, <1>3
  <2>2. KnownIn(rows, n) \/ \A j \in DOMAIN thread : j < n => KnownIn(rows, j)
    BY <1>1, <2>1, UnknownOnce
  <2>3. RowDates(Session[n].rows)
    BY <1>3, <2>1, ImportRowDates
  <2>4. SessionStraight(Session[n], n)
    BY <1>3, <2>1, <2>2, ImportRowStraight
  <2> QED
    BY <2>3, <2>4
<1>4. D \subseteq Good
  <2> HIDE DEF D, Good
  <2> QED
    BY <1>1, <1>2, <1>3, SetInduction
<1> QED
  BY <1>1, <1>4 DEF Imported

-----------------------------------------------------------------------------
(* The invariant: as long as nothing is entangled, what is stored is in    *)
(* the order of the thread, the last cycle is what the messages say, a     *)
(* reply under way is alone and newer than everything but its own message, *)
(* and the conversation is not closed.                                     *)

FlightInv == \A r \in InFlight :
    /\ \A q \in InFlight : q = r
    /\ \A x \in rows : x.at < reply[r].at
    /\ \A k \in DOMAIN thread : k # reply[r].answer.msg => thread[k].at < reply[r].at /\ KnownIn(rows, k)
    /\ reply[r].pc # "ready" => /\ reply[r].at < thread[reply[r].answer.msg].at
                                /\ ~KnownIn(rows, reply[r].answer.msg)
                                /\ \A k \in DOMAIN thread : k <= reply[r].answer.msg
    /\ reply[r].pc = "read" => /\ reply[r].cycle = Answered(cycles, reply[r].at)
                               /\ ~reply[r].row /\ ~reply[r].gone
StatusInv == status # "CLOSED" /\ (imp # None => imp.status # "CLOSED")

Straight == Aligned(rows) /\ Timed(rows, cycles) /\ FlightInv /\ StatusInv
HistoryInv == SentDates /\ RowDates(rows) /\ (~entangled => Straight)

LEMMA InitHistory == Init => HistoryInv
<1> SUFFICES ASSUME Init PROVE HistoryInv
  OBVIOUS
<1>1. /\ thread = <<>> /\ rows = {} /\ cycles = <<>> /\ clock = 0 /\ status = "OPEN" /\ imp = None
      /\ \A r \in Reply : reply[r] = Fresh
  BY DEF Init
<1>2. \A r \in Reply : ReplyDates(reply[r], clock)
  BY <1>1 DEF ReplyDates, Fresh, NoAnswer
<1>3. SentDates /\ RowDates(rows)
  BY <1>1, <1>2 DEF SentDates, RowDates
<1>4. InFlight = {}
  BY <1>1 DEF InFlight, Fresh
<1>5. Aligned(rows) /\ Timed(rows, cycles)
  BY <1>1 DEF Aligned, Ordered, Locals, Known1st, KnownIn, Timed, Follows, Said
<1>6. FlightInv /\ StatusInv
  BY <1>1, <1>4 DEF FlightInv, StatusInv
<1> QED
  BY <1>3, <1>5, <1>6 DEF HistoryInv, Straight

\* Steps that leave the messages and what the replies say of them alone.
LEMMA AlignedKept ==
    ASSUME IInv, thread' = thread, rows' = rows, cycles' = cycles, clock \in Nat, clock' \in Nat, clock <= clock',
           \A q \in Reply : reply'[q].answer = reply[q].answer
    PROVE  /\ Aligned(rows) => Aligned(rows)'
           /\ Timed(rows, cycles) => Timed(rows, cycles)'
           /\ RowDates(rows) => RowDates(rows)'
           /\ \A k : KnownIn(rows, k)' <=> KnownIn(rows, k)
<1>1. \A x \in rows : x.ext # 0 \/ x.reply \in Reply
  BY Named DEF IInv, RowsInv
<1>2. \A x \in rows : Mine(x)' = Mine(x)
  BY <1>1 DEF Mine
<1>3. \A k : KnownIn(rows, k)' <=> KnownIn(rows, k)
  BY DEF KnownIn
<1>4. Aligned(rows) => Aligned(rows)'
  BY <1>2, <1>3 DEF Aligned, Ordered, Locals, Known1st
<1>5. Timed(rows, cycles) => Timed(rows, cycles)'
  BY DEF Timed, Said
<1>6. RowDates(rows) => RowDates(rows)'
  <2>1. \A x \in rows : x.at \in Nat
    BY ThreadIs, Named DEF IInv, RowSet
  <2> QED
    BY <2>1 DEF RowDates
<1> QED
  BY <1>3, <1>4, <1>5, <1>6

LEMMA HistoryKept ==
    ASSUME IInv, HistoryInv, thread' = thread, rows' = rows, cycles' = cycles, clock' = clock,
           \A q \in Reply : reply'[q].answer = reply[q].answer /\ ReplyDates(reply'[q], clock'),
           \A q \in InFlight' : q \in InFlight /\ reply'[q] = reply[q],
           ~entangled' => ~entangled /\ StatusInv'
    PROVE  HistoryInv'
<1>1. SentDates /\ RowDates(rows) /\ (~entangled => Straight)
  BY DEF HistoryInv
<1>2. SentDates'
  BY <1>1 DEF SentDates
<1>3. /\ Aligned(rows) => Aligned(rows)'
      /\ Timed(rows, cycles) => Timed(rows, cycles)'
      /\ RowDates(rows) => RowDates(rows)'
      /\ \A k : KnownIn(rows, k)' <=> KnownIn(rows, k)
  BY <1>1, AlignedKept DEF SentDates
<1>4. FlightInv => FlightInv'
  BY <1>3 DEF FlightInv
<1> QED
  BY <1>1, <1>2, <1>3, <1>4 DEF HistoryInv, Straight

LEMMA UserHistory == ASSUME IInv, HistoryInv, UserNext \/ UNCHANGED vars PROVE HistoryInv'
<1>1. UNCHANGED desk /\ (~entangled' => ~entangled /\ (status' = status \/ status' # "CLOSED"))
  <2>1. ASSUME NEW new \in Statuses, UpdateStatus(new)
        PROVE  UNCHANGED desk /\ (~entangled' => ~entangled /\ status' # "CLOSED")
    <3>1. UNCHANGED desk /\ status' = new /\ entangled' = (entangled \/ new = "CLOSED")
      BY <2>1 DEF UpdateStatus
    <3>2. ~entangled' => ~entangled /\ new # "CLOSED"
      BY ONLY <3>1, Zenon
    <3> QED
      BY <3>1, <3>2
  <2>2. ASSUME UpdateCategory \/ (\E u \in Agent : AssignRead(u)) \/ AssignCommit \/ Unassign
        PROVE  UNCHANGED <<desk, status, entangled>>
    BY <2>2 DEF UpdateCategory, AssignRead, AssignCommit, Unassign
  <2>3. UNCHANGED vars => UNCHANGED <<desk, status, entangled>>
    BY DEF vars, desk
  <2> QED
    BY <2>1, <2>2, <2>3 DEF UserNext
<1>2. thread' = thread /\ rows' = rows /\ cycles' = cycles /\ clock' = clock /\ reply' = reply /\ imp' = imp
  BY <1>1 DEF desk
<1>3. \A q \in Reply : ReplyDates(reply'[q], clock')
  BY <1>2 DEF HistoryInv, SentDates, ReplyDates
<1>4. InFlight' = InFlight
  BY <1>2 DEF InFlight
<1>5. ~entangled' => StatusInv'
  BY <1>1, <1>2 DEF HistoryInv, Straight, StatusInv
<1> QED
  BY <1>1, <1>2, <1>3, <1>4, <1>5, HistoryKept

LEMMA LoadHistory == ASSUME IInv, HistoryInv, ImportLoad \/ ImportFails PROVE HistoryInv'
<1>1. /\ thread' = thread /\ rows' = rows /\ cycles' = cycles /\ clock' = clock /\ reply' = reply
      /\ entangled' = entangled /\ status' = status
      /\ imp' = None \/ imp'.status = status
  BY DEF ImportLoad, ImportFails
<1>2. \A q \in Reply : ReplyDates(reply'[q], clock')
  BY <1>1 DEF HistoryInv, SentDates, ReplyDates
<1>3. InFlight' = InFlight
  BY <1>1 DEF InFlight
<1>4. ~entangled' => ~entangled /\ StatusInv'
  BY <1>1 DEF HistoryInv, Straight, StatusInv
<1> QED
  BY <1>1, <1>2, <1>3, <1>4, HistoryKept

\* Steps of a reply that only move it, out of flight if it was in it.
LEMMA MoveHistory ==
    ASSUME IInv, HistoryInv, NEW r \in Reply, NEW pc \in {"clicked", "done"}, reply' = [reply EXCEPT ![r].pc = pc],
           pc = "clicked" => reply[r].pc = "idle",
           UNCHANGED <<clock, thread, rows, cycles, status, imp, entangled>>
    PROVE  HistoryInv'
<1>1. \A q \in Reply : reply[q] \in ReplySet /\ ReplyDates(reply[q], clock)
  BY DEF IInv, ReadsInv, HistoryInv, SentDates
<1>2. \A q \in Reply : q # r => reply'[q] = reply[q]
  BY DEF IInv, ReadsInv
<1>3. /\ reply'[r].pc = pc /\ reply'[r].answer = reply[r].answer /\ reply'[r].at = reply[r].at
      /\ reply'[r].cycle = reply[r].cycle /\ reply'[r].gone = reply[r].gone
  BY <1>1 DEF IInv, ReadsInv, ReplySet
<1>4. \A q \in Reply : ReplyDates(reply'[q], clock')
  BY <1>1, <1>2, <1>3 DEF ReplyDates
<1>5. \A q \in InFlight' : q \in InFlight /\ reply'[q] = reply[q]
  BY <1>2, <1>3 DEF InFlight
<1>6. ~entangled' => ~entangled /\ StatusInv'
  BY DEF HistoryInv, Straight, StatusInv
<1> QED
  BY <1>2, <1>3, <1>4, <1>5, <1>6, HistoryKept

LEMMA SmallReplyHistory ==
    ASSUME IInv, HistoryInv, NEW r \in Reply,
           ReplyClick(r) \/ ReplyEnds(r) \/ ReplyRejected(r) \/ ReplyCollides(r) \/ ReplyConfirm(r)
    PROVE  HistoryInv'
<1>1. ReplyClick(r) => HistoryInv'
  BY MoveHistory DEF ReplyClick, others
<1>2. ReplyEnds(r) => HistoryInv'
  BY MoveHistory DEF ReplyEnds, others
<1>3. ReplyRejected(r) => HistoryInv'
  BY MoveHistory DEF ReplyRejected, AfterRejection, others
<1>4. ReplyCollides(r) => HistoryInv'
  BY MoveHistory DEF ReplyCollides, others
<1>5. ReplyConfirm(r) => HistoryInv'
  BY MoveHistory DEF ReplyConfirm, others
<1> QED
  BY <1>1, <1>2, <1>3, <1>4, <1>5

\* A reply is checked: it is the only one under way, and newer than every message.
LEMMA CheckHistory == ASSUME IInv, HistoryInv, NEW r \in Reply, ReplyCheck(r) PROVE HistoryInv'
<1>1. /\ clock \in Nat /\ clock' = clock + 1 /\ reply[r].pc = "clicked" /\ status # "CLOSED"
      /\ reply' = [reply EXCEPT ![r].pc = "ready", ![r].at = clock + 1, ![r].status = status]
      /\ thread' = thread /\ rows' = rows /\ cycles' = cycles /\ status' = status /\ imp' = imp
      /\ entangled' = (entangled \/ InFlight # {} \/ imp # None \/ Unknown # {})
      /\ \A q \in Reply : reply[q] \in ReplySet /\ ReplyDates(reply[q], clock)
  BY DEF ReplyCheck, others, IInv, ReadsInv, HistoryInv, SentDates
<1>2. ~entangled' => ~entangled /\ InFlight = {} /\ imp = None /\ Unknown = {}
  BY ONLY <1>1, Zenon
<1>3. \A q \in Reply : q # r => reply'[q] = reply[q]
  BY <1>1 DEF IInv, ReadsInv
<1>4. /\ reply'[r].pc = "ready" /\ reply'[r].answer = reply[r].answer /\ reply'[r].at = clock + 1
      /\ reply'[r].cycle = reply[r].cycle /\ reply'[r].gone = reply[r].gone
  BY <1>1 DEF IInv, ReadsInv, ReplySet
<1>5. \A q \in Reply : reply[q].at \in Nat
  BY <1>1, ThreadIs DEF ReplySet
<1>6. \A q \in Reply : ReplyDates(reply'[q], clock')
  <2>1. ASSUME NEW q \in Reply, q # r PROVE ReplyDates(reply'[q], clock')
    <3>1. reply'[q] = reply[q] /\ ReplyDates(reply[q], clock) /\ reply[q].at \in Nat
      BY <1>1, <1>3, <1>5, <2>1
    <3>2. reply[q].at <= clock'
      BY <1>1, <3>1 DEF ReplyDates
    <3> QED
      BY <3>1, <3>2 DEF ReplyDates
  <2>2. ReplyDates(reply'[r], clock')
    <3>1. reply[r].answer.msg = 0 /\ reply[r].cycle = 0 /\ ~reply[r].gone /\ clock + 1 <= clock'
      BY <1>1 DEF ReplyDates
    <3> QED
      BY <1>4, <3>1 DEF ReplyDates
  <2> QED
    BY <2>1, <2>2
<1>7. SentDates'
  <2>1. \A k \in DOMAIN thread : thread[k].at <= clock'
    BY <1>1, ThreadIs DEF HistoryInv, SentDates
  <2>2. clock' \in Nat
    BY <1>1
  <2>3. /\ \A j, k \in DOMAIN thread : j < k => thread[j].at < thread[k].at
        /\ \A k \in DOMAIN thread : thread[k].reply # None => thread[k].from = "seller"
    BY DEF HistoryInv, SentDates
  <2>4. thread' = thread
    BY <1>1
  <2> QED
    BY <1>6, <2>1, <2>2, <2>3, <2>4 DEF SentDates
<1>8. /\ Aligned(rows) => Aligned(rows)'
      /\ Timed(rows, cycles) => Timed(rows, cycles)'
      /\ RowDates(rows) => RowDates(rows)'
      /\ \A k : KnownIn(rows, k)' <=> KnownIn(rows, k)
  <2>1. \A q \in Reply : reply'[q].answer = reply[q].answer
    BY <1>3, <1>4
  <2>2. /\ thread' = thread /\ rows' = rows /\ cycles' = cycles
        /\ clock \in Nat /\ clock' \in Nat /\ clock <= clock'
    BY <1>1
  <2> QED
    BY ONLY IInv, <2>1, <2>2, AlignedKept
<1>9. ASSUME ~entangled' PROVE FlightInv'
  <2>1. \A q \in InFlight' : q = r
    BY <1>2, <1>3, <1>9 DEF InFlight
  <2>2. \A x \in rows : x.at < clock + 1
    <3>1. \A x \in rows : x.at \in Nat /\ x.at <= clock
      BY ThreadIs, Named DEF IInv, RowSet, HistoryInv, RowDates
    <3> QED
      BY <1>1, <3>1
  <2>3. \A k \in DOMAIN thread : thread[k].at < clock + 1 /\ KnownIn(rows, k)
    BY <1>1, <1>2, <1>9, ThreadIs DEF HistoryInv, SentDates, Unknown, KnownIn
  <2> QED
    BY <1>1, <1>4, <1>8, <2>1, <2>2, <2>3 DEF FlightInv
<1>10. ~entangled' => StatusInv'
  BY <1>1, <1>2 DEF StatusInv
<1> QED
  BY <1>2, <1>7, <1>8, <1>9, <1>10 DEF HistoryInv, Straight

LEMMA ReadHistory == ASSUME IInv, HistoryInv, NEW r \in Reply, ReplyRead(r) PROVE HistoryInv'
<1>1. /\ reply[r].pc = "answered"
      /\ reply' = [reply EXCEPT ![r].pc = "read",
                    ![r].row = reply[r].answer.id /\ \E x \in rows : x.ext = reply[r].answer.msg,
                    ![r].cycle = Answered(cycles, reply[r].at),
                    ![r].holder = CurrentHolder]
      /\ clock' = clock /\ thread' = thread /\ rows' = rows /\ cycles' = cycles /\ status' = status
      /\ imp' = imp /\ entangled' = entangled
      /\ \A q \in Reply : reply[q] \in ReplySet /\ ReplyDates(reply[q], clock)
  BY DEF ReplyRead, others, IInv, ReadsInv, HistoryInv, SentDates
<1>2. \A q \in Reply : q # r => reply'[q] = reply[q]
  BY <1>1 DEF IInv, ReadsInv
<1>3. /\ reply'[r].pc = "read" /\ reply'[r].answer = reply[r].answer /\ reply'[r].at = reply[r].at
      /\ reply'[r].cycle = Answered(cycles, reply[r].at) /\ reply'[r].gone = reply[r].gone
      /\ reply'[r].row = (reply[r].answer.id /\ KnownIn(rows, reply[r].answer.msg))
  <2> PICK c, h, w : /\ c = Answered(cycles, reply[r].at) /\ h = CurrentHolder
                     /\ w = (reply[r].answer.id /\ \E x \in rows : x.ext = reply[r].answer.msg)
    OBVIOUS
  <2> PICK e : e = [reply[r] EXCEPT !.pc = "read", !.row = w, !.cycle = c, !.holder = h]
    OBVIOUS
  <2>1. reply'[r] = e
    BY <1>1 DEF IInv, ReadsInv
  <2>2. e.pc = "read" /\ e.answer = reply[r].answer /\ e.at = reply[r].at /\ e.cycle = c /\ e.gone = reply[r].gone
    BY <1>1 DEF ReplySet
  <2>3. e.row = w
    BY <1>1 DEF ReplySet
  <2> QED
    BY <2>1, <2>2, <2>3 DEF KnownIn
<1>4. \A q \in Reply : ReplyDates(reply'[q], clock')
  BY <1>1, <1>2, <1>3 DEF ReplyDates
<1>5. SentDates'
  BY <1>1, <1>4 DEF HistoryInv, SentDates
<1>6. /\ Aligned(rows) => Aligned(rows)'
      /\ Timed(rows, cycles) => Timed(rows, cycles)'
      /\ RowDates(rows) => RowDates(rows)'
      /\ \A k : KnownIn(rows, k)' <=> KnownIn(rows, k)
  <2>1. \A q \in Reply : reply'[q].answer = reply[q].answer
    BY <1>2, <1>3
  <2>2. /\ thread' = thread /\ rows' = rows /\ cycles' = cycles
        /\ clock \in Nat /\ clock' \in Nat /\ clock <= clock'
    <3>1. UNCHANGED <<clock, thread, rows, cycles>> /\ clock \in Nat
      BY DEF HistoryInv, SentDates, ReplyRead
    <3> QED
      BY ONLY <3>1
  <2> QED
    BY ONLY IInv, <2>1, <2>2, AlignedKept
<1>7. ASSUME FlightInv PROVE FlightInv'
  <2>1. r \in InFlight /\ \A q \in InFlight' : q \in InFlight
    BY <1>1, <1>2 DEF InFlight
  <2>2. \A q \in InFlight' : q = r
    BY <1>7, <2>1 DEF FlightInv
  <2>3. /\ \A x \in rows : x.at < reply[r].at
        /\ \A k \in DOMAIN thread : k # reply[r].answer.msg => thread[k].at < reply[r].at /\ KnownIn(rows, k)
        /\ reply[r].at < thread[reply[r].answer.msg].at
        /\ ~KnownIn(rows, reply[r].answer.msg)
        /\ \A k \in DOMAIN thread : k <= reply[r].answer.msg
    BY <1>1, <1>7, <2>1 DEF FlightInv
  <2>4. ~reply'[r].row /\ ~reply'[r].gone
    BY <1>1, <1>3, <2>3 DEF ReplyDates
  <2>5. Answered(cycles, reply[r].at)' = Answered(cycles, reply[r].at)
    BY <1>1, <1>3 DEF Answered
  <2> QED
    BY <1>1, <1>3, <1>6, <2>2, <2>3, <2>4, <2>5 DEF FlightInv
<1> QED
  BY <1>1, <1>5, <1>6, <1>7 DEF HistoryInv, Straight, StatusInv

-----------------------------------------------------------------------------
(* Steps of eBay.                                                          *)

LEMMA GrownHistory ==
    ASSUME IInv, HistoryInv, NEW m \in MessageSet, thread' = Append(thread, m), Len(thread) < scope.thread,
           m.at = clock + 1, clock' = clock + 1, m.reply # None => m.from = "seller",
           rows' = rows, cycles' = cycles,
           \A q \in Reply : /\ ReplyDates(reply'[q], clock')
                            /\ reply[q].pc \in {"stored", "done"} => reply'[q].answer = reply[q].answer
    PROVE  /\ SentDates' /\ RowDates(rows)'
           /\ Aligned(rows) => Aligned(rows)'
           /\ Timed(rows, cycles) => Timed(rows, cycles)'
           /\ \A k : KnownIn(rows, k)' <=> KnownIn(rows, k)
           /\ ~KnownIn(rows, Len(thread) + 1)
<1>1. /\ Len(thread) \in Nat /\ DOMAIN thread' = DOMAIN thread \cup {Len(thread) + 1}
      /\ DOMAIN thread = 1..Len(thread)
      /\ \A k \in DOMAIN thread : thread'[k] = thread[k]
      /\ thread'[Len(thread) + 1] = m
  BY Grows
<1>2. /\ clock \in Nat /\ SentDates /\ RowDates(rows) /\ rows \in SUBSET RowSet /\ RowsInv(rows)
      /\ \A k \in DOMAIN thread : thread[k].at \in Nat /\ thread[k].at <= clock /\ k \in Nat
  BY ThreadIs DEF HistoryInv, SentDates, IInv, TypeOK, RowSet
<1>3. SentDates'
  <2>1. \A j, k \in DOMAIN thread' : j < k => thread'[j].at < thread'[k].at
    BY <1>1, <1>2 DEF SentDates
  <2>2. \A k \in DOMAIN thread' : thread'[k].at <= clock' /\ (thread'[k].reply # None => thread'[k].from = "seller")
    BY <1>1, <1>2 DEF SentDates
  <2> QED
    BY <1>2, <2>1, <2>2 DEF SentDates, ReplyDates
<1>4. \A x \in rows : Mine(x) \in DOMAIN thread /\ Mine(x)' = Mine(x) /\ (x.ext # 0 => x.ext \in DOMAIN thread)
  <2> SUFFICES ASSUME NEW x \in rows
               PROVE  Mine(x) \in DOMAIN thread /\ Mine(x)' = Mine(x) /\ (x.ext # 0 => x.ext \in DOMAIN thread)
    OBVIOUS
  <2>1. Mine(x) \in DOMAIN thread /\ (x.ext # 0 => Mine(x) = x.ext) /\ (x.ext = 0 => x.reply \in Reply /\ x.reply # None)
    BY <1>2, MineIs
  <2>2. x.ext = 0 => reply[x.reply].pc \in {"stored", "done"}
    BY <1>2, <2>1 DEF RowsInv
  <2> QED
    BY <2>1, <2>2 DEF Mine
<1>5. \A k : KnownIn(rows, k)' <=> KnownIn(rows, k)
  BY DEF KnownIn
<1>6. ~KnownIn(rows, Len(thread) + 1)
  BY <1>1, <1>4 DEF KnownIn
<1>7. RowDates(rows)'
  <2>1. \A x \in rows : x.at \in Nat
    BY <1>2, MineIs
  <2>2. \A x \in rows : x.reply = None => x.ext # 0
    BY <1>2 DEF RowsInv
  <2> QED
    BY <1>1, <1>2, <1>4, <2>1, <2>2 DEF RowDates
<1>8. Aligned(rows) => Aligned(rows)'
  <2> SUFFICES ASSUME Aligned(rows) PROVE Aligned(rows)'
    OBVIOUS
  <2>1. Ordered(rows)'
    BY <1>1, <1>2, <1>4 DEF Aligned, Ordered
  <2>2. Locals(rows)'
    BY <1>1, <1>2, <1>4, <1>5 DEF Aligned, Locals
  <2>3. Known1st(rows)'
    BY <1>1, <1>2, <1>5, <1>6 DEF Aligned, Known1st
  <2> QED
    BY <2>1, <2>2, <2>3 DEF Aligned
<1>9. Timed(rows, cycles) => Timed(rows, cycles)'
  BY DEF Timed, Said
<1> QED
  BY <1>3, <1>5, <1>6, <1>7, <1>8, <1>9

LEMMA WriteHistory ==
    ASSUME IInv, HistoryInv, NEW from \in {"buyer", "seller", "ebay"}, Write(from) PROVE HistoryInv'
<1> PICK m : m = Listed(from, None, "other")
  OBVIOUS
<1>1. /\ thread' = Append(thread, m) /\ Len(thread) < scope.thread /\ clock' = clock + 1 /\ clock < scope.clock
      /\ rows' = rows /\ cycles' = cycles /\ reply' = reply /\ status' = status /\ imp' = imp
      /\ entangled' = (entangled \/ InFlight # {})
  BY DEF Write
<1>2. clock \in Nat /\ scope.clock \in Nat /\ \A q \in Reply : ReplyDates(reply[q], clock) /\ reply[q].at \in Nat
  BY ThreadIs DEF HistoryInv, SentDates, IInv, ReadsInv, ReplySet
<1>3. m \in MessageSet /\ m.at = clock + 1 /\ m.reply = None
  BY <1>1, <1>2 DEF Listed, MessageSet
<1>4. \A q \in Reply : ReplyDates(reply'[q], clock')
  BY <1>1, <1>2 DEF ReplyDates
<1>5. /\ SentDates' /\ RowDates(rows)'
      /\ Aligned(rows) => Aligned(rows)'
      /\ Timed(rows, cycles) => Timed(rows, cycles)'
  BY <1>1, <1>3, <1>4, GrownHistory
<1>6. ~entangled' => ~entangled /\ InFlight = {}
  BY ONLY <1>1, Zenon
<1>7. ~entangled' => FlightInv'
  BY <1>1, <1>6 DEF FlightInv, InFlight
<1>8. StatusInv => StatusInv'
  BY <1>1 DEF StatusInv
<1> QED
  BY <1>5, <1>6, <1>7, <1>8 DEF HistoryInv, Straight

LEMMA SendHistory == ASSUME IInv, HistoryInv, NEW r \in Reply, ReplySend(r) PROVE HistoryInv'
<1> PICK m : m = Listed("seller", r, BodyOf[r])
  OBVIOUS
<1>1. /\ thread' = Append(thread, m) /\ Len(thread) < scope.thread /\ clock' = clock + 1 /\ clock < scope.clock
      /\ rows' = rows /\ cycles' = cycles /\ status' = status /\ imp' = imp
      /\ entangled' = entangled /\ reply[r].pc = "ready"
  BY DEF ReplySend, others
<1>2. clock \in Nat /\ scope.clock \in Nat /\ Len(thread) \in Nat /\ DOMAIN thread = 1..Len(thread)
  BY ThreadIs DEF HistoryInv, SentDates
<1>3. PICK id \in BOOLEAN, lost \in BOOLEAN :
         reply' = [reply EXCEPT ![r].pc = IF lost THEN "done" ELSE "answered",
                                ![r].answer = Answer(Len(thread) + 1, id)]
  BY DEF ReplySend
<1>4. \A q \in Reply : ReplyDates(reply[q], clock) /\ reply[q].at \in Nat /\ reply[q] \in ReplySet
  BY ThreadIs DEF HistoryInv, SentDates, IInv, ReadsInv, ReplySet
<1>5. \A q \in Reply : q # r => reply'[q] = reply[q]
  BY <1>3 DEF IInv, ReadsInv
<1>6. /\ reply'[r].pc \in {"done", "answered"} /\ reply'[r].answer.msg = Len(thread) + 1
      /\ reply'[r].at = reply[r].at /\ reply'[r].cycle = reply[r].cycle /\ reply'[r].gone = reply[r].gone
  <2> PICK pc \in {"done", "answered"} : pc = IF lost THEN "done" ELSE "answered"
    OBVIOUS
  <2> PICK e : e = [reply[r] EXCEPT !.pc = pc, !.answer = Answer(Len(thread) + 1, id)]
    OBVIOUS
  <2>1. reply'[r] = e
    BY <1>3 DEF IInv, ReadsInv
  <2>2. /\ e.pc = pc /\ e.answer = Answer(Len(thread) + 1, id) /\ e.at = reply[r].at
        /\ e.cycle = reply[r].cycle /\ e.gone = reply[r].gone
    BY <1>4 DEF ReplySet
  <2> QED
    BY <2>1, <2>2 DEF Answer
<1>7. m \in MessageSet /\ m.at = clock + 1 /\ m.from = "seller"
  BY <1>1, <1>2 DEF Listed, MessageSet
<1>8. ASSUME NEW q \in Reply PROVE ReplyDates(reply'[q], clock')
  <2>1. reply[q].at <= clock'
    BY <1>1, <1>2, <1>4 DEF ReplyDates
  <2>2. CASE q # r
    BY <2>1, <2>2, <1>4, <1>5 DEF ReplyDates
  <2>3. CASE q = r
    <3>1. reply[r].cycle = 0 /\ ~reply[r].gone
      BY <1>1, <1>4 DEF ReplyDates
    <3> QED
      BY <3>1, <2>1, <2>3, <1>6 DEF ReplyDates
  <2> QED
    BY <2>2, <2>3
<1>9. \A q \in Reply : reply[q].pc \in {"stored", "done"} => reply'[q].answer = reply[q].answer
  BY <1>1, <1>5
<1>10. /\ SentDates' /\ RowDates(rows)'
       /\ Aligned(rows) => Aligned(rows)'
       /\ Timed(rows, cycles) => Timed(rows, cycles)'
       /\ \A k : KnownIn(rows, k)' <=> KnownIn(rows, k)
       /\ ~KnownIn(rows, Len(thread) + 1)
  BY <1>1, <1>7, <1>8, <1>9, GrownHistory
<1>11. ASSUME FlightInv PROVE FlightInv'
  <2>1. r \in InFlight
    BY <1>1 DEF InFlight
  <2>2. \A q \in InFlight' : q = r
    BY <1>5, <1>11, <2>1 DEF FlightInv, InFlight
  <2>3. /\ \A x \in rows : x.at < reply[r].at
        /\ \A k \in DOMAIN thread : thread[k].at < reply[r].at /\ KnownIn(rows, k)
    <3>1. reply[r].answer.msg = 0 /\ \A k \in DOMAIN thread : k # 0
      BY <1>1, <1>2, <1>4 DEF ReplyDates
    <3> QED
      BY <1>11, <2>1, <3>1 DEF FlightInv
  <2>4. reply[r].at < clock + 1
    BY <1>2, <1>4 DEF ReplyDates
  <2>5. /\ DOMAIN thread' = DOMAIN thread \cup {Len(thread) + 1}
        /\ \A k \in DOMAIN thread : thread'[k] = thread[k]
        /\ thread'[Len(thread) + 1] = m
    BY <1>1, <1>7, Grows
  <2>6. \A k \in DOMAIN thread' : k <= Len(thread) + 1
    BY <1>2, <2>5
  <2>7. \A k \in DOMAIN thread' : k # Len(thread) + 1 => thread'[k].at < reply[r].at /\ KnownIn(rows, k)
    BY <2>3, <2>5
  <2>8. reply'[r].pc # "read"
    BY <1>6
  <2> QED
    BY <1>1, <1>6, <1>7, <1>10, <2>2, <2>3, <2>4, <2>5, <2>6, <2>7, <2>8 DEF FlightInv
<1> QED
  BY <1>1, <1>10, <1>11 DEF HistoryInv, Straight, StatusInv

-----------------------------------------------------------------------------
(* A reply is stored: nothing of either side is newer.                     *)

LEMMA CommitHistory == ASSUME IInv, HistoryInv, NEW r \in Reply, ReplyCommit(r) PROVE HistoryInv'
<1> PICK x0 : x0 = StoredReply(r)
  OBVIOUS
<1> PICK msg : msg = reply[r].answer.msg
  OBVIOUS
<1> PICK c : c = reply[r].cycle
  OBVIOUS
<1>1. /\ reply[r].pc = "read" /\ reply[r] \in ReplySet
      /\ rows' = {x \in rows : reply[r].row => x.ext # msg} \cup {x0}
      /\ cycles' = IF c = 0 THEN cycles
                   ELSE [cycles EXCEPT ![c].end = reply[r].at, ![c].by = AgentOf[r]]
      /\ status' # status => status' = "RESOLVED"
      /\ reply' = [reply EXCEPT ![r].pc = "stored"]
      /\ UNCHANGED <<clock, thread, entangled, imp, scope>>
  BY DEF ReplyCommit, others, IInv, ReadsInv
<1>2. /\ SentDates /\ RowDates(rows) /\ clock \in Nat /\ scope.clock \in Nat /\ reply[r].at \in Nat
      /\ reply[r].at <= clock /\ cycles \in Seq(CycleSet) /\ rows \in SUBSET RowSet /\ RowsInv(rows)
      /\ \A i \in DOMAIN cycles : cycles[i].end = 0 => i = Len(cycles)
  BY <1>1, ThreadIs DEF HistoryInv, SentDates, ReplyDates, ReplySet, IInv, TypeOK, CycleSet, RowSet, CyclesInv, OpenCycles
<1>3. \A q \in Reply : q # r => reply'[q] = reply[q]
  BY <1>1 DEF IInv, ReadsInv
<1>4. /\ reply'[r].pc = "stored" /\ reply'[r].answer = reply[r].answer /\ reply'[r].at = reply[r].at
      /\ reply'[r].cycle = reply[r].cycle /\ reply'[r].gone = reply[r].gone
  BY <1>1 DEF IInv, ReadsInv, ReplySet
<1>5. SentDates'
  <2>1. \A q \in Reply : ReplyDates(reply[q], clock)
    BY <1>2 DEF SentDates
  <2>2. ReplyDates(reply'[r], clock)
    BY <2>1, <1>4 DEF ReplyDates
  <2>3. \A q \in Reply : ReplyDates(reply'[q], clock)
    BY <2>1, <2>2, <1>3
  <2> QED
    BY <1>1, <1>2, <2>3 DEF SentDates
<1>6. /\ x0.ext \in {0, msg} /\ x0.at = reply[r].at /\ x0.from = "seller" /\ x0.reply = r
      /\ x0.ext # 0 => x0.ext = msg
  BY DEF StoredReply
<1>7. /\ msg \in DOMAIN thread /\ thread[msg].reply = r /\ thread[msg].from = "seller"
      /\ r # None /\ msg # 0 /\ msg \in Nat
  <2>1. msg \in DOMAIN thread /\ thread[msg].reply = r /\ r # None
    BY <1>1, AgentAssumption DEF IInv, SentInv
  <2> QED
    BY <2>1, <1>2, ThreadIs DEF SentDates
<1>8. RowDates(rows)'
  <2>1. RowDates({x0})
    BY <1>2, <1>6, <1>7 DEF RowDates
  <2>2. RowDates(rows \cup {x0})
    BY <2>1, <1>2 DEF RowDates
  <2> QED
    BY <1>1, <2>2 DEF RowDates
<1>9. ASSUME Straight PROVE Straight'
  <2>1. /\ \A q \in InFlight : q = r
        /\ \A x \in rows : x.at < reply[r].at
        /\ \A k \in DOMAIN thread : k # msg => thread[k].at < reply[r].at /\ KnownIn(rows, k)
        /\ reply[r].at < thread[msg].at /\ ~KnownIn(rows, msg)
        /\ \A k \in DOMAIN thread : k <= msg
        /\ c = Answered(cycles, reply[r].at) /\ ~reply[r].row
    <3>1. r \in InFlight
      BY <1>1 DEF InFlight
    <3> QED
      BY <1>1, <1>9, <3>1 DEF Straight, FlightInv
  <2>2. rows' = rows \cup {x0}
    BY <1>1, <2>1
  <2>3. \A x \in rows : /\ Mine(x)' = Mine(x) /\ Mine(x) \in DOMAIN thread
                        /\ x.ext = 0 => Mine(x) # msg
    <3> SUFFICES ASSUME NEW x \in rows
                 PROVE  Mine(x)' = Mine(x) /\ Mine(x) \in DOMAIN thread /\ (x.ext = 0 => Mine(x) # msg)
      OBVIOUS
    <3>1. /\ Mine(x) \in DOMAIN thread
          /\ x.ext = 0 => thread[Mine(x)].reply = x.reply /\ x.reply \in Reply /\ x.reply # None
      BY <1>2, MineIs
    <3>2. x.ext = 0 => reply[x.reply].pc # "read"
      BY <1>2, <3>1 DEF RowsInv
    <3>3. x.ext = 0 => x.reply # r
      BY <1>1, <3>2
    <3>4. Mine(x)' = Mine(x)
      BY <1>3, <3>1, <3>3 DEF Mine
    <3> QED
      BY <1>7, <3>1, <3>3, <3>4
  <2>4. Mine(x0)' = msg
    BY <1>4, <1>6 DEF Mine
  <2>5. \A k \in DOMAIN thread : k # msg => KnownIn(rows, k)'
    BY <2>1, <2>2 DEF KnownIn
  <2>6. \A k \in DOMAIN thread : KnownIn(rows, k)' => KnownIn(rows, k) \/ k = msg
    BY <1>6, <1>7, <2>2, ThreadIs DEF KnownIn
  <2>7. Aligned(rows)'
    <3>1. Ordered(rows)'
      <4>1. \A x \in rows : /\ x.at <= thread[Mine(x)].at
                            /\ \A j \in DOMAIN thread : j < Mine(x) => thread[j].at < x.at
        BY <1>9 DEF Straight, Aligned, Ordered
      <4>2. x0.at <= thread[msg].at
        BY <1>2, <1>6, <1>7, <2>1, ThreadIs
      <4>3. \A j \in DOMAIN thread : j < msg => thread[j].at < x0.at
        BY <1>6, <1>7, <2>1, ThreadIs
      <4> QED
        BY <1>1, <2>2, <2>3, <2>4, <4>1, <4>2, <4>3 DEF Ordered
    <3>2. Locals(rows)'
      <4>1. ASSUME NEW x \in rows, x.ext = 0
            PROVE  /\ \A j \in DOMAIN thread : j < Mine(x) => KnownIn(rows, j)'
                   /\ KnownIn(rows, Mine(x))' => thread[Mine(x)].at - x.at > Window
        <5>1. \A j \in DOMAIN thread : KnownIn(rows, j) => KnownIn(rows, j)'
          BY <2>2 DEF KnownIn
        <5> QED
          BY <1>9, <2>3, <2>6, <4>1, <5>1 DEF Straight, Aligned, Locals
      <4>2. x0.ext = 0 => ~KnownIn(rows, msg)'
        BY <1>7, <2>1, <2>2 DEF KnownIn
      <4>3. \A j \in DOMAIN thread : j < msg => KnownIn(rows, j)'
        BY <1>7, <2>5, ThreadIs
      <4> QED
        BY <1>1, <2>2, <2>3, <2>4, <4>1, <4>2, <4>3 DEF Locals
    <3>3. Known1st(rows)'
      <4> SUFFICES ASSUME NEW j \in DOMAIN thread, NEW k \in DOMAIN thread, j < k PROVE KnownIn(rows, j)'
        BY <1>1 DEF Known1st
      <4>1. j # msg
        BY <1>7, <2>1, ThreadIs
      <4> QED
        BY <2>5, <4>1
    <3> QED
      BY <3>1, <3>2, <3>3 DEF Aligned
  <2>8. Timed(rows, cycles)'
    <3>1. /\ Said(rows, "buyer") \in SUBSET Nat /\ Said(rows, "seller") \in SUBSET Nat
          /\ Timed(rows, cycles)
      BY <1>2, <1>9, SidesDiffer DEF Straight, Aligned
    <3>2. cycles' \in Seq(CycleSet)
      BY <1>1, CommitInv DEF IInv, TypeOK, CycleSet
    <3>3. x0.from = "seller" /\ x0.at \in Nat /\ \A x \in rows : x.at < x0.at
      BY <1>2, <1>6, <2>1
    <3>4. IF Answered(cycles, x0.at) = 0 THEN cycles' = cycles
          ELSE /\ Len(cycles') = Len(cycles) /\ cycles'[Answered(cycles, x0.at)].end = x0.at
               /\ cycles'[Answered(cycles, x0.at)].start = cycles[Answered(cycles, x0.at)].start
      <4>1. Answered(cycles, x0.at) = c
        BY <1>6, <2>1
      <4>2. CASE c = 0
        BY <1>1, <4>1, <4>2
      <4>3. CASE c # 0
        <5>1. c \in DOMAIN cycles /\ cycles[c] \in CycleSet
          <6>1. c \in DOMAIN cycles
            BY <1>2, <2>1, <4>3, AnsweredPosition
          <6> QED
            BY <1>2, <6>1, ElementOfSeq
        <5> DEFINE e == [cycles[c] EXCEPT !.end = reply[r].at, !.by = AgentOf[r]]
        <5>2. e.end = reply[r].at /\ e.start = cycles[c].start
          BY <5>1 DEF CycleSet
        <5>3. cycles' = [cycles EXCEPT ![c] = e]
          BY <1>1, <1>2, <4>3, <5>1 DEF CycleSet
        <5> HIDE DEF e
        <5>4. Len(cycles') = Len(cycles) /\ cycles'[c] = e
          BY <1>2, <5>1, <5>3
        <5> QED
          BY <1>6, <4>1, <4>3, <5>2, <5>4
      <4> QED
        BY <4>2, <4>3
    <3> PICK rs, cs, out : rs = rows /\ cs = cycles /\ out = cycles'
      OBVIOUS
    <3>5. Timed(rs \cup {x0}, out)
      <4>1. /\ scope.clock \in Nat /\ Said(rs, "buyer") \in SUBSET Nat /\ Said(rs, "seller") \in SUBSET Nat
            /\ cs \in Seq(CycleSet) /\ (\A i \in DOMAIN cs : cs[i].end = 0 => i = Len(cs)) /\ Timed(rs, cs)
            /\ x0.from = "seller" /\ x0.at \in Nat /\ (\A x \in rs : x.at < x0.at)
            /\ out \in Seq(CycleSet)
        BY <1>2, <3>1, <3>2, <3>3
      <4>2. IF Answered(cs, x0.at) = 0 THEN out = cs
            ELSE /\ Len(out) = Len(cs) /\ out[Answered(cs, x0.at)].end = x0.at
                 /\ out[Answered(cs, x0.at)].start = cs[Answered(cs, x0.at)].start
        BY <3>4
      <4> QED
        BY ONLY <4>1, <4>2, NewAnswer
    <3>6. Timed(rows \cup {x0}, cycles')
      BY <3>5
    <3> QED
      BY <2>2, <3>6 DEF Timed, Said
  <2>9. FlightInv'
    <3>1. \A q \in InFlight' : q \in InFlight /\ q # r
      BY <1>3, <1>4 DEF InFlight
    <3> QED
      BY <2>1, <3>1 DEF FlightInv
  <2>10. StatusInv'
    BY <1>1, <1>9 DEF Straight, StatusInv
  <2> QED
    BY <2>7, <2>8, <2>9, <2>10 DEF Straight
<1> QED
  BY <1>1, <1>5, <1>8, <1>9 DEF HistoryInv

-----------------------------------------------------------------------------
(* The import applies.                                                     *)

LEMMA ApplyHistory == ASSUME IInv, HistoryInv, ImportApply PROVE HistoryInv'
<1> PICK s : s = Imported
  OBVIOUS
<1>1. /\ imp # None /\ rows' = s.rows /\ cycles' = s.mem /\ imp' = None
      /\ status' = (IF s.status = imp.status THEN status ELSE s.status)
      /\ clock' = clock /\ thread' = thread /\ reply' = reply
      /\ entangled' = \/ entangled \/ InFlight # {}
                      \/ Cardinality(Unknown \cap (1..imp.upto)) > 1
  BY DEF ImportApply
<1>2. SentDates /\ RowDates(rows)
  BY DEF HistoryInv
<1>3. SentDates'
  BY <1>1, <1>2 DEF SentDates
<1>4. RowDates(rows)'
  <2>1. RowDates(s.rows)
    BY <1>1, <1>2, ImportedDates
  <2> QED
    BY <1>1, <2>1 DEF RowDates
<1>5. ~entangled' => ~entangled /\ InFlight = {} /\ ~(Cardinality(Unknown \cap (1..imp.upto)) > 1)
  BY ONLY <1>1, Zenon
<1>6. ASSUME ~entangled' PROVE Straight'
  <2>1. Aligned(rows) /\ Timed(rows, cycles) /\ status # "CLOSED" /\ imp.status # "CLOSED"
    BY <1>1, <1>5, <1>6 DEF HistoryInv, Straight, StatusInv
  <2>2. SessionStraight(s, imp.upto)
    BY <1>1, <1>2, <1>5, <1>6, <2>1, ImportedStraight
  <2>3. Aligned(s.rows) /\ Timed(s.rows, s.mem) /\ s.status # "CLOSED"
    BY <2>2 DEF SessionStraight
  <2>4. Aligned(rows)'
    BY <1>1, <2>3 DEF Aligned, Ordered, Locals, Known1st, KnownIn, Mine
  <2>5. Timed(rows, cycles)'
    BY <1>1, <2>3 DEF Timed, Said
  <2>6. FlightInv'
    BY <1>1, <1>5, <1>6 DEF FlightInv, InFlight
  <2>7. StatusInv'
    BY <1>1, <2>1, <2>3 DEF StatusInv
  <2> QED
    BY <2>4, <2>5, <2>6, <2>7 DEF Straight
<1> QED
  BY <1>3, <1>4, <1>6 DEF HistoryInv

-----------------------------------------------------------------------------
(* The repair: with every message stored under its own date, the rebuilt   *)
(* history is what the messages say.                                       *)

\* What the messages up to a date say.
SaidBy(from, d) == {a \in Said(rows, from) : a <= d}
Tells(B, S, s) ==
    /\ B = {} => s.since = 0 /\ s.done = <<>>
    /\ B # {} => IF s.since # 0 THEN Lasts(B, S, s.since, 0)
                 ELSE /\ s.done # <<>> /\ s.done[Len(s.done)].row.at # 0
                      /\ Lasts(B, S, s.done[Len(s.done)].start, s.done[Len(s.done)].row.at)

LEMMA LastElement == ASSUME NEW T, NEW q \in Seq(T), q # <<>> PROVE q[Len(q)] \in T
<1>1. Len(q) \in DOMAIN q
  OBVIOUS
<1> QED
  BY <1>1, ElementOfSeq

LEMMA SeenTells ==
    ASSUME IInv, NEW s \in ReviewSet, NEW x \in rows, NEW B \in SUBSET Nat, NEW S \in SUBSET Nat,
           B \cap S = {}, \A a \in B \cup S : a < x.at, Tells(B, S, s)
    PROVE  Tells(IF x.from = "buyer" THEN B \cup {x.at} ELSE B,
                 IF x.from = "seller" THEN S \cup {x.at} ELSE S, Seen(s, x))
<1>1. x.at \in Nat /\ x.at # 0 /\ x.from \in {"buyer", "seller", "ebay"} /\ scope.clock \in Nat
  BY ThreadIs, Named DEF IInv, RowSet
<1>2. s.since \in Nat /\ s.done \in Seq([start : 1..scope.clock, row : rows])
  BY <1>1 DEF ReviewSet
<1>3. CASE x.from = "buyer"
  <2>1. CASE s.since = 0
    <3>1. Seen(s, x).since = x.at
      BY <2>1, <1>3 DEF Seen, ReviewSet
    <3>2. B # {} => \E w, e \in Nat : e # 0 /\ Lasts(B, S, w, e)
      <4> SUFFICES ASSUME B # {} PROVE \E w, e \in Nat : e # 0 /\ Lasts(B, S, w, e)
        OBVIOUS
      <4> PICK l : l = s.done[Len(s.done)]
        OBVIOUS
      <4>1. s.done # <<>> /\ l.row.at # 0 /\ Lasts(B, S, l.start, l.row.at)
        BY <2>1 DEF Tells
      <4>3. l \in [start : 1..scope.clock, row : rows]
        BY <4>1, <1>2, LastElement
      <4>4. l.start \in Nat /\ l.row.at \in Nat
        BY <4>3, <1>1, Named DEF IInv, RowSet
      <4> QED
        BY <4>1, <4>4
    <3>3. Lasts(B \cup {x.at}, S, x.at, 0)
      <4>1. CASE B = {}
        BY <4>1, <1>1 DEF Lasts
      <4>2. CASE B # {}
        <5>1. PICK w \in Nat, e \in Nat : e # 0 /\ Lasts(B, S, w, e)
          BY <4>2, <3>2
        <5> QED
          BY <5>1, <1>1, BuyerBegins
      <4> QED
        BY <4>1, <4>2
    <3> QED
      BY <1>1, <1>3, <3>1, <3>3 DEF Tells
  <2>2. CASE s.since # 0
    <3>1. Seen(s, x) = s
      BY <2>2, <1>3 DEF Seen
    <3>2. Lasts(B, S, s.since, 0) /\ s.since \in B
      BY <2>2 DEF Tells, Lasts
    <3>3. Lasts(B \cup {x.at}, S, s.since, 0)
      BY <1>1, <1>2, <3>2, BuyerJoins
    <3> QED
      BY <1>3, <2>2, <3>1, <3>3 DEF Tells
  <2> QED
    BY <2>1, <2>2
<1>4. CASE x.from = "seller"
  <2>1. CASE s.since = 0
    <3>1. Seen(s, x) = s
      BY <2>1, <1>4 DEF Seen
    <3>2. ASSUME B # {}
          PROVE  Lasts(B, S \cup {x.at}, s.done[Len(s.done)].start, s.done[Len(s.done)].row.at)
      <4> PICK l : l = s.done[Len(s.done)]
        OBVIOUS
      <4>1. s.done # <<>> /\ l.row.at # 0 /\ Lasts(B, S, l.start, l.row.at)
        BY <2>1, <3>2 DEF Tells
      <4>3. l \in [start : 1..scope.clock, row : rows]
        BY <4>1, <1>2, LastElement
      <4>4. l.start \in Nat /\ l.row.at \in Nat
        BY <4>3, <1>1, Named DEF IInv, RowSet
      <4>5. Lasts(B, S \cup {x.at}, l.start, l.row.at)
        BY <1>1, <4>1, <4>4, SellerAdds
      <4> QED
        BY <4>5
    <3> QED
      BY <1>4, <2>1, <3>1, <3>2 DEF Tells
  <2>2. CASE s.since # 0
    <3>1. B # {} /\ Lasts(B, S, s.since, 0) /\ s.since \in B
      BY <2>2 DEF Tells, Lasts
    <3>2. x.at > s.since
      BY <1>1, <1>2, <3>1
    <3> PICK l : l = [start |-> s.since, row |-> x]
      OBVIOUS
    <3>3. Seen(s, x) = [since |-> 0, done |-> Append(s.done, l)]
      BY <1>4, <2>2, <3>2 DEF Seen
    <3>4. Append(s.done, l) # <<>> /\ Append(s.done, l)[Len(Append(s.done, l))] = l
      BY <1>2
    <3>5. l.start = s.since /\ l.row.at = x.at
      OBVIOUS
    <3>6. Lasts(B, S \cup {x.at}, s.since, x.at)
      BY <1>1, <1>2, <3>1, SellerCloses
    <3> QED
      BY <1>1, <1>4, <3>1, <3>3, <3>4, <3>5, <3>6 DEF Tells
  <2> QED
    BY <2>1, <2>2
<1>5. CASE x.from = "ebay"
  BY <1>5 DEF Seen
<1> QED
  BY <1>1, <1>3, <1>4, <1>5

LEMMA RebuiltTells ==
    ASSUME IInv, SentDates, RowDates(rows), \A x \in rows : x.ext # 0 /\ thread[x.ext].at = x.at
    PROVE  Tells(Said(rows, "buyer"), Said(rows, "seller"), Rebuilt)
<1>1. /\ clock \in Nat /\ Initial(0..clock) /\ Reviewed[0] = [since |-> 0, done |-> <<>>]
      /\ \A d \in 0..clock : d # 0 => d - 1 \in 0..clock /\ Reviewed[d] = Step(Reviewed[d - 1], d)
      /\ \A d \in 0..clock : Reviewed[d] \in ReviewSet
  BY ReviewedIs
<1>2. \A x \in rows : x.at \in Nat /\ x.at # 0 /\ x.at <= clock /\ x.ext \in DOMAIN thread
  <2>1. \A x \in rows : x.at \in Nat /\ x.at # 0
    BY ThreadIs, Named DEF IInv, RowSet
  <2>2. \A x \in rows : x.ext \in DOMAIN thread
    BY ThreadIs DEF IInv, RowsInv
  <2> QED
    BY <2>1, <2>2 DEF RowDates
<1>3. ASSUME NEW x \in rows, NEW y \in rows, x.at = y.at PROVE x = y
  <2>1. thread[x.ext].at = thread[y.ext].at /\ x.ext \in Nat /\ y.ext \in Nat
    BY <1>2, <1>3, ThreadIs
  <2>2. thread[x.ext].at \in Nat
    BY <1>2, ThreadIs
  <2>3. ~(x.ext < y.ext) /\ ~(y.ext < x.ext)
    BY <1>2, <2>1, <2>2 DEF SentDates
  <2>4. x.ext = y.ext
    BY <2>1, <2>3
  <2> QED
    BY <2>4 DEF IInv, RowsInv
<1> DEFINE D == 0..clock
           Good == {d \in D : Tells(SaidBy("buyer", d), SaidBy("seller", d), Reviewed[d])}
<1>4. 0 \in D => 0 \in Good
  <2>1. \A f : SaidBy(f, 0) = {}
    BY <1>2 DEF SaidBy, Said
  <2> QED
    BY <1>1, <2>1 DEF Tells
<1>5. ASSUME NEW n \in D, n # 0, n - 1 \in Good PROVE n \in Good
  <2> DEFINE B == SaidBy("buyer", n - 1)
             S == SaidBy("seller", n - 1)
  <2>1. /\ Reviewed[n] = Step(Reviewed[n - 1], n) /\ Reviewed[n - 1] \in ReviewSet /\ n - 1 \in D
        /\ Tells(B, S, Reviewed[n - 1]) /\ n \in Nat
    BY <1>1, <1>5
  <2>2. CASE ~ \E x \in rows : x.at = n
    <3>1. \A f : SaidBy(f, n) = SaidBy(f, n - 1)
      BY <1>2, <2>1, <2>2 DEF SaidBy, Said
    <3>2. Reviewed[n] = Reviewed[n - 1]
      BY <2>1, <2>2 DEF Step
    <3> QED
      BY <2>1, <3>1, <3>2
  <2>3. CASE \E x \in rows : x.at = n
    <3>1. PICK x \in rows : x.at = n /\ Reviewed[n] = Seen(Reviewed[n - 1], x)
      <4> PICK x : x = CHOOSE y \in rows : y.at = n
        OBVIOUS
      <4>1. x \in rows /\ x.at = n
        BY <2>3
      <4> QED
        BY <2>1, <2>3, <4>1 DEF Step
    <3>2. \A y \in rows : y.at = n => y = x
      BY <1>3, <3>1
    <3>3. ASSUME NEW f
          PROVE  SaidBy(f, n) = IF x.from = f THEN SaidBy(f, n - 1) \cup {n} ELSE SaidBy(f, n - 1)
      <4>1. \A y \in rows : y.at <= n <=> y.at <= n - 1 \/ y = x
        BY <1>2, <2>1, <3>1, <3>2
      <4>2. \A a : a \in SaidBy(f, n) <=> \E y \in rows : y.from = f /\ y.at = a /\ y.at <= n
        BY DEF SaidBy, Said
      <4>3. \A a : a \in SaidBy(f, n - 1) <=> \E y \in rows : y.from = f /\ y.at = a /\ y.at <= n - 1
        BY DEF SaidBy, Said
      <4>4. \A a : a \in SaidBy(f, n) <=> a \in SaidBy(f, n - 1) \/ (a = n /\ x.from = f)
        BY <3>1, <4>1, <4>2, <4>3
      <4> QED
        BY <4>4
    <3>4. B \in SUBSET Nat /\ S \in SUBSET Nat /\ \A a \in B \cup S : a < x.at
      BY <1>2, <2>1, <3>1 DEF SaidBy, Said
    <3>5. B \cap S = {}
      <4>1. \A y, z \in rows : y.from = "buyer" /\ z.from = "seller" => y.at # z.at
        BY <1>3
      <4> QED
        BY <4>1 DEF SaidBy, Said
    <3>6. Tells(IF x.from = "buyer" THEN B \cup {x.at} ELSE B,
                IF x.from = "seller" THEN S \cup {x.at} ELSE S, Seen(Reviewed[n - 1], x))
      <4> HIDE DEF B, S
      <4> QED
        BY <2>1, <3>4, <3>5, SeenTells
    <3> QED
      BY <3>1, <3>3, <3>6
  <2> QED
    BY <2>2, <2>3
<1>6. D \subseteq Good
  <2> HIDE DEF D, Good
  <2> QED
    BY <1>1, <1>4, <1>5, SetInduction DEF D
<1>7. \A f : SaidBy(f, clock) = Said(rows, f)
  BY <1>2 DEF SaidBy, Said
<1>8. clock \in D
  BY <1>1
<1> QED
  BY <1>6, <1>7, <1>8 DEF Rebuilt

LEMMA ExpectedTimed ==
    ASSUME IInv, SentDates, RowDates(rows), \A x \in rows : x.ext # 0 /\ thread[x.ext].at = x.at
    PROVE  Timed(rows, ExpectedCycles)
<1> PICK done, since : done = Rebuilt.done /\ since = Rebuilt.since
  OBVIOUS
<1> PICK B, S : B = Said(rows, "buyer") /\ S = Said(rows, "seller")
  OBVIOUS
<1> DEFINE e == [start |-> since, end |-> 0, by |-> None]
           Closed(i) == [start |-> done[i].start, end |-> done[i].row.at, by |-> RepliedBy(i, done[i].row)]
           open == IF since = 0 THEN <<>> ELSE <<e>>
<1> PICK closed : closed = [i \in DOMAIN done |-> Closed(i)]
  OBVIOUS
<1>1. Len(done) \in Nat /\ DOMAIN done = 1..Len(done)
  <2>1. done \in Seq([start : 1..scope.clock, row : rows])
    BY ReviewedTyped DEF ReviewSet
  <2> QED
    BY <2>1
<1>2. /\ B = {} => since = 0 /\ done = <<>>
      /\ B # {} => IF since # 0 THEN Lasts(B, S, since, 0)
                   ELSE done # <<>> /\ Lasts(B, S, done[Len(done)].start, done[Len(done)].row.at)
  BY RebuiltTells DEF Tells
<1>3. ExpectedCycles = closed \o open
  BY DEF ExpectedCycles
<1>4. closed \in Seq({Closed(i) : i \in DOMAIN done}) /\ Len(closed) = Len(done)
  <2> DEFINE T == {Closed(i) : i \in DOMAIN done}
             n == Len(done)
  <2> HIDE DEF Closed
  <2>1. closed \in [1..n -> T] /\ n \in Nat
    BY <1>1
  <2> HIDE DEF T, n
  <2>2. closed \in Seq(T) /\ Len(closed) = n
    BY <2>1
  <2> QED
    BY <2>2 DEF T, n
<1>5. CASE since # 0
  <2> HIDE DEF e
  <2>1. ExpectedCycles = closed \o <<e>>
    BY <1>3, <1>5
  <2> HIDE DEF Closed
  <2>2. closed \o <<e>> # <<>> /\ (closed \o <<e>>)[Len(closed \o <<e>>)] = e
    <3> DEFINE T == {Closed(i) : i \in DOMAIN done} \cup {e}
    <3>1. closed \in Seq(T) /\ e \in T
      BY <1>4
    <3> HIDE DEF T
    <3>2. <<e>> \in Seq(T) /\ Len(<<e>>) = 1 /\ <<e>>[1] = e /\ Len(closed) \in Nat
      BY <3>1
    <3>3. Len(closed \o <<e>>) = Len(closed) + 1
          /\ (closed \o <<e>>)[Len(closed) + 1] = <<e>>[1]
      BY <3>1, <3>2
    <3> QED
      BY <3>2, <3>3
  <2>3. e.start = since /\ e.end = 0
    BY DEF e
  <2> QED
    BY <1>2, <1>5, <2>1, <2>2, <2>3 DEF Timed, Follows
<1>6. CASE since = 0
  <2>1. ExpectedCycles = closed
    <3> HIDE DEF Closed
    <3>1. ExpectedCycles = closed \o <<>>
      BY <1>3, <1>6
    <3> QED
      BY <3>1, <1>4
  <2>2. CASE B = {}
    <3>1. closed = <<>>
      <4> HIDE DEF Closed
      <4> QED
        BY <1>2, <1>4, <2>2
    <3> QED
      BY <2>1, <2>2, <3>1 DEF Timed, Follows
  <2>3. CASE B # {}
    <3>1. done # <<>> /\ Lasts(B, S, done[Len(done)].start, done[Len(done)].row.at) /\ Len(done) \in DOMAIN done
      <4>1. done # <<>> /\ Lasts(B, S, done[Len(done)].start, done[Len(done)].row.at)
        BY <1>2, <1>6, <2>3
      <4>2. Len(done) # 0
        <5>1. done \in Seq([start : 1..scope.clock, row : rows])
          BY ReviewedTyped DEF ReviewSet
        <5> QED
          BY <4>1, <5>1
      <4> QED
        BY <4>1, <4>2, <1>1
    <3>2. closed[Len(done)].start = done[Len(done)].start /\ closed[Len(done)].end = done[Len(done)].row.at
      BY <3>1
    <3>3. closed # <<>>
      <4> HIDE DEF Closed
      <4> QED
        BY <1>1, <1>4, <3>1
    <3> QED
      BY <1>4, <2>1, <2>3, <3>1, <3>2, <3>3 DEF Timed, Follows
  <2> QED
    BY <2>2, <2>3
<1> QED
  BY <1>5, <1>6

LEMMA RepairHistory == ASSUME IInv, HistoryInv, Repair PROVE HistoryInv'
<1> PICK n : n = Len(ExpectedCycles)
  OBVIOUS
<1>1. /\ cycles' = ExpectedCycles /\ clock' = clock /\ thread' = thread /\ rows' = rows
      /\ status' = status /\ imp' = imp
      /\ reply' = [r \in Reply |-> [reply[r] EXCEPT !.gone = @ \/ reply[r].cycle > n]]
      /\ entangled' = \/ InFlight # {} \/ imp # None \/ Unknown # {} \/ status = "CLOSED"
                      \/ \E x \in rows : x.ext = 0 \/ thread[x.ext].at # x.at
  BY DEF Repair
<1>2. SentDates /\ RowDates(rows) /\ n \in Nat
  BY ExpectedTyped DEF HistoryInv
<1>3. ASSUME NEW r \in Reply
      PROVE  /\ reply'[r].pc = reply[r].pc /\ reply'[r].answer = reply[r].answer /\ reply'[r].at = reply[r].at
             /\ ReplyDates(reply'[r], clock)
  <2> PICK b \in BOOLEAN : b = (reply[r].gone \/ reply[r].cycle > n)
    OBVIOUS
  <2>1. reply[r] \in ReplySet /\ reply'[r] = [reply[r] EXCEPT !.gone = b]
    BY <1>1 DEF IInv, ReadsInv
  <2>2. /\ reply'[r].pc = reply[r].pc /\ reply'[r].answer = reply[r].answer /\ reply'[r].at = reply[r].at
        /\ reply'[r].cycle = reply[r].cycle /\ reply'[r].gone = b
    BY <2>1 DEF ReplySet
  <2>3. ReplyDates(reply[r], clock)
    BY <1>2 DEF SentDates
  <2>4. reply[r].cycle = 0 /\ ~reply[r].gone => ~b
    <3>1. reply[r].cycle = 0 => ~(reply[r].cycle > n)
      BY <1>2
    <3> QED
      BY ONLY <3>1, b = (reply[r].gone \/ reply[r].cycle > n), Zenon
  <2> QED
    BY <2>2, <2>3, <2>4 DEF ReplyDates
<1>4. SentDates'
  BY <1>1, <1>2, <1>3 DEF SentDates
<1>5. RowDates(rows)'
  BY <1>1, <1>2 DEF RowDates
<1>6. ~entangled' => /\ InFlight = {} /\ imp = None /\ Unknown = {} /\ status # "CLOSED"
                     /\ \A x \in rows : ~(x.ext = 0 \/ thread[x.ext].at # x.at)
  BY ONLY <1>1, Zenon
<1>7. ASSUME ~entangled' PROVE Straight'
  <2>1. InFlight = {} /\ Unknown = {} /\ \A x \in rows : x.ext # 0 /\ thread[x.ext].at = x.at
    BY <1>6, <1>7
  <2>2. \A k \in DOMAIN thread : KnownIn(rows, k)
    BY <2>1 DEF Unknown, KnownIn
  <2>3. \A x \in rows : x.ext \in DOMAIN thread /\ Mine(x) = x.ext
    BY <2>1, ThreadIs DEF IInv, RowsInv, Mine
  <2>4. Aligned(rows)
    <3>1. Ordered(rows)
      BY <1>2, <2>1, <2>3, ThreadIs DEF Ordered, SentDates
    <3> QED
      BY <2>1, <2>2, <3>1 DEF Aligned, Locals, Known1st
  <2>5. Aligned(rows)'
    <3>1. \A x \in rows : Mine(x)' = Mine(x)
      BY <2>1 DEF Mine
    <3>2. \A k : KnownIn(rows, k)' <=> KnownIn(rows, k)
      BY <1>1 DEF KnownIn
    <3> QED
      BY <1>1, <2>4, <3>1, <3>2 DEF Aligned, Ordered, Locals, Known1st
  <2>6. Timed(rows, cycles)'
    <3>1. Timed(rows, ExpectedCycles)
      BY <1>2, <2>1, ExpectedTimed
    <3> QED
      BY <1>1, <3>1 DEF Timed, Said
  <2>7. FlightInv'
    <3>1. InFlight' = {}
      BY <1>3, <2>1 DEF InFlight
    <3> QED
      BY <3>1 DEF FlightInv
  <2>8. StatusInv'
    BY <1>1, <1>6, <1>7 DEF StatusInv
  <2> QED
    BY <2>5, <2>6, <2>7, <2>8 DEF Straight
<1> QED
  BY <1>4, <1>5, <1>7 DEF HistoryInv

-----------------------------------------------------------------------------
LEMMA HistoryStep == IInv /\ HistoryInv /\ [Next]_vars => HistoryInv'
<1> SUFFICES ASSUME IInv, HistoryInv, [Next]_vars PROVE HistoryInv'
  OBVIOUS
<1>1. ASSUME NEW from \in {"buyer", "seller", "ebay"}, Write(from) PROVE HistoryInv'
  BY <1>1, WriteHistory
<1>2. ImportNext => HistoryInv'
  BY LoadHistory, ApplyHistory DEF ImportNext
<1>3. ASSUME NEW r \in Reply, ReplyNext(r) PROVE HistoryInv'
  BY <1>3, SmallReplyHistory, CheckHistory, SendHistory, ReadHistory, CommitHistory DEF ReplyNext
<1>4. UserNext \/ UNCHANGED vars => HistoryInv'
  BY UserHistory
<1>5. Repair => HistoryInv'
  BY RepairHistory
<1> QED
  BY <1>1, <1>2, <1>3, <1>4, <1>5 DEF Next

\* The buyer message that the inbox waits since is the one the last cycle starts with.
LEMMA LatestIs ==
    ASSUME IInv, NEW w \in Nat, NEW e, Lasts(Said(rows, "buyer"), Said(rows, "seller"), w, e)
    PROVE  LatestWait({"seller"}) = w
<1> DEFINE W == Waits({"seller"})
           T == {b.at : b \in W}
<1>1. \A x \in rows : x.at \in Nat
  BY ThreadIs, Named DEF IInv, RowSet
<1>2. /\ w \in Said(rows, "buyer")
      /\ \A a \in Said(rows, "buyer") : a < w => \E s \in Said(rows, "seller") : a < s /\ s < w
      /\ \A b \in Said(rows, "buyer"), s \in Said(rows, "seller") : ~(w < s /\ s < b)
  BY DEF Lasts
<1>3. \A a, b : Between({"seller"}, a, b) <=> \E s \in Said(rows, "seller") : a < s /\ s < b
  BY DEF Between, Said
<1>4. PICK x \in Buyers : x.at = w
  BY <1>2 DEF Said, Buyers
<1>5. \A a \in Buyers : a.at \in Said(rows, "buyer") /\ a.at \in Nat
  BY <1>1 DEF Said, Buyers
<1>6. w \in T
  BY <1>2, <1>3, <1>4, <1>5 DEF Waits
<1>7. ASSUME NEW t \in T PROVE t \in Nat /\ t <= w
  <2>1. PICK b \in W : b.at = t
    OBVIOUS
  <2>2. b \in Buyers /\ (x.at < b.at => Between({"seller"}, x.at, b.at))
    BY <2>1, <1>4 DEF Waits
  <2>3. ~(w < t)
    BY <2>1, <2>2, <1>2, <1>3, <1>4, <1>5
  <2> QED
    BY <2>1, <2>2, <2>3, <1>5
<1> HIDE DEF T
<1>8. \E y \in T : \A z \in T : y >= z
  BY <1>6, <1>7
<1>9. Max(T) \in T /\ \A z \in T : Max(T) >= z
  BY <1>8 DEF Max
<1>10. Max(T) = w
  <2> PICK m : m = Max(T)
    OBVIOUS
  <2>1. m \in Nat /\ m <= w /\ m >= w
    BY <1>6, <1>7, <1>9
  <2> QED
    BY <2>1
<1> QED
  BY <1>10 DEF LatestWait, T

LEMMA HistoryFollows == IInv /\ HistoryInv => SlaFollowsThread
<1> SUFFICES ASSUME IInv, HistoryInv PROVE SlaFollowsThread
  OBVIOUS
<1>1. OpenCycles \subseteq {Len(cycles)}
  BY DEF IInv, CyclesInv
<1> SUFFICES ASSUME ~entangled
             PROVE  /\ OpenCycles # {} <=> Waiting({"seller"})
                    /\ Buyers # {} => /\ cycles # <<>>
                                      /\ cycles[Len(cycles)].start = LatestWait({"seller"})
                                      /\ \A x \in rows : x.from = "seller" /\ x.at > cycles[Len(cycles)].start
                                            => cycles[Len(cycles)].end <= x.at
  BY <1>1 DEF SlaFollowsThread
<1>2. /\ Timed(rows, cycles) /\ cycles \in Seq(CycleSet) /\ scope.clock \in Nat /\ clock <= scope.clock
      /\ clock \in Nat /\ \A x \in rows : x.at \in Nat /\ x.at <= clock
  <2>1. \A x \in rows : x.at \in Nat
    BY ThreadIs, Named DEF IInv, RowSet
  <2> QED
    BY <2>1, ThreadIs DEF HistoryInv, Straight, IInv, TypeOK, CycleSet, RowDates
<1>3. Buyers # {} <=> Said(rows, "buyer") # {}
  BY DEF Buyers, Said
<1>4. CASE Buyers = {}
  <2>1. cycles = <<>>
    BY <1>2, <1>3, <1>4 DEF Timed, Follows
  <2>2. OpenCycles = {}
    BY <2>1 DEF OpenCycles
  <2> QED
    BY <2>2, <1>4 DEF Waiting
<1>5. CASE Buyers # {}
  <2> PICK w, e : w = cycles[Len(cycles)].start /\ e = cycles[Len(cycles)].end
    OBVIOUS
  <2>1. /\ cycles # <<>> /\ Len(cycles) \in DOMAIN cycles /\ w \in Nat /\ e \in Nat
        /\ Lasts(Said(rows, "buyer"), Said(rows, "seller"), w, e)
    BY <1>2, <1>3, <1>5, LastIs
  <2>2. LatestWait({"seller"}) = w
    BY <2>1, LatestIs
  <2>3. OpenCycles # {} <=> e = 0
    BY <1>1, <2>1 DEF OpenCycles
  <2>4. Between({"seller"}, w, scope.clock + 1) <=> \E s \in Said(rows, "seller") : w < s
    <3>1. \A x \in rows : x.at < scope.clock + 1
      BY <1>2
    <3> QED
      BY <3>1 DEF Between, Said
  <2>5. Waiting({"seller"}) <=> e = 0
    BY <1>5, <2>1, <2>2, <2>4 DEF Waiting, Lasts
  <2>6. ASSUME NEW x \in rows, x.from = "seller", x.at > w PROVE e <= x.at
    <3>1. x.at \in Said(rows, "seller") /\ w < x.at
      BY <1>2, <2>1, <2>6 DEF Said
    <3> QED
      BY <1>2, <2>1, <3>1 DEF Lasts
  <2> QED
    BY <2>1, <2>2, <2>3, <2>5, <2>6
<1> QED
  BY <1>4, <1>5

\* As long as every import met at most one unknown message and no reply under way, or
\* once the repair ran on eBay's dates, a cycle is open exactly while a buyer waits,
\* since the first message he waits for an answer to, and the first answer closed it.
THEOREM HistoryFollowsThread == Spec => []SlaFollowsThread
<1>1. Spec => []IInv
  BY Invariance
<1>2. Spec => []HistoryInv
  <2>1. Init => HistoryInv
    BY InitHistory
  <2>2. IInv /\ HistoryInv /\ [Next]_vars => HistoryInv'
    BY HistoryStep
  <2> QED
    BY <1>1, <2>1, <2>2, PTL DEF Spec
<1>3. IInv /\ HistoryInv => SlaFollowsThread
  BY HistoryFollows
<1> QED
  BY <1>1, <1>2, <1>3, PTL
=============================================================================
