---------------------------- MODULE InboxProofs ----------------------------
(***************************************************************************)
(* The records of a conversation are true, and a reply is stored once, for *)
(* any number of replies, agents and messages, and for imports of any      *)
(* number of messages at once.                                             *)
(***************************************************************************)
EXTENDS Inbox, Induction, FiniteSetTheorems, SequenceTheorems

MessageSet == [from : {"buyer", "seller", "ebay"}, at : 1..scope.clock,
               reply : Reply \cup {None}, body : {BodyOf[r] : r \in Reply} \cup {"other"}]
RowSet == [ext : 0..scope.thread, at : 1..scope.clock, reply : Reply \cup {None},
           from : {"buyer", "seller", "ebay"}]
CycleSet == [start : 1..scope.clock, end : 0..scope.clock, by : Agent \cup {None}]
HolderSet == [who : Agent, no : 1..scope.assigns]
ReplySet == [pc : {"idle", "clicked", "ready", "answered", "read", "stored", "done"},
             at : 0..scope.clock, status : Statuses,
             answer : [msg : 0..scope.thread, id : BOOLEAN], cycle : Nat, row : BOOLEAN,
             holder : HolderSet \cup {None}, gone : BOOLEAN]

\* What the model's type invariant leaves open: what requests and the import have read.
ReadsInv ==
    /\ scope \in Scopes
    /\ imp \in {None} \cup [upto : 1..Len(thread), status : Statuses]
    /\ assigner \in {None} \cup [who : Agent, old : HolderSet \cup {None}]
    /\ reply \in [Reply -> ReplySet]
    /\ \A r \in Reply : reply[r].pc \notin {"idle", "clicked", "done"} => reply[r].at > 0

\* A message of a reply is where the reply's answer says, and it was sent once.
SentInv ==
    /\ \A k \in DOMAIN thread : thread[k].reply # None =>
         LET r == thread[k].reply
         IN  /\ thread[k].body = BodyOf[r]
             /\ reply[r].pc \in {"answered", "read", "stored", "done"}
             /\ reply[r].answer.msg = k
    /\ \A r \in Reply :
         /\ reply[r].pc \in {"answered", "read", "stored"} =>
              reply[r].answer.msg \in DOMAIN thread /\ thread[reply[r].answer.msg].reply = r
         /\ reply[r].pc = "read" /\ reply[r].row => reply[r].answer.id

\* A stored message has an identifier or is a reply that was sent; no two have the
\* same identifier or are the same reply.
RowsInv(rs) ==
    /\ \A x \in rs :
         /\ x.ext \in 0..Len(thread)
         /\ x.reply = None => x.ext # 0
         /\ x.reply # None =>
              /\ reply[x.reply].pc \in {"stored", "done"} /\ Delivered(x.reply)
              /\ x.ext # 0 => thread[x.ext].body = BodyOf[x.reply]
              /\ reply[x.reply].answer.id => x.ext = reply[x.reply].answer.msg
    /\ \A x, y \in rs : (x.ext = y.ext /\ x.ext # 0) \/ (x.reply = y.reply /\ x.reply # None) => x = y

\* The audit trail is true, and a reply about to be confirmed has a row of its text.
Worded(rs, r) == \E x \in rs : x.reply # None /\ BodyOf[x.reply] = BodyOf[r]
AuditInv ==
    \A r \in Reply :
        /\ reply[r].pc = "stored" \/ attempt[r] = "SUCCESS" => Worded(rows, r)
        /\ attempt[r] = "SUCCESS" => Delivered(r)
        /\ attempt[r] = "FAILED" => reply[r].pc = "done" /\ ~Delivered(r)

\* Agents are credited for what eBay accepted; only the last cycle may be open.
Credited(by) == by # None => \E r \in Reply : AgentOf[r] = by /\ Delivered(r)
CyclesInv ==
    /\ \A i \in DOMAIN cycles : Credited(cycles[i].by)
    /\ OpenCycles \subseteq {Len(cycles)}

IInv == TypeOK /\ ReadsInv /\ SentInv /\ RowsInv(rows) /\ AuditInv /\ CyclesInv
-----------------------------------------------------------------------------
LEMMA ScopeBounds ==
    ASSUME scope \in Scopes
    PROVE  /\ scope.thread \in Nat /\ scope.clock \in Nat /\ scope.assigns \in Nat
           /\ scope.replies \subseteq Reply /\ scope.statuses \subseteq Statuses
BY ScopeAssumption DEF Statuses

\* The initial states satisfy the invariant.
LEMMA InitInv == Init => IInv
<1> SUFFICES ASSUME Init PROVE IInv
  OBVIOUS
<1>1. scope.thread \in Nat /\ scope.clock \in Nat /\ scope.assigns \in Nat
  BY ScopeBounds DEF Init
<1>2. Fresh \in ReplySet
  BY <1>1 DEF Fresh, ReplySet, NoAnswer, Statuses
<1>3. TypeOK
  <2>1. \A r \in Reply : reply[r].pc # "read"
    BY DEF Init, Fresh
  <2>2. thread = <<>> /\ cycles = <<>> /\ Len(thread) = 0
    BY DEF Init
  <2>3. holders = {} /\ rows = {} /\ assigns = 0 /\ clock = 0 /\ 0 \in 0..scope.assigns /\ 0 \in 0..scope.clock
    BY <1>1 DEF Init
  <2>4. attempt \in [Reply -> {"NONE", "ATTEMPTED", "SUCCESS", "FAILED"}]
    BY DEF Init
  <2>5. status \in Statuses /\ owned \in BOOLEAN /\ entangled \in BOOLEAN
    BY DEF Init, Statuses
  <2>6. \A S : thread \in Seq(S) /\ cycles \in Seq(S)
    BY <2>2
  <2> QED
    BY <1>1, <2>1, <2>2, <2>3, <2>4, <2>5, <2>6 DEF TypeOK
<1>4. ReadsInv
  BY <1>2 DEF Init, ReadsInv, Fresh
<1>5. SentInv
  BY DEF Init, SentInv, Fresh
<1>6. RowsInv(rows) /\ AuditInv /\ CyclesInv
  BY DEF Init, RowsInv, AuditInv, CyclesInv, OpenCycles, Fresh
<1> QED
  BY <1>3, <1>4, <1>5, <1>6 DEF IInv

-----------------------------------------------------------------------------
(* Steps of a reply that leave eBay, the stored messages and the cycles alone. *)

\* Where a reply without a new answer may stand after a step.
Moves(r, e) ==
    /\ e \in ReplySet /\ e.answer = reply[r].answer
    /\ reply[r].pc \in {"answered", "read", "stored", "done"} =>
         e.pc \in {"answered", "read", "stored", "done"}
    /\ e.pc \in {"answered", "read", "stored"} => reply[r].pc \in {"answered", "read", "stored"}
    /\ reply[r].pc \in {"stored", "done"} => e.pc \in {"stored", "done"}
    /\ e.pc = "read" /\ e.row => e.answer.id
    /\ e.pc = "read" /\ ~e.gone => e.cycle \in 0..Len(cycles)
    /\ e.pc \notin {"idle", "clicked", "done"} => e.at > 0

\* What the audit trail may say of a reply.
Audited(r, pc, said) ==
    /\ pc = "stored" \/ said = "SUCCESS" => Worded(rows, r)
    /\ said = "SUCCESS" => Delivered(r)
    /\ said = "FAILED" => pc = "done" /\ ~Delivered(r)

\* The thread's messages and the rows name replies.
LEMMA Named ==
    ASSUME TypeOK
    PROVE  /\ \A k \in DOMAIN thread : thread[k] \in MessageSet
           /\ \A k \in DOMAIN thread : thread[k].reply # None => thread[k].reply \in Reply
           /\ \A x \in rows : x \in RowSet /\ (x.reply # None => x.reply \in Reply)
<1>1. thread \in Seq(MessageSet) /\ rows \subseteq RowSet
  BY DEF TypeOK, MessageSet, RowSet
<1>2. \A k \in DOMAIN thread : thread[k] \in MessageSet
  BY <1>1, ElementOfSeq
<1> QED
  BY <1>1, <1>2 DEF MessageSet, RowSet

LEMMA ReplyMoves ==
    ASSUME IInv, NEW r \in Reply, NEW e, NEW said \in {"NONE", "ATTEMPTED", "SUCCESS", "FAILED"},
           UNCHANGED <<thread, rows, cycles, status, holders, assigns, others>>,
           clock' \in 0..scope.clock, entangled' \in BOOLEAN,
           reply' = [reply EXCEPT ![r] = e], attempt' = [attempt EXCEPT ![r] = said],
           Moves(r, e), Audited(r, e.pc, said)
    PROVE  IInv'
<1>1. scope' = scope /\ imp' = imp /\ assigner' = assigner /\ owned' = owned /\ status' = status
      /\ thread' = thread /\ rows' = rows /\ cycles' = cycles /\ holders' = holders /\ assigns' = assigns
  BY DEF others
<1>2. reply \in [Reply -> ReplySet] /\ e \in ReplySet
  BY DEF IInv, ReadsInv, Moves
<1>3. reply' \in [Reply -> ReplySet] /\ ReplySet' = ReplySet
  BY <1>1, <1>2 DEF ReplySet, HolderSet
<1>4. /\ reply'[r] = e
      /\ \A q \in Reply : q # r => reply'[q] = reply[q]
  BY <1>2
<1>5. attempt'[r] = said /\ \A q \in Reply : q # r => attempt'[q] = attempt[q]
  BY DEF IInv, TypeOK
<1>6. TypeOK'
  <2>1. attempt' \in [Reply -> {"NONE", "ATTEMPTED", "SUCCESS", "FAILED"}]
    BY DEF IInv, TypeOK
  <2>2. \A q \in Reply : reply'[q].pc = "read" /\ ~reply'[q].gone => reply'[q].cycle \in 0..Len(cycles)
    BY <1>4 DEF IInv, TypeOK, Moves
  <2> QED
    BY <1>1, <2>1, <2>2 DEF IInv, TypeOK
<1>7. ReadsInv'
  <2>1. \A q \in Reply : reply'[q].pc \notin {"idle", "clicked", "done"} => reply'[q].at > 0
    BY <1>4 DEF IInv, ReadsInv, Moves
  <2> QED
    BY <1>1, <1>3, <2>1 DEF IInv, ReadsInv, HolderSet
<1>8. SentInv'
  <2>1. ASSUME NEW k \in DOMAIN thread, thread[k].reply # None
        PROVE  LET q == thread[k].reply
               IN  /\ thread[k].body = BodyOf[q]
                   /\ reply'[q].pc \in {"answered", "read", "stored", "done"}
                   /\ reply'[q].answer.msg = k
    BY <2>1, <1>4, Named DEF IInv, SentInv, Moves
  <2>2. ASSUME NEW q \in Reply
        PROVE  /\ reply'[q].pc \in {"answered", "read", "stored"} =>
                    reply'[q].answer.msg \in DOMAIN thread /\ thread[reply'[q].answer.msg].reply = q
               /\ reply'[q].pc = "read" /\ reply'[q].row => reply'[q].answer.id
    BY <2>2, <1>4 DEF IInv, SentInv, Moves
  <2> QED
    BY <1>1, <2>1, <2>2 DEF SentInv
<1>9. RowsInv(rows)'
  <2>1. ASSUME NEW x \in rows, x.reply # None
        PROVE  /\ reply'[x.reply].pc \in {"stored", "done"}
               /\ reply'[x.reply].answer = reply[x.reply].answer
    BY <2>1, <1>4, Named DEF IInv, RowsInv, Moves
  <2>2. \A q : Delivered(q)' <=> Delivered(q)
    BY <1>1 DEF Delivered
  <2> QED
    BY <1>1, <2>1, <2>2 DEF IInv, RowsInv
<1>10. AuditInv'
  <2>1. \A q : (Delivered(q)' <=> Delivered(q)) /\ (Worded(rows, q)' <=> Worded(rows, q))
    BY <1>1 DEF Delivered, Worded
  <2>2. ASSUME NEW q \in Reply
        PROVE  /\ reply'[q].pc = "stored" \/ attempt'[q] = "SUCCESS" => Worded(rows, q)
               /\ attempt'[q] = "SUCCESS" => Delivered(q)
               /\ attempt'[q] = "FAILED" => reply'[q].pc = "done" /\ ~Delivered(q)
    BY <1>4, <1>5 DEF IInv, AuditInv, Audited
  <2> QED
    BY <2>1, <2>2 DEF AuditInv
<1>11. CyclesInv'
  BY <1>1 DEF IInv, CyclesInv, Credited, Delivered, OpenCycles
<1> QED
  BY <1>6, <1>7, <1>8, <1>9, <1>10, <1>11 DEF IInv

\* The greatest of a set of positions, or zero.
LEMMA MaxPosition ==
    ASSUME NEW n \in Nat, NEW T \in SUBSET (1..n)
    PROVE  Max({0} \cup T) \in {0} \cup T /\ \A k \in T : k <= Max({0} \cup T)
<1> DEFINE U == {0} \cup T
<1>1. U \in SUBSET Nat /\ U # {} /\ \A y \in U : y <= n
  OBVIOUS
<1> HIDE DEF U
<1>2. \E x \in U : \A y \in U : y <= x
  BY <1>1, GreatestElement
<1>3. Max(U) \in U /\ \A y \in U : Max(U) >= y
  BY <1>2, <1>1 DEF Max
<1> QED
  BY <1>1, <1>3 DEF U

LEMMA AnsweredPosition ==
    ASSUME NEW cs, NEW S, cs \in Seq(S), NEW at
    PROVE  /\ Answered(cs, at) \in 0..Len(cs)
           /\ Answered(cs, at) # 0 => Answered(cs, at) \in DOMAIN cs /\ cs[Answered(cs, at)].end = 0
<1> DEFINE T == {i \in DOMAIN cs : cs[i].end = 0 /\ cs[i].start < at}
<1>1. Len(cs) \in Nat /\ T \in SUBSET (1..Len(cs)) /\ DOMAIN cs = 1..Len(cs)
  OBVIOUS
<1>2. Answered(cs, at) = Max({0} \cup T)
  BY DEF Answered
<1>3. Max({0} \cup T) \in {0} \cup T
  BY <1>1, MaxPosition
<1> QED
  BY <1>1, <1>2, <1>3

\* The open assignment made last exists.
LEMMA CurrentHolderTyped ==
    ASSUME holders \subseteq HolderSet, scope \in Scopes
    PROVE  CurrentHolder \in HolderSet \cup {None}
<1>1. CASE holders = {}
  BY <1>1 DEF CurrentHolder
<1>2. CASE holders # {}
  <2> DEFINE T == {h.no : h \in holders}
  <2>1. T \in SUBSET Nat /\ T # {} /\ scope.assigns \in Nat /\ \A y \in T : y <= scope.assigns
    BY <1>2, ScopeBounds DEF HolderSet
  <2>2. PICK x \in T : \A y \in T : y <= x
    BY <2>1, GreatestElement
  <2>3. \E h \in holders : \A g \in holders : g.no <= h.no
    BY <2>2
  <2> QED
    BY <1>2, <2>3 DEF CurrentHolder
<1> QED
  BY <1>1, <1>2

LEMMA ClickInv == ASSUME IInv, NEW r \in Reply, ReplyClick(r) PROVE IInv'
<1> DEFINE e == [reply[r] EXCEPT !.pc = "clicked"]
<1>1. reply[r] \in ReplySet /\ reply[r].pc = "idle"
  BY DEF IInv, ReadsInv, ReplyClick
<1>2. Moves(r, e)
  BY <1>1 DEF Moves, ReplySet
<1>4. Audited(r, e.pc, "ATTEMPTED")
  BY <1>1 DEF Audited
<1> HIDE DEF e
<1>5. reply' = [reply EXCEPT ![r] = e] /\ clock' \in 0..scope.clock /\ entangled' \in BOOLEAN
  BY DEF ReplyClick, IInv, TypeOK, e
<1> QED
  BY <1>2, <1>4, <1>5, ReplyMoves DEF ReplyClick

LEMMA CheckInv == ASSUME IInv, NEW r \in Reply, ReplyCheck(r) PROVE IInv'
<1> DEFINE e == [reply[r] EXCEPT !.pc = "ready", !.at = clock + 1, !.status = status]
<1>1. reply[r] \in ReplySet /\ reply[r].pc = "clicked"
  BY DEF IInv, ReadsInv, ReplyCheck
<1>6. clock + 1 \in 0..scope.clock /\ clock + 1 > 0 /\ status \in Statuses
  BY ScopeBounds DEF IInv, TypeOK, ReadsInv, ReplyCheck
<1>7. Audited(r, "clicked", attempt[r])
  BY <1>1 DEF IInv, AuditInv, Audited
<1>2. Moves(r, e)
  <2>1. e \in ReplySet
    BY <1>1, <1>6 DEF ReplySet
  <2>2. e.pc = "ready" /\ e.answer = reply[r].answer /\ e.at = clock + 1
    BY <1>1 DEF ReplySet
  <2> HIDE DEF e
  <2> QED
    BY <1>1, <1>6, <2>1, <2>2 DEF Moves
<1>3. attempt[r] \in {"NONE", "ATTEMPTED", "SUCCESS", "FAILED"} /\ attempt' = [attempt EXCEPT ![r] = attempt[r]]
  BY DEF IInv, TypeOK, ReplyCheck
<1>4. Audited(r, e.pc, attempt[r])
  BY <1>1, <1>7 DEF Audited
<1>5. reply' = [reply EXCEPT ![r] = e] /\ clock' \in 0..scope.clock /\ entangled' \in BOOLEAN
  <2>1. reply' = [reply EXCEPT ![r] = e]
    BY DEF ReplyCheck
  <2>2. clock' \in 0..scope.clock
    BY <1>6 DEF ReplyCheck
  <2>3. entangled' \in BOOLEAN
    BY DEF ReplyCheck, IInv, TypeOK
  <2> QED
    BY <2>1, <2>2, <2>3
<1> HIDE DEF e
<1> QED
  BY <1>2, <1>3, <1>4, <1>5, ReplyMoves DEF ReplyCheck

LEMMA EndsInv == ASSUME IInv, NEW r \in Reply, ReplyEnds(r) PROVE IInv'
<1> DEFINE e == [reply[r] EXCEPT !.pc = "done"]
<1>1. reply[r] \in ReplySet /\ reply[r].pc \notin {"idle", "done"}
  BY DEF IInv, ReadsInv, ReplyEnds
<1>7. Audited(r, reply[r].pc, attempt[r])
  BY <1>1 DEF IInv, AuditInv, Audited
<1>2. Moves(r, e)
  BY <1>1 DEF Moves, ReplySet
<1>3. attempt[r] \in {"NONE", "ATTEMPTED", "SUCCESS", "FAILED"} /\ attempt' = [attempt EXCEPT ![r] = attempt[r]]
  BY DEF IInv, TypeOK, ReplyEnds
<1>4. Audited(r, e.pc, attempt[r])
  BY <1>1, <1>7 DEF Audited
<1>5. reply' = [reply EXCEPT ![r] = e] /\ clock' \in 0..scope.clock /\ entangled' \in BOOLEAN
  BY DEF ReplyEnds, IInv, TypeOK
<1> HIDE DEF e
<1> QED
  BY <1>2, <1>3, <1>4, <1>5, ReplyMoves DEF ReplyEnds

LEMMA RejectedInv == ASSUME IInv, NEW r \in Reply, ReplyRejected(r) PROVE IInv'
<1> DEFINE e == [reply[r] EXCEPT !.pc = AfterRejection]
<1>1. reply[r] \in ReplySet /\ reply[r].pc = "ready" /\ AfterRejection = "done"
  BY DEF IInv, ReadsInv, ReplyRejected, AfterRejection
<1>7. ~Delivered(r)
  BY <1>1, Named, AgentAssumption DEF IInv, SentInv, Delivered
<1>2. Moves(r, e)
  BY <1>1 DEF Moves, ReplySet
<1>3. attempt[r] \in {"NONE", "ATTEMPTED", "SUCCESS", "FAILED"} /\ attempt' = [attempt EXCEPT ![r] = "FAILED"]
  BY DEF IInv, TypeOK, ReplyRejected
<1>4. Audited(r, e.pc, "FAILED")
  BY <1>1, <1>7 DEF Audited
<1>5. reply' = [reply EXCEPT ![r] = e] /\ clock' \in 0..scope.clock /\ entangled' \in BOOLEAN
  BY DEF ReplyRejected, IInv, TypeOK
<1> HIDE DEF e
<1> QED
  BY <1>2, <1>3, <1>4, <1>5, ReplyMoves DEF ReplyRejected

LEMMA ReadInv == ASSUME IInv, NEW r \in Reply, ReplyRead(r) PROVE IInv'
<1> DEFINE e == [reply[r] EXCEPT !.pc = "read",
                    !.row = reply[r].answer.id /\ \E x \in rows : x.ext = reply[r].answer.msg,
                    !.cycle = Answered(cycles, reply[r].at),
                    !.holder = CurrentHolder]
<1>1. reply[r] \in ReplySet /\ reply[r].pc = "answered"
  BY DEF IInv, ReadsInv, ReplyRead
<1>6. CurrentHolder \in HolderSet \cup {None} /\ Answered(cycles, reply[r].at) \in 0..Len(cycles)
  BY CurrentHolderTyped, AnsweredPosition DEF IInv, TypeOK, ReadsInv, HolderSet
<1>7. Audited(r, "answered", attempt[r])
  BY <1>1 DEF IInv, AuditInv, Audited
<1>8. Answered(cycles, reply[r].at) \in Nat /\ reply[r].answer.id \in BOOLEAN /\ reply[r].at > 0
  BY <1>1, <1>6 DEF ReplySet, IInv, ReadsInv
<1>2. Moves(r, e)
  BY <1>1, <1>6, <1>8 DEF Moves, ReplySet
<1>3. attempt[r] \in {"NONE", "ATTEMPTED", "SUCCESS", "FAILED"} /\ attempt' = [attempt EXCEPT ![r] = attempt[r]]
  BY DEF IInv, TypeOK, ReplyRead
<1>4. Audited(r, e.pc, attempt[r])
  BY <1>1, <1>7 DEF Audited
<1>5. reply' = [reply EXCEPT ![r] = e] /\ clock' \in 0..scope.clock /\ entangled' \in BOOLEAN
  BY DEF ReplyRead, IInv, TypeOK
<1> HIDE DEF e
<1> QED
  BY <1>2, <1>3, <1>4, <1>5, ReplyMoves DEF ReplyRead

LEMMA CollidesInv == ASSUME IInv, NEW r \in Reply, ReplyCollides(r) PROVE IInv'
<1> DEFINE e == [reply[r] EXCEPT !.pc = "done"]
<1>1. reply[r] \in ReplySet /\ reply[r].pc = "read"
  BY DEF IInv, ReadsInv, ReplyCollides
<1>7. Audited(r, reply[r].pc, attempt[r])
  BY <1>1 DEF IInv, AuditInv, Audited
<1>2. Moves(r, e)
  BY <1>1 DEF Moves, ReplySet
<1>3. attempt[r] \in {"NONE", "ATTEMPTED", "SUCCESS", "FAILED"} /\ attempt' = [attempt EXCEPT ![r] = attempt[r]]
  BY DEF IInv, TypeOK, ReplyCollides
<1>4. Audited(r, e.pc, attempt[r])
  BY <1>1, <1>7 DEF Audited
<1>5. reply' = [reply EXCEPT ![r] = e] /\ clock' \in 0..scope.clock /\ entangled' \in BOOLEAN
  BY DEF ReplyCollides, IInv, TypeOK
<1> HIDE DEF e
<1> QED
  BY <1>2, <1>3, <1>4, <1>5, ReplyMoves DEF ReplyCollides

LEMMA ConfirmInv == ASSUME IInv, NEW r \in Reply, ReplyConfirm(r) PROVE IInv'
<1> DEFINE e == [reply[r] EXCEPT !.pc = "done"]
<1>1. reply[r] \in ReplySet /\ reply[r].pc = "stored"
  BY DEF IInv, ReadsInv, ReplyConfirm, Confirmable
<1>7. Worded(rows, r) /\ Delivered(r)
  BY <1>1 DEF IInv, AuditInv, SentInv, Delivered
<1>2. Moves(r, e)
  BY <1>1 DEF Moves, ReplySet
<1>3. attempt[r] \in {"NONE", "ATTEMPTED", "SUCCESS", "FAILED"} /\ attempt' = [attempt EXCEPT ![r] = "SUCCESS"]
  BY DEF IInv, TypeOK, ReplyConfirm
<1>4. Audited(r, e.pc, "SUCCESS")
  BY <1>1, <1>7 DEF Audited
<1>5. reply' = [reply EXCEPT ![r] = e] /\ clock' \in 0..scope.clock /\ entangled' \in BOOLEAN
  BY DEF ReplyConfirm, IInv, TypeOK
<1> HIDE DEF e
<1> QED
  BY <1>2, <1>3, <1>4, <1>5, ReplyMoves DEF ReplyConfirm
-----------------------------------------------------------------------------
(* Steps of eBay: the thread gets a message. *)

LEMMA Grows ==
    ASSUME IInv, NEW m \in MessageSet, thread' = Append(thread, m), Len(thread) < scope.thread
    PROVE  /\ thread' \in Seq(MessageSet) /\ Len(thread) \in Nat
           /\ Len(thread') = Len(thread) + 1 /\ Len(thread') <= scope.thread
           /\ DOMAIN thread' = DOMAIN thread \cup {Len(thread) + 1}
           /\ DOMAIN thread = 1..Len(thread)
           /\ \A k \in DOMAIN thread : thread'[k] = thread[k]
           /\ thread'[Len(thread) + 1] = m
           /\ \A q : Delivered(q) => Delivered(q)'
           /\ \A q : Delivered(q)' => Delivered(q) \/ q = m.reply
<1>1. thread \in Seq(MessageSet) /\ scope.thread \in Nat
  BY ScopeBounds DEF IInv, TypeOK, ReadsInv, MessageSet
<1>2. /\ thread' \in Seq(MessageSet) /\ Len(thread) \in Nat
      /\ Len(thread') = Len(thread) + 1 /\ DOMAIN thread = 1..Len(thread)
      /\ DOMAIN thread' = 1..Len(thread) + 1
      /\ \A k \in 1..Len(thread) : thread'[k] = thread[k]
      /\ thread'[Len(thread) + 1] = m
  BY <1>1
<1>3. DOMAIN thread' = DOMAIN thread \cup {Len(thread) + 1}
  BY <1>2
<1>4. \A q : Delivered(q) => Delivered(q)'
  BY <1>2, <1>3 DEF Delivered
<1>5. \A q : Delivered(q)' => Delivered(q) \/ q = m.reply
  BY <1>2, <1>3 DEF Delivered
<1> QED
  BY <1>1, <1>2, <1>3, <1>4, <1>5

LEMMA GrownTypeOK ==
    ASSUME IInv, NEW m \in MessageSet, thread' = Append(thread, m), Len(thread) < scope.thread,
           clock < scope.clock, clock' = clock + 1, entangled' \in BOOLEAN,
           UNCHANGED <<rows, cycles, status, owned, holders, assigns, attempt, scope>>,
           \A q \in Reply : reply'[q].pc = "read" =>
               reply[q].pc = "read" /\ reply'[q].gone = reply[q].gone /\ reply'[q].cycle = reply[q].cycle
    PROVE  TypeOK' /\ CyclesInv'
<1>1. thread' \in Seq(MessageSet) /\ Len(thread') <= scope.thread
  BY Grows
<1>2. clock' \in 0..scope.clock
  BY ScopeBounds DEF IInv, TypeOK, ReadsInv
<1>3. \A q \in Reply : reply'[q].pc = "read" /\ ~reply'[q].gone => reply'[q].cycle \in 0..Len(cycles)
  BY DEF IInv, TypeOK
<1>4. TypeOK'
  BY <1>1, <1>2, <1>3 DEF IInv, TypeOK, MessageSet
<1>5. \A q : Delivered(q) => Delivered(q)'
  BY Grows
<1>6. CyclesInv'
  BY <1>5 DEF IInv, CyclesInv, Credited, OpenCycles
<1> QED
  BY <1>4, <1>6

LEMMA WriteInv == ASSUME IInv, NEW from \in {"buyer", "seller", "ebay"}, Write(from) PROVE IInv'
<1> DEFINE m == Listed(from, None, "other")
<1>1. /\ thread' = Append(thread, m) /\ Len(thread) < scope.thread
      /\ clock < scope.clock /\ clock' = clock + 1 /\ entangled' \in BOOLEAN
      /\ UNCHANGED <<rows, cycles, status, owned, holders, assigns, attempt, reply, imp, assigner, scope>>
  BY DEF Write, IInv, TypeOK
<1>2. m \in MessageSet /\ m.reply = None
  BY <1>1, ScopeBounds DEF MessageSet, Listed, IInv, TypeOK, ReadsInv
<1> HIDE DEF m
<1>3. TypeOK' /\ CyclesInv'
  BY <1>1, <1>2, GrownTypeOK
<1>4. /\ Len(thread) \in Nat /\ Len(thread') = Len(thread) + 1
      /\ DOMAIN thread' = DOMAIN thread \cup {Len(thread) + 1} /\ DOMAIN thread = 1..Len(thread)
      /\ \A k \in DOMAIN thread : thread'[k] = thread[k]
      /\ thread'[Len(thread) + 1] = m
      /\ \A q : Delivered(q) => Delivered(q)'
      /\ \A q : Delivered(q)' => Delivered(q) \/ q = None
  BY <1>1, <1>2, Grows
<1>5. ReadsInv'
  BY <1>1, <1>4 DEF IInv, ReadsInv, ReplySet, HolderSet
<1>6. SentInv'
  BY <1>1, <1>2, <1>4 DEF IInv, SentInv
<1>7. RowsInv(rows)'
  <2>1. \A x \in rows : x.ext \in 0..Len(thread) /\ (x.ext # 0 => x.ext \in DOMAIN thread)
    BY <1>4 DEF IInv, RowsInv
  <2>2. \A x \in rows : x.ext \in 0..Len(thread')
    BY <2>1, <1>4
  <2> QED
    BY <1>1, <1>4, <2>1, <2>2 DEF IInv, RowsInv
<1>8. AuditInv'
  BY <1>1, <1>4, AgentAssumption DEF IInv, AuditInv, Worded
<1> QED
  BY <1>3, <1>5, <1>6, <1>7, <1>8 DEF IInv

LEMMA SendInv == ASSUME IInv, NEW r \in Reply, ReplySend(r) PROVE IInv'
<1> DEFINE m == Listed("seller", r, BodyOf[r])
<1>1. /\ thread' = Append(thread, m) /\ Len(thread) < scope.thread
      /\ clock < scope.clock /\ clock' = clock + 1 /\ entangled' \in BOOLEAN
      /\ UNCHANGED <<rows, cycles, status, owned, holders, assigns, attempt, imp, assigner, scope>>
      /\ reply[r].pc = "ready"
  BY DEF ReplySend, IInv, TypeOK, others
<1>2. m \in MessageSet /\ m.reply = r /\ m.body = BodyOf[r]
  BY <1>1, ScopeBounds DEF MessageSet, Listed, IInv, TypeOK, ReadsInv
<1> HIDE DEF m
<1>3. PICK id \in BOOLEAN, lost \in BOOLEAN :
         reply' = [reply EXCEPT ![r].pc = IF lost THEN "done" ELSE "answered",
                                ![r].answer = Answer(Len(thread) + 1, id)]
  BY DEF ReplySend
<1>4. /\ Len(thread) \in Nat /\ Len(thread') = Len(thread) + 1 /\ Len(thread') <= scope.thread
      /\ DOMAIN thread' = DOMAIN thread \cup {Len(thread) + 1} /\ DOMAIN thread = 1..Len(thread)
      /\ \A k \in DOMAIN thread : thread'[k] = thread[k]
      /\ thread'[Len(thread) + 1] = m
      /\ \A q : Delivered(q) => Delivered(q)'
      /\ \A q : Delivered(q)' => Delivered(q) \/ q = r
  BY <1>1, <1>2, Grows
<1> DEFINE e == [reply[r] EXCEPT !.pc = IF lost THEN "done" ELSE "answered",
                                 !.answer = Answer(Len(thread) + 1, id)]
<1>5. reply \in [Reply -> ReplySet] /\ reply[r] \in ReplySet
  BY DEF IInv, ReadsInv
<1>6. reply'[r] = e /\ (\A q \in Reply : q # r => reply'[q] = reply[q]) /\ reply' = [reply EXCEPT ![r] = e]
  BY <1>3, <1>5
<1>7. e.pc \in {"answered", "done"} /\ e.answer.msg = Len(thread) + 1 /\ e.at = reply[r].at
  BY <1>5 DEF ReplySet, Answer
<1>8. e \in ReplySet
  <2>1. Len(thread) + 1 \in 0..scope.thread
    BY <1>1, <1>4, ScopeBounds DEF IInv, ReadsInv
  <2>2. Answer(Len(thread) + 1, id) \in [msg : 0..scope.thread, id : BOOLEAN]
    BY <2>1 DEF Answer
  <2> QED
    BY <1>5, <2>2 DEF ReplySet
<1> HIDE DEF e
<1>9. TypeOK' /\ CyclesInv'
  <2>1. \A q \in Reply : reply'[q].pc = "read" =>
            reply[q].pc = "read" /\ reply'[q].gone = reply[q].gone /\ reply'[q].cycle = reply[q].cycle
    BY <1>6, <1>7
  <2> QED
    BY <1>1, <1>2, <2>1, GrownTypeOK
<1>10. ReadsInv'
  <2>1. reply' \in [Reply -> ReplySet]
    BY <1>5, <1>6, <1>8
  <2>2. \A q \in Reply : reply'[q].pc \notin {"idle", "clicked", "done"} => reply'[q].at > 0
    BY <1>1, <1>6, <1>7 DEF IInv, ReadsInv
  <2> QED
    BY <1>1, <1>4, <2>1, <2>2 DEF IInv, ReadsInv, ReplySet, HolderSet
<1>11. SentInv'
  <2>1. ASSUME NEW k \in DOMAIN thread', thread'[k].reply # None
        PROVE  LET q == thread'[k].reply
               IN  /\ thread'[k].body = BodyOf[q]
                   /\ reply'[q].pc \in {"answered", "read", "stored", "done"}
                   /\ reply'[q].answer.msg = k
    <3>1. CASE k = Len(thread) + 1
      BY <3>1, <1>2, <1>4, <1>6, <1>7
    <3>2. CASE k \in DOMAIN thread
      <4>1. thread[k].reply # None /\ thread[k].reply \in Reply /\ thread'[k] = thread[k] /\ thread[k].reply # r
        BY <3>2, <2>1, <1>1, <1>4, Named DEF IInv, SentInv
      <4> QED
        BY <4>1, <3>2, <1>6 DEF IInv, SentInv
    <3> QED
      BY <3>1, <3>2, <1>4
  <2>2. ASSUME NEW q \in Reply
        PROVE  /\ reply'[q].pc \in {"answered", "read", "stored"} =>
                    reply'[q].answer.msg \in DOMAIN thread' /\ thread'[reply'[q].answer.msg].reply = q
               /\ reply'[q].pc = "read" /\ reply'[q].row => reply'[q].answer.id
    <3>1. CASE q = r
      BY <3>1, <1>2, <1>4, <1>6, <1>7
    <3>2. CASE q # r
      BY <3>2, <1>4, <1>6 DEF IInv, SentInv
    <3> QED
      BY <3>1, <3>2
  <2> QED
    BY <2>1, <2>2 DEF SentInv
<1>12. RowsInv(rows)'
  <2>1. \A x \in rows : x.ext \in 0..Len(thread) /\ (x.ext # 0 => x.ext \in DOMAIN thread)
    BY <1>4 DEF IInv, RowsInv
  <2>2. \A x \in rows : x.ext \in 0..Len(thread')
    BY <2>1, <1>4
  <2>3. \A x \in rows : x.reply # None => x.reply \in Reply /\ x.reply # r /\ reply'[x.reply] = reply[x.reply]
    BY <1>1, <1>6, Named DEF IInv, RowsInv
  <2> QED
    BY <1>1, <1>4, <2>1, <2>2, <2>3 DEF IInv, RowsInv
<1>13. AuditInv'
  <2>1. ASSUME NEW q \in Reply
        PROVE  /\ reply'[q].pc = "stored" \/ attempt[q] = "SUCCESS" => Worded(rows, q)
               /\ attempt[q] = "SUCCESS" => Delivered(q)'
               /\ attempt[q] = "FAILED" => reply'[q].pc = "done" /\ ~Delivered(q)'
    <3>1. CASE q = r
      BY <3>1, <1>1, <1>4, <1>6, <1>7 DEF IInv, AuditInv
    <3>2. CASE q # r
      BY <3>2, <1>4, <1>6 DEF IInv, AuditInv
    <3> QED
      BY <3>1, <3>2
  <2> QED
    BY <1>1, <2>1 DEF AuditInv, Worded
<1> QED
  BY <1>9, <1>10, <1>11, <1>12, <1>13 DEF IInv
-----------------------------------------------------------------------------
(* The transaction that stores a reply.                                    *)

LEMMA ReassignTyped ==
    ASSUME IInv, NEW old, NEW who \in Agent, assigns < scope.assigns
    PROVE  Reassign(old, who) \subseteq HolderSet /\ assigns + 1 \in 0..scope.assigns
<1>1. assigns + 1 \in 1..scope.assigns
  BY ScopeBounds DEF IInv, TypeOK, ReadsInv
<1>2. holders \subseteq HolderSet
  BY DEF IInv, TypeOK, HolderSet
<1> QED
  BY <1>1, <1>2 DEF Reassign, HolderSet

LEMMA CommitInv == ASSUME IInv, NEW r \in Reply, ReplyCommit(r) PROVE IInv'
<1> DEFINE msg == reply[r].answer.msg
           x0 == StoredReply(r)
           c == reply[r].cycle
<1>1. /\ reply[r].pc = "read" /\ ~Collides(r) /\ ~reply[r].gone
      /\ rows' = {x \in rows : reply[r].row => x.ext # msg} \cup {x0}
      /\ cycles' = IF c = 0 THEN cycles
                   ELSE [cycles EXCEPT ![c].end = reply[r].at, ![c].by = AgentOf[r]]
      /\ status' = IF c = 0 \/ reply[r].status = "RESOLVED" THEN status ELSE "RESOLVED"
      /\ reply' = [reply EXCEPT ![r].pc = "stored"]
      /\ UNCHANGED <<clock, thread, attempt, entangled, owned, imp, assigner, scope>>
  BY DEF ReplyCommit, others
<1>2. /\ reply \in [Reply -> ReplySet] /\ reply[r] \in ReplySet /\ reply[r].at > 0
      /\ scope.clock \in Nat /\ scope.thread \in Nat /\ AgentOf[r] \in Agent
  BY <1>1, ScopeBounds, AgentAssumption DEF IInv, ReadsInv
<1>3. reply[r].at \in 1..scope.clock /\ reply[r].answer \in [msg : 0..scope.thread, id : BOOLEAN]
  BY <1>2 DEF ReplySet
<1>4. /\ reply'[r].pc = "stored" /\ reply'[r].answer = reply[r].answer /\ reply'[r].at = reply[r].at
      /\ \A q \in Reply : q # r => reply'[q] = reply[q]
      /\ reply' \in [Reply -> ReplySet]
  BY <1>1, <1>2 DEF ReplySet
<1>5. msg \in DOMAIN thread /\ thread[msg].reply = r /\ thread[msg].body = BodyOf[r] /\ Delivered(r) /\ r # None
  BY <1>1, AgentAssumption DEF IInv, SentInv, Delivered
<1>6. DOMAIN thread = 1..Len(thread) /\ Len(thread) \in Nat /\ msg # 0 /\ msg \in 0..Len(thread)
  <2>1. thread \in Seq(MessageSet)
    BY DEF IInv, TypeOK, MessageSet
  <2> QED
    BY <2>1, <1>5
<1>7. /\ x0.ext = (IF reply[r].answer.id THEN msg ELSE 0) /\ x0.reply = r
      /\ x0.at = reply[r].at /\ x0.from = "seller"
  BY DEF StoredReply
<1>8. x0 \in RowSet
  <2>1. msg \in 0..scope.thread /\ 0 \in 0..scope.thread /\ r \in Reply \cup {None}
    BY <1>2, <1>3
  <2>2. (IF reply[r].answer.id THEN msg ELSE 0) \in 0..scope.thread
    BY <2>1
  <2> QED
    BY <1>3, <2>1, <2>2 DEF RowSet, StoredReply
<1> HIDE DEF x0
<1>9. /\ cycles' \in Seq(CycleSet) /\ Len(cycles') = Len(cycles)
      /\ \A i \in DOMAIN cycles' : Credited(cycles'[i].by)
      /\ OpenCycles' \subseteq {Len(cycles')}
  <2>1. cycles \in Seq(CycleSet) /\ c \in 0..Len(cycles) /\ Len(cycles) \in Nat /\ DOMAIN cycles = 1..Len(cycles)
    BY <1>1 DEF IInv, TypeOK, CycleSet
  <2>2. CASE c = 0
    BY <2>1, <2>2, <1>1 DEF IInv, CyclesInv, OpenCycles
  <2>3. CASE c # 0
    <3> DEFINE e == [cycles[c] EXCEPT !.end = reply[r].at, !.by = AgentOf[r]]
    <3>1. c \in 1..Len(cycles) /\ cycles[c] \in CycleSet
      BY <2>1, <2>3, ElementOfSeq
    <3>2. cycles' = [cycles EXCEPT ![c] = e]
      BY <1>1, <2>3
    <3>3. e \in CycleSet /\ e.end # 0 /\ e.by = AgentOf[r]
      <4>1. reply[r].at \in 0..scope.clock /\ reply[r].at # 0 /\ AgentOf[r] \in Agent \cup {None}
        BY <1>2, <1>3
      <4> QED
        BY <3>1, <4>1 DEF CycleSet
    <3> HIDE DEF e
    <3>4. /\ cycles' \in Seq(CycleSet) /\ Len(cycles') = Len(cycles) /\ DOMAIN cycles' = DOMAIN cycles
          /\ cycles'[c] = e /\ \A i \in DOMAIN cycles : i # c => cycles'[i] = cycles[i]
      BY <3>1, <3>2, <3>3, <2>1, ExceptSeq
    <3>5. Credited(AgentOf[r])
      BY <1>5 DEF Credited
    <3>6. \A i \in DOMAIN cycles' : Credited(cycles'[i].by)
      BY <3>3, <3>4, <3>5 DEF IInv, CyclesInv
    <3>7. OpenCycles' \subseteq {Len(cycles')}
      BY <3>3, <3>4 DEF IInv, CyclesInv, OpenCycles
    <3> QED
      BY <3>4, <3>6, <3>7
  <2> QED
    BY <2>2, <2>3
<1>10. TypeOK'
  <2>1. rows' \subseteq RowSet
    BY <1>1, <1>8 DEF IInv, TypeOK, RowSet
  <2>2. holders' \subseteq HolderSet /\ assigns' \in 0..scope.assigns
    BY <1>2, ReassignTyped DEF ReplyCommit, IInv, TypeOK, HolderSet
  <2>3. status' \in Statuses
    BY <1>1 DEF IInv, TypeOK, Statuses
  <2>4. \A q \in Reply : reply'[q].pc = "read" /\ ~reply'[q].gone => reply'[q].cycle \in 0..Len(cycles')
    BY <1>4, <1>9 DEF IInv, TypeOK
  <2> QED
    BY <1>1, <1>9, <2>1, <2>2, <2>3, <2>4 DEF IInv, TypeOK, RowSet, HolderSet, CycleSet
<1>11. ReadsInv'
  <2>1. \A q \in Reply : reply'[q].pc \notin {"idle", "clicked", "done"} => reply'[q].at > 0
    BY <1>2, <1>4 DEF IInv, ReadsInv
  <2> QED
    BY <1>1, <1>4, <2>1 DEF IInv, ReadsInv, ReplySet, HolderSet
<1>12. SentInv'
  <2>1. ASSUME NEW k \in DOMAIN thread, thread[k].reply # None
        PROVE  LET q == thread[k].reply
               IN  /\ thread[k].body = BodyOf[q]
                   /\ reply'[q].pc \in {"answered", "read", "stored", "done"}
                   /\ reply'[q].answer.msg = k
    BY <2>1, <1>4, Named DEF IInv, SentInv
  <2>2. ASSUME NEW q \in Reply
        PROVE  /\ reply'[q].pc \in {"answered", "read", "stored"} =>
                    reply'[q].answer.msg \in DOMAIN thread /\ thread[reply'[q].answer.msg].reply = q
               /\ reply'[q].pc = "read" /\ reply'[q].row => reply'[q].answer.id
    BY <1>4, <1>5 DEF IInv, SentInv
  <2> QED
    BY <1>1, <2>1, <2>2 DEF SentInv
<1>13. \A q : Delivered(q)' <=> Delivered(q)
  BY <1>1 DEF Delivered
<1>14. RowsInv(rows)'
  <2>1. ASSUME NEW x \in rows
        PROVE  /\ x.ext \in 0..Len(thread) /\ (x.reply = None => x.ext # 0)
               /\ x.reply # None =>
                    /\ reply'[x.reply].pc \in {"stored", "done"} /\ Delivered(x.reply)
                    /\ x.ext # 0 => thread[x.ext].body = BodyOf[x.reply]
                    /\ reply'[x.reply].answer.id => x.ext = reply'[x.reply].answer.msg
               /\ x.reply # r
    BY <1>1, <1>4, <1>5, Named DEF IInv, RowsInv
  <2>2. /\ x0.ext \in 0..Len(thread) /\ Delivered(r) /\ reply'[r].pc = "stored"
        /\ x0.ext # 0 => thread[x0.ext].body = BodyOf[r]
        /\ reply'[r].answer.id => x0.ext = reply'[r].answer.msg
    BY <1>4, <1>5, <1>6, <1>7
  <2>3. ASSUME NEW x \in rows, reply[r].row => x.ext # msg, x0.ext # 0 PROVE x.ext # x0.ext
    <3>1. reply[r].answer.id /\ x0.ext = msg
      BY <2>3, <1>7, <1>3
    <3> QED
      BY <2>3, <3>1, <1>1 DEF Collides
  <2>4. \A x, y \in rows' : (x.ext = y.ext /\ x.ext # 0) \/ (x.reply = y.reply /\ x.reply # None) => x = y
    BY <1>1, <1>7, <2>1, <2>3 DEF IInv, RowsInv
  <2>5. ASSUME NEW x \in rows'
        PROVE  /\ x.ext \in 0..Len(thread)
               /\ x.reply = None => x.ext # 0
               /\ x.reply # None =>
                    /\ reply'[x.reply].pc \in {"stored", "done"} /\ Delivered(x.reply)
                    /\ x.ext # 0 => thread[x.ext].body = BodyOf[x.reply]
                    /\ reply'[x.reply].answer.id => x.ext = reply'[x.reply].answer.msg
    BY <1>1, <1>5, <1>7, <2>1, <2>2
  <2> QED
    BY <1>1, <1>13, <2>4, <2>5 DEF RowsInv
<1>15. AuditInv'
  <2>1. ASSUME NEW q \in Reply, Worded(rows, q) PROVE Worded(rows, q)'
    <3>1. PICK x \in rows : x.reply # None /\ BodyOf[x.reply] = BodyOf[q]
      BY <2>1 DEF Worded
    <3>2. CASE x \in rows'
      BY <3>1, <3>2 DEF Worded
    <3>3. CASE x \notin rows'
      <4>1. x.ext = msg
        BY <3>3, <1>1
      <4>2. BodyOf[x.reply] = BodyOf[r]
        BY <4>1, <3>1, <1>5, <1>6 DEF IInv, RowsInv
      <4>3. x0 \in rows' /\ x0.reply # None /\ BodyOf[x0.reply] = BodyOf[q]
        BY <4>2, <3>1, <1>1, <1>5, <1>7
      <4> QED
        BY <4>3 DEF Worded
    <3> QED
      BY <3>2, <3>3
  <2>2. Worded(rows, r)'
    <3>1. x0 \in rows' /\ x0.reply # None /\ BodyOf[x0.reply] = BodyOf[r]
      BY <1>1, <1>5, <1>7
    <3> QED
      BY <3>1 DEF Worded
  <2>3. attempt[r] # "FAILED"
    BY <1>1 DEF IInv, AuditInv
  <2>4. ASSUME NEW q \in Reply
        PROVE  /\ reply'[q].pc = "stored" \/ attempt[q] = "SUCCESS" => Worded(rows, q)'
               /\ attempt[q] = "SUCCESS" => Delivered(q)
               /\ attempt[q] = "FAILED" => reply'[q].pc = "done" /\ ~Delivered(q)
    BY <1>4, <2>1, <2>2, <2>3 DEF IInv, AuditInv
  <2> QED
    BY <1>1, <1>13, <2>4 DEF AuditInv
<1>16. CyclesInv'
  BY <1>9, <1>13 DEF CyclesInv, Credited
<1> QED
  BY <1>10, <1>11, <1>12, <1>14, <1>15, <1>16 DEF IInv
-----------------------------------------------------------------------------
(* Steps that touch neither messages nor replies nor cycles.               *)

LEMMA DeskKeeps ==
    ASSUME IInv, UNCHANGED <<clock, thread, rows, cycles, attempt, reply, scope>>,
           status' \in Statuses, owned' \in BOOLEAN, entangled' \in BOOLEAN,
           holders' \subseteq HolderSet, assigns' \in 0..scope.assigns,
           imp' \in {None} \cup [upto : 1..Len(thread), status : Statuses],
           assigner' \in {None} \cup [who : Agent, old : HolderSet \cup {None}]
    PROVE  IInv'
<1>1. TypeOK'
  BY DEF IInv, TypeOK, HolderSet
<1>2. ReadsInv'
  BY DEF IInv, ReadsInv, ReplySet, HolderSet
<1>3. SentInv' /\ RowsInv(rows)'
  BY DEF IInv, SentInv, RowsInv, Delivered
<1>4. AuditInv' /\ CyclesInv'
  BY DEF IInv, AuditInv, CyclesInv, Credited, OpenCycles, Delivered, Worded
<1> QED
  BY <1>1, <1>2, <1>3, <1>4 DEF IInv

LEMMA StutterInv == ASSUME IInv, UNCHANGED vars PROVE IInv'
BY DeskKeeps DEF vars, IInv, TypeOK, ReadsInv, HolderSet

LEMMA UserInv == ASSUME IInv, UserNext PROVE IInv'
<1>0. /\ status \in Statuses /\ owned \in BOOLEAN /\ entangled \in BOOLEAN
      /\ holders \subseteq HolderSet /\ assigns \in 0..scope.assigns
      /\ imp \in {None} \cup [upto : 1..Len(thread), status : Statuses]
      /\ assigner \in {None} \cup [who : Agent, old : HolderSet \cup {None}]
  BY DEF IInv, TypeOK, ReadsInv, HolderSet
<1>1. ASSUME NEW new \in Statuses, UpdateStatus(new) PROVE IInv'
  <2>1. /\ UNCHANGED <<clock, thread, rows, cycles, attempt, reply, scope, imp, owned, holders, assigns, assigner>>
        /\ status' \in Statuses /\ entangled' \in BOOLEAN
    BY <1>0, <1>1 DEF UpdateStatus, desk
  <2> QED
    BY <1>0, <2>1, DeskKeeps
<1>2. ASSUME UpdateCategory PROVE IInv'
  BY <1>0, <1>2, DeskKeeps DEF UpdateCategory, desk
<1>3. ASSUME NEW u \in Agent, AssignRead(u) PROVE IInv'
  <2>1. CurrentHolder \in HolderSet \cup {None}
    BY <1>0, CurrentHolderTyped DEF IInv, ReadsInv
  <2>2. assigner' \in [who : Agent, old : HolderSet \cup {None}]
    BY <2>1, <1>3 DEF AssignRead
  <2>3. UNCHANGED <<clock, thread, rows, cycles, attempt, reply, scope, imp, owned, holders, assigns, status, entangled>>
    BY <1>3 DEF AssignRead, desk
  <2> QED
    BY <1>0, <2>2, <2>3, DeskKeeps
<1>4. ASSUME AssignCommit PROVE IInv'
  <2>1. assigner \in [who : Agent, old : HolderSet \cup {None}] /\ assigns < scope.assigns
    BY <1>0, <1>4 DEF AssignCommit
  <2>2. Reassign(assigner.old, assigner.who) \subseteq HolderSet /\ assigns + 1 \in 0..scope.assigns
    BY <2>1, ReassignTyped
  <2>3. /\ UNCHANGED <<clock, thread, rows, cycles, attempt, reply, scope, imp, owned, status, entangled>>
        /\ holders' \subseteq HolderSet /\ assigns' \in 0..scope.assigns /\ assigner' = None
    BY <1>4, <2>2 DEF AssignCommit, desk
  <2> QED
    BY <1>0, <2>3, DeskKeeps
<1>5. ASSUME Unassign PROVE IInv'
  <2>1. /\ UNCHANGED <<clock, thread, rows, cycles, attempt, reply, scope, imp, owned, assigns, assigner, status, entangled>>
        /\ holders' \subseteq HolderSet
    BY <1>0, <1>5 DEF Unassign, desk
  <2> QED
    BY <1>0, <2>1, DeskKeeps
<1> QED
  BY <1>1, <1>2, <1>3, <1>4, <1>5 DEF UserNext

LEMMA LoadInv == ASSUME IInv, ImportLoad \/ ImportFails PROVE IInv'
<1>0. /\ status \in Statuses /\ owned \in BOOLEAN /\ entangled \in BOOLEAN
      /\ holders \subseteq HolderSet /\ assigns \in 0..scope.assigns
      /\ imp \in {None} \cup [upto : 1..Len(thread), status : Statuses]
      /\ assigner \in {None} \cup [who : Agent, old : HolderSet \cup {None}]
  BY DEF IInv, TypeOK, ReadsInv, HolderSet
<1>1. /\ UNCHANGED <<clock, thread, rows, cycles, attempt, reply, scope, owned, holders, assigns, assigner, status, entangled>>
      /\ imp' \in {None} \cup [upto : 1..Len(thread), status : Statuses]
  BY <1>0 DEF ImportLoad, ImportFails
<1> QED
  BY <1>0, <1>1, DeskKeeps
-----------------------------------------------------------------------------
(* The repair of the SLA history.                                          *)

ReviewSet == [since : 0..scope.clock, done : Seq([start : 1..scope.clock, row : rows])]

LEMMA SeenTyped ==
    ASSUME IInv, NEW s \in ReviewSet, NEW x \in rows
    PROVE  Seen(s, x) \in ReviewSet
<1>1. x \in RowSet /\ x.at \in 0..scope.clock /\ 0 \in 0..scope.clock
  BY ScopeBounds DEF IInv, TypeOK, ReadsInv, RowSet
<1>2. s.since # 0 => s.since \in 1..scope.clock
  BY DEF ReviewSet
<1> DEFINE e == [start |-> s.since, row |-> x]
<1>3. s.since # 0 => Append(s.done, e) \in Seq([start : 1..scope.clock, row : rows])
  BY <1>2, AppendProperties DEF ReviewSet
<1> HIDE DEF e
<1>4. s.since # 0 => [since |-> 0, done |-> Append(s.done, e)] \in ReviewSet
  BY <1>1, <1>3 DEF ReviewSet
<1>5. [s EXCEPT !.since = x.at] \in ReviewSet
  BY <1>1 DEF ReviewSet
<1> QED
  BY <1>4, <1>5 DEF Seen, e

\* What the repair makes of the messages exists and is a history of them.
Step(s, d) == IF \E x \in rows : x.at = d THEN Seen(s, CHOOSE x \in rows : x.at = d) ELSE s
LEMMA ReviewedIs ==
    ASSUME IInv
    PROVE  /\ clock \in Nat /\ Initial(0..clock)
           /\ Reviewed[0] = [since |-> 0, done |-> <<>>]
           /\ \A d \in 0..clock : d # 0 => d - 1 \in 0..clock /\ Reviewed[d] = Step(Reviewed[d - 1], d)
           /\ \A d \in 0..clock : Reviewed[d] \in ReviewSet
<1> DEFINE D == 0..clock
           b == [since |-> 0, done |-> <<>>]
           F == [p \in ReviewSet \X (D \ {0}) |-> Step(p[1], p[2])]
<1>1. clock \in Nat /\ scope.clock \in Nat /\ Initial(D)
  BY ScopeBounds DEF IInv, TypeOK, ReadsInv, Initial
<1>2. b \in ReviewSet
  <2>1. 0 \in 0..scope.clock /\ <<>> \in Seq([start : 1..scope.clock, row : rows])
    BY <1>1
  <2> QED
    BY <2>1 DEF ReviewSet
<1>3. ASSUME NEW s \in ReviewSet, NEW d PROVE Step(s, d) \in ReviewSet
  BY SeenTyped DEF Step
<1> HIDE DEF b
<1>4. F \in [ReviewSet \X (D \ {0}) -> ReviewSet]
  BY <1>3
<1>5. PICK g \in [D -> ReviewSet] : Recurses(g, D, b, F)
  <2> HIDE DEF F, D
  <2> QED
    BY ONLY <1>1, <1>2, <1>4, Recursion
<1>6. \A k \in D : k # 0 => F[<<g[k - 1], k>>] = Step(g[k - 1], k)
  <2> SUFFICES ASSUME NEW k \in D, k # 0 PROVE F[<<g[k - 1], k>>] = Step(g[k - 1], k)
    OBVIOUS
  <2>1. k - 1 \in D
    BY <1>1
  <2>2. <<g[k - 1], k>> \in ReviewSet \X (D \ {0})
    BY <2>1
  <2> QED
    BY <2>2
<1> HIDE DEF F
<1>7. g = [k \in D |-> IF k = 0 THEN b ELSE Step(g[k - 1], k)]
  BY <1>5, <1>6 DEF Recurses
<1>8. \E f : f = [k \in D |-> IF k = 0 THEN b ELSE Step(f[k - 1], k)]
  BY <1>7
<1>9. Reviewed = [k \in D |-> IF k = 0 THEN b ELSE Step(Reviewed[k - 1], k)]
  <2>1. Reviewed = CHOOSE f : f = [k \in D |-> IF k = 0 THEN b ELSE Step(f[k - 1], k)]
    BY DEF Reviewed, Step, b
  <2> HIDE DEF D
  <2> QED
    BY <1>8, <2>1
<1> DEFINE Good == {k \in D : Reviewed[k] \in ReviewSet}
<1>10. 0 \in D => 0 \in Good
  BY <1>2, <1>9
<1>11. ASSUME NEW n \in D, n # 0, n - 1 \in Good PROVE n \in Good
  <2>1. Reviewed[n] = Step(Reviewed[n - 1], n) /\ Reviewed[n - 1] \in ReviewSet
    BY <1>9, <1>11
  <2> QED
    BY <2>1, <1>3
<1>12. D \subseteq Good
  <2> HIDE DEF Good, D
  <2> QED
    BY <1>1, <1>10, <1>11, SetInduction
<1>13. 0 \in D /\ \A d \in D : d # 0 => d - 1 \in D
  BY <1>1
<1>14. Reviewed[0] = b /\ \A d \in D : d # 0 => Reviewed[d] = Step(Reviewed[d - 1], d)
  BY <1>9, <1>13
<1> QED
  BY <1>1, <1>12, <1>13, <1>14 DEF b

LEMMA ReviewedTyped == ASSUME IInv PROVE Rebuilt \in ReviewSet
<1>1. clock \in 0..clock
  BY ReviewedIs
<1> QED
  BY <1>1, ReviewedIs DEF Rebuilt

\* The repaired history: closed cycles with credited agents, then at most one open.
LEMMA ExpectedTyped ==
    ASSUME IInv
    PROVE  /\ ExpectedCycles \in Seq(CycleSet)
           /\ \A i \in DOMAIN ExpectedCycles : Credited(ExpectedCycles[i].by)
           /\ \A i \in DOMAIN ExpectedCycles : ExpectedCycles[i].end = 0 => i = Len(ExpectedCycles)
<1> DEFINE done == Rebuilt.done
           closed == [i \in DOMAIN done |->
                        [start |-> done[i].start, end |-> done[i].row.at, by |-> RepliedBy(i, done[i].row)]]
           open == IF Rebuilt.since = 0 THEN <<>> ELSE <<[start |-> Rebuilt.since, end |-> 0, by |-> None]>>
           Item == [start : 1..scope.clock, row : rows]
<1>1. Rebuilt.since \in 0..scope.clock /\ done \in Seq(Item)
  BY ReviewedTyped DEF ReviewSet
<1>2. Len(done) \in Nat /\ DOMAIN done = 1..Len(done) /\ \A i \in DOMAIN done : done[i] \in Item
  <2> HIDE DEF done, Item
  <2> QED
    BY <1>1, ElementOfSeq
<1>3. /\ scope.clock \in Nat /\ cycles \in Seq(CycleSet)
      /\ \A x \in rows : x.at \in 1..scope.clock /\ (x.reply # None => x.reply \in Reply /\ Delivered(x.reply))
      /\ \A i \in DOMAIN cycles : cycles[i] \in CycleSet /\ Credited(cycles[i].by)
  <2>1. scope.clock \in Nat /\ cycles \in Seq(CycleSet)
    BY ScopeBounds DEF IInv, TypeOK, ReadsInv, CycleSet
  <2>2. \A i \in DOMAIN cycles : cycles[i] \in CycleSet
    BY <2>1, ElementOfSeq
  <2>3. \A x \in rows : x.at \in 1..scope.clock /\ (x.reply # None => x.reply \in Reply /\ Delivered(x.reply))
    BY Named DEF IInv, RowsInv, RowSet
  <2> QED
    BY <2>1, <2>2, <2>3 DEF IInv, CyclesInv
<1>4. ASSUME NEW i, NEW x \in rows PROVE RepliedBy(i, x) \in Agent \cup {None} /\ Credited(RepliedBy(i, x))
  <2>1. CASE x.reply # None
    BY <2>1, <1>3, AgentAssumption DEF RepliedBy, Credited
  <2>2. CASE x.reply = None
    BY <2>2, <1>3 DEF RepliedBy, Credited, CycleSet
  <2> QED
    BY <2>1, <2>2
<1>5. \A i \in DOMAIN done : done[i].start \in 1..scope.clock /\ done[i].row \in rows
  BY <1>2
<1>6. \A i \in DOMAIN closed : closed[i] \in CycleSet /\ Credited(closed[i].by) /\ closed[i].end # 0
  <2> SUFFICES ASSUME NEW i \in DOMAIN done
               PROVE  closed[i] \in CycleSet /\ Credited(closed[i].by) /\ closed[i].end # 0
    OBVIOUS
  <2>1. /\ closed[i] = [start |-> done[i].start, end |-> done[i].row.at, by |-> RepliedBy(i, done[i].row)]
        /\ done[i].start \in 1..scope.clock /\ done[i].row \in rows
    BY <1>5
  <2>2. done[i].row.at \in 0..scope.clock /\ done[i].row.at # 0
    BY <2>1, <1>3
  <2>3. RepliedBy(i, done[i].row) \in Agent \cup {None} /\ Credited(RepliedBy(i, done[i].row))
    BY <2>1, <1>4
  <2> HIDE DEF closed, done
  <2> QED
    BY <2>1, <2>2, <2>3 DEF CycleSet
<1>7. closed \in Seq(CycleSet) /\ Len(closed) = Len(done) /\ DOMAIN closed = 1..Len(done)
  <2> DEFINE n == Len(done)
  <2>1. n \in Nat /\ DOMAIN closed = 1..n
    BY <1>2
  <2>2. \A i \in 1..n : closed[i] \in CycleSet
    BY <1>6, <2>1
  <2> HIDE DEF n
  <2>3. closed \in [1..n -> CycleSet]
    BY <2>1, <2>2
  <2> HIDE DEF closed
  <2> QED
    BY <2>1, <2>3 DEF n
<1>8. /\ open \in Seq(CycleSet) /\ Len(open) \in {0, 1} /\ DOMAIN open = 1..Len(open)
      /\ \A i \in DOMAIN open : Credited(open[i].by)
  <2>1. CASE Rebuilt.since = 0
    BY <2>1
  <2>2. CASE Rebuilt.since # 0
    <3> DEFINE e == [start |-> Rebuilt.since, end |-> 0, by |-> None]
    <3>1. e \in CycleSet /\ e.by = None
      BY <2>2, <1>1, <1>3 DEF CycleSet
    <3>2. open = <<e>>
      BY <2>2
    <3> HIDE DEF e, open
    <3> QED
      BY <3>1, <3>2 DEF Credited
  <2> QED
    BY <2>1, <2>2
<1>9. ExpectedCycles = closed \o open
  BY DEF ExpectedCycles
<1> HIDE DEF closed, open, done
<1>10. /\ ExpectedCycles \in Seq(CycleSet) /\ Len(ExpectedCycles) = Len(closed) + Len(open)
       /\ DOMAIN ExpectedCycles = 1..Len(closed) + Len(open)
       /\ \A i \in 1..Len(closed) + Len(open) :
             ExpectedCycles[i] = IF i <= Len(closed) THEN closed[i] ELSE open[i - Len(closed)]
  <2>1. closed \in Seq(CycleSet) /\ open \in Seq(CycleSet)
    BY <1>7, <1>8
  <2> HIDE DEF CycleSet
  <2>2. /\ closed \o open \in Seq(CycleSet) /\ Len(closed \o open) = Len(closed) + Len(open)
        /\ \A i \in 1..Len(closed) + Len(open) :
              (closed \o open)[i] = IF i <= Len(closed) THEN closed[i] ELSE open[i - Len(closed)]
    BY <2>1, ConcatProperties
  <2>3. DOMAIN (closed \o open) = 1..Len(closed \o open)
    BY <2>2
  <2> QED
    BY <1>9, <2>2, <2>3
<1>11. ASSUME NEW i \in DOMAIN ExpectedCycles
       PROVE  Credited(ExpectedCycles[i].by) /\ (ExpectedCycles[i].end = 0 => i = Len(ExpectedCycles))
  <2>1. CASE i <= Len(closed)
    BY <2>1, <1>2, <1>6, <1>7, <1>10
  <2>2. CASE ~(i <= Len(closed))
    <3>1. i - Len(closed) \in DOMAIN open /\ Len(open) = 1 /\ i = Len(closed) + 1
      BY <2>2, <1>2, <1>7, <1>8, <1>10
    <3> QED
      BY <3>1, <2>2, <1>8, <1>10
  <2> QED
    BY <2>1, <2>2
<1> QED
  BY <1>10, <1>11

LEMMA RepairInv == ASSUME IInv, Repair PROVE IInv'
<1> DEFINE n == Len(ExpectedCycles)
<1>1. /\ cycles' = ExpectedCycles /\ entangled' \in BOOLEAN
      /\ reply' = [r \in Reply |-> [reply[r] EXCEPT !.gone = @ \/ reply[r].cycle > n]]
      /\ UNCHANGED <<clock, thread, rows, status, owned, holders, assigns, attempt, imp, assigner, scope>>
  BY DEF Repair
<1>2. /\ cycles' \in Seq(CycleSet) /\ n \in Nat /\ Len(cycles') = n
      /\ \A i \in DOMAIN cycles' : Credited(cycles'[i].by)
      /\ \A i \in DOMAIN cycles' : cycles'[i].end = 0 => i = Len(cycles')
  <2>1. /\ ExpectedCycles \in Seq(CycleSet)
        /\ \A i \in DOMAIN ExpectedCycles : Credited(ExpectedCycles[i].by)
        /\ \A i \in DOMAIN ExpectedCycles : ExpectedCycles[i].end = 0 => i = Len(ExpectedCycles)
    BY ExpectedTyped
  <2> QED
    BY <1>1, <2>1
<1> HIDE DEF n
<1>3. ASSUME NEW r \in Reply
      PROVE  /\ reply'[r] \in ReplySet
             /\ reply'[r].pc = reply[r].pc /\ reply'[r].answer = reply[r].answer
             /\ reply'[r].row = reply[r].row /\ reply'[r].at = reply[r].at
             /\ ~reply'[r].gone => reply'[r].cycle \in 0..n
  <2>1. reply[r] \in ReplySet /\ reply'[r] = [reply[r] EXCEPT !.gone = @ \/ reply[r].cycle > n]
    BY <1>1 DEF IInv, ReadsInv
  <2>2. PICK b \in BOOLEAN : b = (reply[r].gone \/ reply[r].cycle > n)
    OBVIOUS
  <2>3. reply'[r] = [reply[r] EXCEPT !.gone = b]
    BY <2>1, <2>2
  <2>4. /\ reply'[r] \in ReplySet /\ reply'[r].gone = b /\ reply'[r].cycle = reply[r].cycle
        /\ reply'[r].pc = reply[r].pc /\ reply'[r].answer = reply[r].answer
        /\ reply'[r].row = reply[r].row /\ reply'[r].at = reply[r].at /\ reply[r].cycle \in Nat
    BY <2>1, <2>3 DEF ReplySet
  <2>5. ~b => reply[r].cycle \in 0..n
    <3>1. ~b => ~(reply[r].cycle > n)
      BY ONLY <2>2, Zenon
    <3> QED
      BY <3>1, <2>4, <1>2
  <2> QED
    BY <2>4, <2>5
<1>4. TypeOK'
  <2>1. \A r \in Reply : reply'[r].pc = "read" /\ ~reply'[r].gone => reply'[r].cycle \in 0..Len(cycles')
    BY <1>2, <1>3
  <2> QED
    BY <1>1, <1>2, <2>1 DEF IInv, TypeOK, CycleSet
<1>5. ReadsInv'
  <2>1. reply' \in [Reply -> ReplySet]
    BY <1>1, <1>3
  <2>2. \A r \in Reply : reply'[r].pc \notin {"idle", "clicked", "done"} => reply'[r].at > 0
    BY <1>3 DEF IInv, ReadsInv
  <2> QED
    BY <1>1, <2>1, <2>2 DEF IInv, ReadsInv, ReplySet, HolderSet
<1>6. SentInv'
  <2>1. \A k \in DOMAIN thread : thread[k].reply # None => thread[k].reply \in Reply
    BY Named DEF IInv
  <2> QED
    BY <1>1, <1>3, <2>1 DEF IInv, SentInv
<1>7. RowsInv(rows)'
  <2>1. \A x \in rows : x.reply # None => x.reply \in Reply
    BY Named DEF IInv
  <2> QED
    BY <1>1, <1>3, <2>1 DEF IInv, RowsInv, Delivered
<1>8. AuditInv'
  BY <1>1, <1>3 DEF IInv, AuditInv, Delivered, Worded
<1>9. CyclesInv'
  BY <1>1, <1>2 DEF CyclesInv, Credited, OpenCycles, Delivered
<1> QED
  BY <1>4, <1>5, <1>6, <1>7, <1>8, <1>9 DEF IInv
-----------------------------------------------------------------------------
(* The import, message by message.                                         *)

\* What a session of the import keeps: the replies' rows, and cycles of which at most
\* the last is open and of which the database sees every open one it has.
SessionInv(s) ==
    /\ RowsInv(s.rows)
    /\ \A x \in rows : x.reply # None => \E y \in s.rows : y.reply = x.reply
    /\ \A i \in DOMAIN s.mem : Credited(s.mem[i].by) /\ (s.mem[i].end = 0 => i = Len(s.mem))
    /\ Len(s.seen) <= Len(s.mem) /\ Len(cycles) <= Len(s.mem)
    /\ \A i \in DOMAIN s.seen : s.mem[i].end = 0 => s.seen[i].end = 0
SessionSet == [rows : SUBSET RowSet, seen : Seq(CycleSet), mem : Seq(CycleSet), status : Statuses]
Sessions == {s \in SessionSet : SessionInv(s)}

\* The nearest of the rows a message may be exists.
LEMMA NearestClaimed ==
    ASSUME NEW rs \in SUBSET RowSet, NEW m \in MessageSet, Claimable(rs, m) # {}, scope \in Scopes
    PROVE  LocalReplyMatch(rs, m) \in Claimable(rs, m)
<1> DEFINE C == Claimable(rs, m)
           Far == {Distance(x, m) : x \in C}
<1>1. scope.clock \in Nat /\ m.at \in Nat /\ \A x \in C : x.at \in Nat
  BY ScopeBounds DEF Claimable, RowSet, MessageSet
<1>2. \A x \in C : Distance(x, m) \in Nat
  BY <1>1 DEF Distance
<1> HIDE DEF C
<1>3. PICK d \in Far : \A e \in Far : d <= e
  <2>1. Far \in SUBSET Nat /\ Far # {}
    BY <1>2 DEF C
  <2> HIDE DEF Far
  <2> QED
    BY <2>1, LeastElement
<1> DEFINE Early == {x.at : x \in {y \in C : Distance(y, m) = d}}
<1>4. PICK t \in Early : \A u \in Early : t <= u
  <2>1. Early \in SUBSET Nat /\ Early # {}
    BY <1>1, <1>3
  <2> HIDE DEF Early
  <2> QED
    BY <2>1, LeastElement
<1>5. PICK x \in C : Distance(x, m) = d /\ x.at = t
  BY <1>4
<1>6. ASSUME NEW y \in C PROVE Nearer(x, y, m)
  <2>1. d <= Distance(y, m) /\ d \in Nat /\ Distance(y, m) \in Nat
    BY <1>2, <1>3
  <2>2. Distance(y, m) = d => t <= y.at
    BY <1>4
  <2> QED
    BY <1>5, <2>1, <2>2 DEF Nearer
<1>7. \E z \in C : \A y \in C : Nearer(z, y, m)
  BY <1>6
<1> QED
  BY <1>7 DEF LocalReplyMatch, C

\* Rows of a session after a message: known by its identifier, claimed, or new.
Replaced(rs, old, new) == {x \in rs : x.ext # old.ext} \cup {new}

LEMMA KnownRow ==
    ASSUME IInv, NEW rs \in SUBSET RowSet, RowsInv(rs), NEW old \in rs,
           old.ext # 0, NEW new \in RowSet, new.ext = old.ext, new.reply = old.reply
    PROVE  /\ Replaced(rs, old, new) \in SUBSET RowSet /\ RowsInv(Replaced(rs, old, new))
           /\ \A x \in rs : \E y \in Replaced(rs, old, new) : y.reply = x.reply
<1> DEFINE out == Replaced(rs, old, new)
           rest == {x \in rs : x.ext # old.ext}
<1>1. \A x \in rs : x = old \/ x \in rest
  BY DEF RowsInv
<1>2. \A x \in rest : x \in rs /\ x # old /\ x.ext # old.ext
  OBVIOUS
<1>3. \A x : x \in out <=> x = new \/ x \in rest
  BY DEF Replaced
<1> HIDE DEF rest, out
<1>5. RowsInv(out)
  <2>1. ASSUME NEW x \in out
        PROVE  /\ x.ext \in 0..Len(thread)
               /\ x.reply = None => x.ext # 0
               /\ x.reply # None =>
                    /\ reply[x.reply].pc \in {"stored", "done"} /\ Delivered(x.reply)
                    /\ x.ext # 0 => thread[x.ext].body = BodyOf[x.reply]
                    /\ reply[x.reply].answer.id => x.ext = reply[x.reply].answer.msg
    <3>1. PICK z \in rs : z.ext = x.ext /\ z.reply = x.reply
      BY <1>2, <1>3
    <3> QED
      BY <3>1 DEF RowsInv
  <2>2. \A x \in rest : ~(x.ext = new.ext) /\ (x.reply = new.reply => x.reply = None)
    BY <1>2 DEF RowsInv
  <2>3. \A x, y \in rest : (x.ext = y.ext /\ x.ext # 0) \/ (x.reply = y.reply /\ x.reply # None) => x = y
    BY <1>2 DEF RowsInv
  <2>4. \A x, y \in out :
            (x.ext = y.ext /\ x.ext # 0) \/ (x.reply = y.reply /\ x.reply # None) => x = y
    BY <1>3, <2>2, <2>3
  <2> QED
    BY <2>1, <2>4 DEF RowsInv
<1> QED
  BY <1>1, <1>2, <1>3, <1>5 DEF out

LEMMA ClaimedRow ==
    ASSUME IInv, NEW rs \in SUBSET RowSet, RowsInv(rs), NEW k \in DOMAIN thread,
           \A x \in rs : x.ext # k, NEW local \in Claimable(rs, thread[k]),
           NEW new \in RowSet, new.ext = k, new.reply = local.reply, NEW out, out = (rs \ {local}) \cup {new}
    PROVE  /\ out \in SUBSET RowSet /\ RowsInv(out)
           /\ \A x \in rs : \E y \in out : y.reply = x.reply
<1>1. local \in rs /\ local \in RowSet /\ local.ext = 0 /\ BodyOf[local.reply] = thread[k].body
  BY DEF Claimable
<1>2. local.reply \in Reply /\ local.reply # None /\ ~reply[local.reply].answer.id
  <2>1. local.reply # None /\ local.reply \in Reply /\ Delivered(local.reply)
    BY <1>1 DEF RowsInv, RowSet
  <2>2. PICK j \in DOMAIN thread : thread[j].reply = local.reply
    BY <2>1 DEF Delivered
  <2>3. reply[local.reply].answer.msg = j
    BY <2>1, <2>2 DEF IInv, SentInv
  <2>4. j # 0
    BY <2>2 DEF IInv, TypeOK
  <2> QED
    BY <1>1, <2>1, <2>3, <2>4 DEF RowsInv
<1>3. k \in 1..Len(thread) /\ Len(thread) <= scope.thread /\ Len(thread) \in Nat /\ scope.thread \in Nat
      /\ thread[k].at \in 1..scope.clock /\ k # 0
  BY Named, ScopeBounds DEF IInv, TypeOK, ReadsInv, MessageSet
<1>4. new \in RowSet /\ new.ext = k /\ new.reply = local.reply
  OBVIOUS
<1>5. \A x \in rs \ {local} : x \in rs /\ x # local /\ x.ext # k
  OBVIOUS
<1>6. RowsInv(out)
  <2>1. ASSUME NEW x \in out
        PROVE  /\ x.ext \in 0..Len(thread)
               /\ x.reply = None => x.ext # 0
               /\ x.reply # None =>
                    /\ reply[x.reply].pc \in {"stored", "done"} /\ Delivered(x.reply)
                    /\ x.ext # 0 => thread[x.ext].body = BodyOf[x.reply]
                    /\ reply[x.reply].answer.id => x.ext = reply[x.reply].answer.msg
    <3>1. CASE x = new
      BY <3>1, <1>1, <1>2, <1>3, <1>4 DEF RowsInv
    <3>2. CASE x # new
      BY <3>2, <1>5 DEF RowsInv
    <3> QED
      BY <3>1, <3>2
  <2>2. \A x \in rs \ {local} : ~(x.ext = new.ext) /\ (x.reply = new.reply => x.reply = None)
    BY <1>1, <1>4, <1>5 DEF RowsInv
  <2>3. \A x, y \in rs \ {local} : (x.ext = y.ext /\ x.ext # 0) \/ (x.reply = y.reply /\ x.reply # None) => x = y
    BY <1>5 DEF RowsInv
  <2>4. \A x, y \in out :
            (x.ext = y.ext /\ x.ext # 0) \/ (x.reply = y.reply /\ x.reply # None) => x = y
    BY <2>2, <2>3
  <2> QED
    BY <2>1, <2>4 DEF RowsInv
<1> QED
  BY <1>4, <1>6

LEMMA AddedRow ==
    ASSUME IInv, NEW rs \in SUBSET RowSet, RowsInv(rs), NEW k \in DOMAIN thread,
           \A x \in rs : x.ext # k,
           NEW new, new = [ext |-> k, at |-> thread[k].at, from |-> thread[k].from, reply |-> None]
    PROVE  /\ rs \cup {new} \in SUBSET RowSet
           /\ RowsInv(rs \cup {new})
           /\ \A x \in rs : \E y \in rs \cup {new} : y.reply = x.reply
<1>1. k \in 1..Len(thread) /\ Len(thread) <= scope.thread /\ Len(thread) \in Nat /\ scope.thread \in Nat
      /\ thread[k] \in MessageSet /\ k # 0
  BY Named, ScopeBounds DEF IInv, TypeOK, ReadsInv
<1>2. new \in RowSet /\ new.ext = k /\ new.reply = None
  BY <1>1 DEF RowSet, MessageSet
<1>3. RowsInv(rs \cup {new})
  BY <1>1, <1>2 DEF RowsInv
<1> QED
  BY <1>2, <1>3

\* The cycles of a session as sequences.
LEMMA SessionCycles ==
    ASSUME NEW s \in Sessions
    PROVE  /\ s.seen \in Seq(CycleSet) /\ s.mem \in Seq(CycleSet)
           /\ Len(s.seen) \in Nat /\ Len(s.mem) \in Nat
           /\ DOMAIN s.seen = 1..Len(s.seen) /\ DOMAIN s.mem = 1..Len(s.mem)
           /\ SessionInv(s) /\ s \in SessionSet
<1>1. s.seen \in Seq(CycleSet) /\ s.mem \in Seq(CycleSet) /\ SessionInv(s) /\ s \in SessionSet
  BY DEF Sessions, SessionSet
<1> QED
  BY <1>1

LEMMA RowsReplaced ==
    ASSUME NEW s \in Sessions, NEW rs \in SUBSET RowSet, RowsInv(rs),
           \A x \in s.rows : \E y \in rs : y.reply = x.reply
    PROVE  [s EXCEPT !.rows = rs] \in Sessions
<1> DEFINE t == [s EXCEPT !.rows = rs]
<1>1. SessionInv(s) /\ s \in SessionSet
  BY DEF Sessions
<1>2. t \in SessionSet /\ t.rows = rs /\ t.seen = s.seen /\ t.mem = s.mem
  BY <1>1 DEF SessionSet
<1> HIDE DEF t
<1>3. SessionInv(t)
  BY <1>1, <1>2 DEF SessionInv
<1> QED
  BY <1>2, <1>3 DEF Sessions, t

LEMMA FlushTyped == ASSUME NEW s \in Sessions PROVE Flush(s) \in Sessions
<1> DEFINE t == Flush(s)
<1>1. SessionInv(s) /\ s \in SessionSet /\ Len(s.mem) \in Nat
  BY SessionCycles
<1>2. t \in SessionSet /\ t.rows = s.rows /\ t.seen = s.mem /\ t.mem = s.mem
  BY <1>1 DEF SessionSet, Flush
<1> HIDE DEF t
<1>3. SessionInv(t)
  BY <1>1, <1>2 DEF SessionInv
<1> QED
  BY <1>2, <1>3 DEF Sessions, t

LEMMA StartTyped ==
    ASSUME IInv, NEW s \in Sessions, NEW at \in 1..scope.clock
    PROVE  StartCycle(s, at) \in Sessions
<1> DEFINE e == [start |-> at, end |-> 0, by |-> None]
           t == [s EXCEPT !.mem = Append(@, e), !.status = Reopened(@)]
<1> SUFFICES ASSUME ~ \E i \in DOMAIN s.mem : i > Len(s.seen) /\ s.mem[i].end = 0,
                    ~ \E i \in DOMAIN s.seen : s.seen[i].end = 0
             PROVE  t \in Sessions
  BY DEF StartCycle
<1>1. /\ SessionInv(s) /\ s \in SessionSet /\ s.mem \in Seq(CycleSet) /\ Len(s.mem) \in Nat
      /\ DOMAIN s.mem = 1..Len(s.mem) /\ DOMAIN s.seen = 1..Len(s.seen) /\ Len(s.seen) \in Nat
  BY SessionCycles
<1>2. e \in CycleSet /\ e.end = 0 /\ e.by = None
  BY ScopeBounds DEF CycleSet, IInv, ReadsInv
<1> HIDE DEF e
<1>3. /\ Append(s.mem, e) \in Seq(CycleSet) /\ Len(Append(s.mem, e)) = Len(s.mem) + 1
      /\ Append(s.mem, e)[Len(s.mem) + 1] = e
      /\ \A i \in 1..Len(s.mem) : Append(s.mem, e)[i] = s.mem[i]
  BY <1>1, <1>2, AppendProperties
<1>4. Reopened(s.status) \in Statuses
  BY <1>1 DEF SessionSet, Reopened, Statuses
<1>5. /\ t \in SessionSet /\ t.rows = s.rows /\ t.seen = s.seen /\ t.mem = Append(s.mem, e)
  BY <1>1, <1>3, <1>4 DEF SessionSet
<1> HIDE DEF t
<1>6. \A i \in DOMAIN s.mem : s.mem[i].end # 0
  <2>1. \A i \in DOMAIN s.mem : i > Len(s.seen) \/ i \in DOMAIN s.seen
    BY <1>1
  <2> QED
    BY <2>1, <1>1 DEF SessionInv
<1>7. \A i \in DOMAIN t.mem : Credited(t.mem[i].by) /\ (t.mem[i].end = 0 => i = Len(t.mem))
  <2>1. \A i \in DOMAIN t.mem : i = Len(s.mem) + 1 \/ i \in DOMAIN s.mem
    BY <1>1, <1>3, <1>5
  <2> QED
    BY <2>1, <1>1, <1>2, <1>3, <1>5, <1>6 DEF SessionInv, Credited
<1>8. Len(t.seen) <= Len(t.mem) /\ Len(cycles) <= Len(t.mem)
  <2>1. Len(cycles) \in Nat
    BY DEF IInv, TypeOK
  <2> QED
    BY <2>1, <1>1, <1>3, <1>5 DEF SessionInv
<1>9. \A i \in DOMAIN t.seen : t.mem[i].end # 0
  <2>1. \A i \in DOMAIN t.seen : i \in DOMAIN s.mem
    BY <1>1, <1>5 DEF SessionInv
  <2> QED
    BY <2>1, <1>1, <1>3, <1>5, <1>6
<1>10. SessionInv(t)
  BY <1>1, <1>5, <1>7, <1>8, <1>9 DEF SessionInv
<1> QED
  BY <1>5, <1>10 DEF Sessions, t

LEMMA CompleteTyped ==
    ASSUME IInv, NEW s \in Sessions, NEW at \in 1..scope.clock
    PROVE  CompleteAfterReply(s, None, at) \in Sessions
<1> DEFINE c == Answered(s.seen, at)
<1> SUFFICES ASSUME s.status # "CLOSED", c # 0
             PROVE  [s EXCEPT !.mem[c].end = at, !.mem[c].by = None, !.status = "RESOLVED"] \in Sessions
  BY DEF CompleteAfterReply
<1>1. /\ SessionInv(s) /\ s \in SessionSet /\ s.mem \in Seq(CycleSet) /\ Len(s.mem) \in Nat
      /\ DOMAIN s.mem = 1..Len(s.mem) /\ DOMAIN s.seen = 1..Len(s.seen) /\ Len(s.seen) \in Nat
      /\ s.seen \in Seq(CycleSet)
  BY SessionCycles
<1>2. c \in DOMAIN s.seen /\ c \in 1..Len(s.mem)
  <2>1. c \in DOMAIN s.seen
    BY <1>1, AnsweredPosition
  <2> QED
    BY <2>1, <1>1 DEF SessionInv
<1> HIDE DEF c
<1> DEFINE e == [s.mem[c] EXCEPT !.end = at, !.by = None]
           mem == [s.mem EXCEPT ![c] = e]
           t == [s EXCEPT !.mem = mem, !.status = "RESOLVED"]
<1>3. s.mem[c] \in CycleSet
  BY <1>1, <1>2, ElementOfSeq
<1>4. e \in CycleSet /\ e.end # 0 /\ e.by = None
  <2>1. at \in 0..scope.clock /\ at # 0
    BY ScopeBounds DEF IInv, ReadsInv
  <2> QED
    BY <1>3, <2>1 DEF CycleSet
<1> HIDE DEF e
<1>5. /\ mem \in Seq(CycleSet) /\ Len(mem) = Len(s.mem) /\ DOMAIN mem = DOMAIN s.mem
      /\ mem[c] = e /\ \A i \in DOMAIN s.mem : i # c => mem[i] = s.mem[i]
  BY <1>1, <1>2, <1>4, ExceptSeq
<1> HIDE DEF mem
<1>6. t \in SessionSet /\ t.rows = s.rows /\ t.seen = s.seen /\ t.mem = mem
  BY <1>1, <1>5 DEF SessionSet, Statuses
<1>7. [s EXCEPT !.mem[c].end = at, !.mem[c].by = None, !.status = "RESOLVED"] = t
  BY <1>1, <1>2, <1>3 DEF e, mem, SessionSet, CycleSet
<1> HIDE DEF t
<1>8. \A i \in DOMAIN t.mem : Credited(t.mem[i].by) /\ (t.mem[i].end = 0 => i = Len(t.mem))
  BY <1>1, <1>4, <1>5, <1>6 DEF SessionInv, Credited
<1>9. \A i \in DOMAIN t.seen : t.mem[i].end = 0 => t.seen[i].end = 0
  <2>1. \A i \in DOMAIN s.seen : i \in DOMAIN s.mem
    BY <1>1 DEF SessionInv
  <2> QED
    BY <2>1, <1>1, <1>4, <1>5, <1>6 DEF SessionInv
<1>10. SessionInv(t)
  BY <1>1, <1>5, <1>6, <1>8, <1>9 DEF SessionInv
<1> QED
  BY <1>6, <1>7, <1>10 DEF Sessions

LEMMA ImportRowTyped ==
    ASSUME IInv, NEW s \in Sessions, NEW k \in DOMAIN thread
    PROVE  ImportRow(s, k) \in Sessions
<1> DEFINE m == thread[k]
           known == {x \in s.rows : x.ext = k}
           new == [ext |-> k, at |-> m.at, from |-> m.from, reply |-> None]
           added == [s EXCEPT !.rows = @ \cup {new}]
           begun == StartCycle(added, m.at)
<1>1. /\ s \in SessionSet /\ s.rows \in SUBSET RowSet /\ RowsInv(s.rows) /\ SessionInv(s)
      /\ m \in MessageSet /\ m.at \in 1..scope.clock /\ k # 0
  <2>1. s \in SessionSet /\ SessionInv(s)
    BY SessionCycles
  <2>2. m \in MessageSet /\ k # 0
    BY Named DEF IInv, TypeOK
  <2> QED
    BY <2>1, <2>2 DEF SessionSet, SessionInv, MessageSet
<1> HIDE DEF m
<1>2. CASE known # {}
  <2> DEFINE old == CHOOSE x \in known : TRUE
             upd == [old EXCEPT !.at = m.at]
             rs == Replaced(s.rows, old, upd)
  <2>1. old \in known /\ old \in s.rows /\ old.ext = k
    BY <1>2
  <2>2. rs = (s.rows \ known) \cup {upd}
    BY <2>1 DEF Replaced
  <2> HIDE DEF old, known
  <2>3. rs \in SUBSET RowSet /\ RowsInv(rs) /\ \A x \in s.rows : \E y \in rs : y.reply = x.reply
    <3> HIDE DEF upd
    <3>2. upd \in RowSet /\ upd.ext = old.ext /\ upd.reply = old.reply
      BY <1>1, <2>1 DEF upd, RowSet
    <3>3. s.rows \in SUBSET RowSet /\ RowsInv(s.rows) /\ old \in s.rows /\ old.ext # 0
      BY <1>1, <2>1
    <3> QED
      BY ONLY IInv, <3>2, <3>3, KnownRow
  <2> HIDE DEF rs
  <2>4. [s EXCEPT !.rows = rs] \in Sessions
    BY <2>3, RowsReplaced
  <2>5. ImportRow(s, k) = [s EXCEPT !.rows = rs]
    BY <1>2, <2>2 DEF ImportRow, known, old, m
  <2> QED
    BY <2>4, <2>5
<1>3. CASE known = {} /\ Claimable(s.rows, m) # {}
  <2> DEFINE local == LocalReplyMatch(s.rows, m)
             upd == [local EXCEPT !.ext = k, !.at = m.at]
             rs == (s.rows \ {local}) \cup {upd}
  <2>1. local \in Claimable(s.rows, m)
    BY <1>1, <1>3, NearestClaimed DEF IInv, ReadsInv
  <2>2. \A x \in s.rows : x.ext # k
    BY <1>3
  <2> HIDE DEF local
  <2>3. rs \in SUBSET RowSet /\ RowsInv(rs) /\ \A x \in s.rows : \E y \in rs : y.reply = x.reply
    <3> HIDE DEF upd, rs
    <3>1. rs = (s.rows \ {local}) \cup {upd}
      BY DEF rs
    <3>2. upd \in RowSet /\ upd.ext = k /\ upd.reply = local.reply
      <4>1. local \in RowSet /\ k \in 0..scope.thread
        BY <1>1, <2>1, ScopeBounds DEF Claimable, IInv, TypeOK, ReadsInv
      <4> QED
        BY <1>1, <4>1 DEF upd, RowSet
    <3> QED
      BY <1>1, <2>1, <2>2, <3>1, <3>2, ClaimedRow DEF m
  <2> HIDE DEF rs
  <2>4. Flush([s EXCEPT !.rows = rs]) \in Sessions
    BY <2>3, RowsReplaced, FlushTyped
  <2>5. ImportRow(s, k) = Flush([s EXCEPT !.rows = rs])
    BY <1>3 DEF ImportRow, local, rs, m
  <2> QED
    BY <2>4, <2>5
<1>4. CASE known = {} /\ Claimable(s.rows, m) = {}
  <2>1. \A x \in s.rows : x.ext # k
    BY <1>4
  <2>2. s.rows \cup {new} \in SUBSET RowSet /\ RowsInv(s.rows \cup {new})
        /\ \A x \in s.rows : \E y \in s.rows \cup {new} : y.reply = x.reply
    <3> HIDE DEF new
    <3>1. new = [ext |-> k, at |-> thread[k].at, from |-> thread[k].from, reply |-> None]
      BY DEF new, m
    <3> QED
      BY <1>1, <2>1, <3>1, AddedRow
  <2>3. added \in Sessions
    <3> DEFINE rs == s.rows \cup {new}
    <3>1. added = [s EXCEPT !.rows = rs]
      OBVIOUS
    <3> HIDE DEF added, new
    <3>2. rs \in SUBSET RowSet /\ RowsInv(rs) /\ \A x \in s.rows : \E y \in rs : y.reply = x.reply
      BY <2>2
    <3> HIDE DEF rs
    <3> QED
      BY <3>1, <3>2, RowsReplaced
  <2>4. ImportRow(s, k) \in {begun, Flush(begun), CompleteAfterReply(added, None, m.at), added}
    BY <1>4 DEF ImportRow, m
  <2> HIDE DEF added
  <2>5. begun \in Sessions
    BY <1>1, <2>3, StartTyped
  <2> HIDE DEF begun
  <2>6. Flush(begun) \in Sessions /\ CompleteAfterReply(added, None, m.at) \in Sessions
    BY <1>1, <2>3, <2>5, FlushTyped, CompleteTyped
  <2> QED
    BY <2>3, <2>4, <2>5, <2>6
<1> QED
  BY <1>2, <1>3, <1>4

\* The import's session after each of its messages.
LEMMA SessionIs ==
    ASSUME IInv, imp # None
    PROVE  /\ imp.upto \in Nat /\ Initial(0..imp.upto) /\ imp.status \in Statuses
           /\ \A k \in 0..imp.upto : k # 0 => k - 1 \in 0..imp.upto /\ k \in DOMAIN thread
           /\ Session[0] = [rows |-> rows, seen |-> cycles, mem |-> cycles, status |-> imp.status]
           /\ \A k \in 0..imp.upto : k # 0 => Session[k] = ImportRow(Session[k - 1], k)
           /\ \A k \in 0..imp.upto : Session[k] \in Sessions
<1> DEFINE D == 0..imp.upto
           b == [rows |-> rows, seen |-> cycles, mem |-> cycles, status |-> imp.status]
           F == [p \in Sessions \X (D \ {0}) |-> ImportRow(p[1], p[2])]
<1>1. imp.upto \in DOMAIN thread /\ imp.upto \in Nat /\ imp.status \in Statuses /\ Initial(D)
      /\ D \ {0} \subseteq DOMAIN thread
  <2>1. imp \in [upto : 1..Len(thread), status : Statuses] /\ DOMAIN thread = 1..Len(thread) /\ Len(thread) \in Nat
    BY DEF IInv, ReadsInv, TypeOK
  <2>2. imp.upto \in 1..Len(thread) /\ imp.upto \in Nat /\ imp.status \in Statuses
    BY <2>1
  <2>3. \A k \in D \ {0} : k \in 1..Len(thread)
    BY <2>1, <2>2
  <2> QED
    BY <2>1, <2>2, <2>3 DEF Initial
<1>2. b \in Sessions
  <2>1. b.rows = rows /\ b.seen = cycles /\ b.mem = cycles /\ b \in SessionSet
    BY <1>1 DEF IInv, TypeOK, RowSet, CycleSet, SessionSet
  <2> HIDE DEF b
  <2>2. Len(cycles) \in Nat
    BY DEF IInv, TypeOK
  <2>3. SessionInv(b)
    BY <2>1, <2>2 DEF SessionInv, IInv, CyclesInv, OpenCycles
  <2> QED
    BY <2>1, <2>3 DEF Sessions
<1> HIDE DEF b
<1>3. Initial(D)
  BY <1>1
<1>4. F \in [Sessions \X (D \ {0}) -> Sessions]
  BY <1>1, ImportRowTyped
<1>5. PICK g \in [D -> Sessions] : Recurses(g, D, b, F)
  <2> HIDE DEF F, D
  <2> QED
    BY ONLY <1>3, <1>2, <1>4, Recursion
<1>6. \A k \in D : k # 0 => F[<<g[k - 1], k>>] = ImportRow(g[k - 1], k)
  <2> SUFFICES ASSUME NEW k \in D, k # 0 PROVE F[<<g[k - 1], k>>] = ImportRow(g[k - 1], k)
    OBVIOUS
  <2>1. k - 1 \in D
    BY <1>1
  <2>2. <<g[k - 1], k>> \in Sessions \X (D \ {0})
    BY <2>1
  <2> QED
    BY <2>2
<1> HIDE DEF F
<1>7. g = [k \in D |-> IF k = 0 THEN b ELSE ImportRow(g[k - 1], k)]
  BY <1>5, <1>6 DEF Recurses
<1>8. \E f : f = [k \in D |-> IF k = 0 THEN b ELSE ImportRow(f[k - 1], k)]
  BY <1>7
<1>9. Session = [k \in D |-> IF k = 0 THEN b ELSE ImportRow(Session[k - 1], k)]
  <2>1. Session = CHOOSE f : f = [k \in D |-> IF k = 0 THEN b ELSE ImportRow(f[k - 1], k)]
    BY DEF Session, b
  <2> HIDE DEF D
  <2> QED
    BY <1>8, <2>1
<1> DEFINE Good == {k \in D : Session[k] \in Sessions}
<1>10. 0 \in D => 0 \in Good
  BY <1>2, <1>9
<1>11. ASSUME NEW n \in D, n # 0, n - 1 \in Good PROVE n \in Good
  <2>1. Session[n] = ImportRow(Session[n - 1], n) /\ Session[n - 1] \in Sessions
    BY <1>9, <1>11
  <2> QED
    BY <1>1, <1>11, <2>1, ImportRowTyped
<1>12. D \subseteq Good
  <2> HIDE DEF Good, D
  <2> QED
    BY <1>1, <1>10, <1>11, SetInduction
<1>13. 0 \in D /\ \A k \in D : k # 0 => k - 1 \in D /\ k \in DOMAIN thread
  BY <1>1
<1>14. Session[0] = b /\ \A k \in D : k # 0 => Session[k] = ImportRow(Session[k - 1], k)
  BY <1>9, <1>13
<1> QED
  BY <1>1, <1>12, <1>13, <1>14 DEF b

LEMMA ImportedTyped == ASSUME IInv, imp # None PROVE Imported \in Sessions
<1>1. imp.upto \in 0..imp.upto
  BY SessionIs
<1> QED
  BY <1>1, SessionIs DEF Imported

LEMMA ApplyInv == ASSUME IInv, ImportApply PROVE IInv'
<1> DEFINE s == Imported
<1>1. /\ rows' = s.rows /\ cycles' = s.mem /\ imp' = None /\ entangled' \in BOOLEAN
      /\ status' = (IF s.status = imp.status THEN status ELSE s.status)
      /\ UNCHANGED <<clock, thread, owned, holders, assigns, attempt, reply, assigner, scope>>
  BY DEF ImportApply
<1>2. s \in Sessions
  BY ImportedTyped DEF ImportApply
<1> HIDE DEF s
<1>3. /\ SessionInv(s) /\ s \in SessionSet /\ s.mem \in Seq(CycleSet) /\ Len(s.mem) \in Nat
      /\ DOMAIN s.mem = 1..Len(s.mem)
  BY <1>2, SessionCycles
<1>4. s.rows \subseteq RowSet /\ s.status \in Statuses
  BY <1>3 DEF SessionSet
<1>5. TypeOK'
  <2>1. Len(cycles) <= Len(s.mem) /\ Len(cycles) \in Nat
    BY <1>3 DEF SessionInv, IInv, TypeOK
  <2>2. \A r \in Reply : reply[r].pc = "read" /\ ~reply[r].gone => reply[r].cycle \in 0..Len(s.mem)
    BY <2>1, <1>3 DEF IInv, TypeOK
  <2>3. status' \in Statuses
    BY <1>1, <1>4 DEF IInv, TypeOK
  <2> QED
    BY <1>1, <1>3, <1>4, <2>2, <2>3 DEF IInv, TypeOK, RowSet, CycleSet
<1>6. ReadsInv'
  BY <1>1 DEF IInv, ReadsInv, ReplySet, HolderSet
<1>7. SentInv'
  BY <1>1 DEF IInv, SentInv
<1>8. RowsInv(rows)'
  BY <1>1, <1>3 DEF SessionInv, RowsInv, Delivered
<1>9. AuditInv'
  <2>1. ASSUME NEW q \in Reply, Worded(rows, q) PROVE Worded(rows, q)'
    <3>1. PICK x \in rows : x.reply # None /\ BodyOf[x.reply] = BodyOf[q]
      BY <2>1 DEF Worded
    <3>2. PICK y \in s.rows : y.reply = x.reply
      BY <1>3, <3>1 DEF SessionInv
    <3> QED
      BY <1>1, <3>1, <3>2 DEF Worded
  <2>2. \A q : Delivered(q)' <=> Delivered(q)
    BY <1>1 DEF Delivered
  <2> QED
    BY <1>1, <2>1, <2>2 DEF IInv, AuditInv
<1>10. CyclesInv'
  BY <1>1, <1>3 DEF SessionInv, CyclesInv, Credited, OpenCycles, Delivered
<1> QED
  BY <1>5, <1>6, <1>7, <1>8, <1>9, <1>10 DEF IInv
-----------------------------------------------------------------------------
LEMMA ReplyInv == ASSUME IInv, NEW r \in Reply, ReplyNext(r) PROVE IInv'
BY ClickInv, CheckInv, EndsInv, SendInv, RejectedInv, ReadInv, CommitInv, CollidesInv, ConfirmInv
   DEF ReplyNext

LEMMA StepInv == IInv /\ [Next]_vars => IInv'
<1> SUFFICES ASSUME IInv, [Next]_vars PROVE IInv'
  OBVIOUS
<1>1. CASE \E from \in {"buyer", "seller", "ebay"} : Write(from)
  BY <1>1, WriteInv
<1>2. CASE ImportNext
  BY <1>2, LoadInv, ApplyInv DEF ImportNext
<1>3. CASE \E r \in Reply : ReplyNext(r)
  BY <1>3, ReplyInv
<1>4. CASE UserNext
  BY <1>4, UserInv
<1>5. CASE Repair
  BY <1>5, RepairInv
<1>6. CASE UNCHANGED vars
  BY <1>6, StutterInv
<1> QED
  BY <1>1, <1>2, <1>3, <1>4, <1>5, <1>6 DEF Next

LEMMA Invariance == Spec => []IInv
BY InitInv, StepInv, PTL DEF Spec

\* A reply commits, an import applies and a repair rebuilds what fits the state they
\* find, however they interleave: in particular a reply never closes a cycle that is
\* not there.
THEOREM TypeCorrect == Spec => []TypeOK
<1>1. IInv => TypeOK
  BY DEF IInv
<1> QED
  BY Invariance, <1>1, PTL

\* The audit trail and the credit for closed cycles are true: an attempt that FAILED
\* never left, one with SUCCESS was sent and a reply of its text is stored, and agents
\* are credited only for what eBay accepted.
THEOREM RecordsAreTrue == Spec => []AttemptTruth
<1>1. IInv => AttemptTruth
  BY DEF IInv, AuditInv, CyclesInv, Credited, Worded, AttemptTruth
<1> QED
  BY Invariance, <1>1, PTL

\* A reply whose answer named its message has one row, whoever stored it first.
THEOREM RepliesStoredOnce == Spec => []StoredOnce
<1>1. IInv => StoredOnce
  <2> SUFFICES ASSUME IInv, NEW k \in DOMAIN thread, thread[k].reply # None,
                      reply[thread[k].reply].answer.id
               PROVE  Cardinality({x \in rows : x.ext = k \/ x.reply = thread[k].reply}) <= 1
    BY DEF StoredOnce
  <2> DEFINE r == thread[k].reply
             T == {x \in rows : x.ext = k \/ x.reply = r}
  <2>1. k # 0 /\ reply[r].answer.msg = k
    BY DEF IInv, SentInv, TypeOK
  <2>2. \A x \in T : x.ext = k
    BY <2>1 DEF IInv, RowsInv
  <2>3. \A x, y \in T : x = y
    BY <2>1, <2>2 DEF IInv, RowsInv
  <2> HIDE DEF T
  <2>4. CASE T = {}
    <3>1. Cardinality(T) = 0
      BY <2>4, FS_EmptySet
    <3> QED
      BY <3>1 DEF T
  <2>5. CASE T # {}
    <3>1. PICK x \in T : TRUE
      BY <2>5
    <3>2. T = {x}
      BY <2>3, <3>1
    <3>3. Cardinality(T) = 1
      BY <3>2, FS_Singleton
    <3> QED
      BY <3>3 DEF T
  <2> QED
    BY <2>4, <2>5
<1> QED
  BY Invariance, <1>1, PTL

\* At most the last SLA cycle is open, although the import looks for an open one in what
\* it has flushed and the replies close the one they read.
OnlyTheLastIsOpen == OpenCycles \subseteq {Len(cycles)}
THEOREM OneCycleOpen == Spec => []OnlyTheLastIsOpen
<1>1. IInv => OnlyTheLastIsOpen
  BY DEF IInv, CyclesInv, OnlyTheLastIsOpen
<1> QED
  BY Invariance, <1>1, PTL
=============================================================================
