------------------------------- MODULE Inbox -------------------------------
(***************************************************************************)
(* One conversation of the helpdesk: the sync imports what eBay lists,     *)
(* agents reply, assign, close; an SLA cycle opens with a buyer's message  *)
(* and closes with the first reply.                                        *)
(*                                                                         *)
(* Every session runs with autoflush off: a query sees what is committed   *)
(* and what its own transaction has flushed, not the objects it changed    *)
(* since.  The import locks the conversation's row when it flushes it,     *)
(* before its first message, so nothing else that writes the conversation  *)
(* commits until the import does: it is one step, but for the read of the  *)
(* conversation that precedes the lock.                                    *)
(***************************************************************************)
EXTENDS Integers, Sequences, FiniteSets, FiniteSetsExt

CONSTANTS
    Reply,      \* replies sent through the helpdesk
    AgentOf,    \* who sends each reply
    BodyOf,     \* what each reply says
    Agent,      \* users a conversation can be assigned to
    None,
    Window,     \* LOCAL_REPLY_MATCH_WINDOW
    Scopes      \* bounds, one of which a behaviour keeps to: messages eBay has
                \* (thread), assignments (assigns), the clock (clock), replies
                \* sent (replies), statuses users set (statuses), repairs run
                \* (repairs)

ASSUME AgentAssumption == None \notin Agent \cup Reply /\ AgentOf \in [Reply -> Agent]
ASSUME WindowAssumption == Window \in Nat
ASSUME ScopeAssumption ==
    Scopes \subseteq [thread : Nat, assigns : Nat, clock : Nat, replies : SUBSET Reply,
                     statuses : SUBSET {"OPEN", "PENDING", "RESOLVED", "CLOSED"}, repairs : BOOLEAN]

VARIABLES
    clock,      \* now: every message has its own date
    thread,     \* eBay: the messages of the conversation by date
    rows,       \* messages stored; ext is the position in thread, 0 for local-reply-
    cycles,     \* SLA cycles by number; end is 0 while open
    status,     \* Conversation.status
    owned,      \* the conversation's category has owners to notify
    holders,    \* open assignments: who, and the order they were made in
    assigns,    \* assignments made
    attempt,    \* audit status of each reply, "NONE" before the click
    reply,      \* where each reply stands, and what it has read
    imp,        \* the import: what it loaded, or None
    assigner,   \* an assignment in progress, or None
    scope,      \* the bounds of this behaviour
    entangled   \* history: some import met more than one unknown message, or a
                \* reply under way, or the thread was closed

vars == <<clock, thread, rows, cycles, status, owned, holders, assigns,
          attempt, reply, imp, assigner, scope, entangled>>

Statuses == {"OPEN", "PENDING", "RESOLVED", "CLOSED"}
NoAnswer == [msg |-> 0, id |-> FALSE]
Fresh == [pc |-> "idle", at |-> 0, status |-> "OPEN", answer |-> NoAnswer,
          cycle |-> 0, row |-> FALSE, holder |-> None, gone |-> FALSE]

Init ==
    /\ clock = 0 /\ thread = <<>> /\ rows = {} /\ cycles = <<>>
    /\ status = "OPEN" /\ owned \in BOOLEAN
    /\ holders = {} /\ assigns = 0
    /\ attempt = [r \in Reply |-> "NONE"]
    /\ reply = [r \in Reply |-> Fresh]
    /\ imp = None /\ assigner = None /\ scope \in Scopes /\ entangled = FALSE

InFlight == {r \in Reply : reply[r].pc \in {"ready", "answered", "read"}}
Unknown == {k \in DOMAIN thread : \A x \in rows : x.ext # k}
-----------------------------------------------------------------------------
(* What eBay does: messages of the buyer, of eBay itself, and of the       *)
(* seller's own account outside the helpdesk.                              *)

Listed(from, r, body) == [from |-> from, at |-> clock + 1, reply |-> r, body |-> body]

Write(from) ==
    /\ Len(thread) < scope.thread /\ clock < scope.clock
    /\ clock' = clock + 1
    /\ thread' = Append(thread, Listed(from, None, "other"))
    /\ entangled' = (entangled \/ InFlight # {})
    /\ UNCHANGED <<rows, cycles, status, owned, holders, assigns, attempt,
                   reply, imp, assigner, scope>>
-----------------------------------------------------------------------------
(* The import.  A session holds the rows and cycles its queries see (rows, *)
(* seen), the cycles as its objects stand (mem) and the status.            *)

Reopened(st) == IF st = "CLOSED" THEN st ELSE "OPEN"

\* First the cycles added and not flushed yet, then the query.
StartCycle(s, at) ==
    IF \/ \E i \in DOMAIN s.mem : i > Len(s.seen) /\ s.mem[i].end = 0
       \/ \E i \in DOMAIN s.seen : s.seen[i].end = 0
    THEN s
    ELSE [s EXCEPT !.mem = Append(@, [start |-> at, end |-> 0, by |-> None]),
                   !.status = Reopened(@)]

\* The open cycle a reply of that date answers, 0 for none.
M_AnsweredAny(cs, at) == Cardinality({i \in DOMAIN cs : cs[i].start < at}) + 1
M_Answered(cs, at) == Max({0} \cup {i \in DOMAIN cs : cs[i].start < at})
Answered(cs, at) == Max({0} \cup {i \in DOMAIN cs : cs[i].end = 0 /\ cs[i].start < at})

CompleteAfterReply(s, by, at) ==
    LET i == Answered(s.seen, at)
    IN  IF s.status = "CLOSED" \/ i = 0 THEN s
        ELSE [s EXCEPT !.mem[i].end = at, !.mem[i].by = by, !.status = "RESOLVED"]

Flush(s) == [s EXCEPT !.seen = s.mem]

Distance(x, m) == IF x.at > m.at THEN x.at - m.at ELSE m.at - x.at
\* The stored replies without a provider id that the message may be.
Claimable(rs, m) ==
    {x \in rs : /\ x.ext = 0 /\ m.from = "seller"
                /\ BodyOf[x.reply] = m.body /\ Distance(x, m) <= Window}
Nearer(x, y, m) == \/ Distance(x, m) < Distance(y, m)
                   \/ Distance(x, m) = Distance(y, m) /\ x.at <= y.at
LocalReplyMatch(rs, m) ==
    CHOOSE x \in Claimable(rs, m) : \A y \in Claimable(rs, m) : Nearer(x, y, m)

ImportRow(s, k) ==
    LET m == thread[k]
        known == {x \in s.rows : x.ext = k}
        old == CHOOSE x \in known : TRUE
        local == LocalReplyMatch(s.rows, m)
        added == [s EXCEPT !.rows = @ \cup {[ext |-> k, at |-> m.at, from |-> m.from, reply |-> None]}]
        begun == StartCycle(added, m.at)
    IN  CASE known # {} -> [s EXCEPT !.rows = (@ \ known) \cup {[old EXCEPT !.at = m.at]}]
          [] known = {} /\ Claimable(s.rows, m) # {} ->
                Flush([s EXCEPT !.rows = (@ \ {local}) \cup {[local EXCEPT !.ext = k, !.at = m.at]}])
          [] OTHER -> CASE m.from = "buyer" -> IF owned THEN Flush(begun) ELSE begun
                        [] m.from = "seller" -> CompleteAfterReply(added, None, m.at)
                        [] OTHER -> added

\* upsert_conversation reads the conversation; a fetched page may be behind.
ImportLoad ==
    /\ imp = None
    /\ \E n \in 1..Len(thread) :
          /\ \A x \in rows : x.ext <= n
          /\ imp' = [upto |-> n, status |-> status]
    /\ UNCHANGED <<clock, thread, rows, cycles, status, owned, holders, assigns,
                   attempt, reply, assigner, scope, entangled>>

\* The session after the first k messages of the page.
Session[k \in 0..imp.upto] ==
    IF k = 0 THEN [rows |-> rows, seen |-> cycles, mem |-> cycles, status |-> imp.status]
    ELSE ImportRow(Session[k - 1], k)
Imported == Session[imp.upto]

ImportApply ==
    /\ imp # None
    /\ rows' = Imported.rows /\ cycles' = Imported.mem
    /\ status' = IF Imported.status = imp.status THEN status ELSE Imported.status
    /\ imp' = None
    /\ entangled' = \/ entangled \/ InFlight # {}
                    \/ Cardinality(Unknown \cap (1..imp.upto)) > 1
    /\ UNCHANGED <<clock, thread, owned, holders, assigns, attempt, reply, assigner, scope>>

\* The conversation's savepoint is rolled back.
ImportFails ==
    /\ imp # None /\ imp' = None
    /\ UNCHANGED <<clock, thread, rows, cycles, status, owned, holders, assigns,
                   attempt, reply, assigner, scope, entangled>>
-----------------------------------------------------------------------------
(* A reply.                                                                *)

others == <<owned, imp, assigner, scope>>

ReplyClick(r) ==
    /\ reply[r].pc = "idle" /\ r \in scope.replies
    /\ attempt' = [attempt EXCEPT ![r] = "ATTEMPTED"]
    /\ reply' = [reply EXCEPT ![r].pc = "clicked"]
    /\ UNCHANGED <<clock, thread, rows, cycles, status, holders, assigns, entangled, others>>

\* Policy, message type, status and account; then the pending row of this date.
ReplyCheck(r) ==
    /\ reply[r].pc = "clicked" /\ status # "CLOSED" /\ clock < scope.clock
    /\ clock' = clock + 1
    /\ reply' = [reply EXCEPT ![r].pc = "ready", ![r].at = clock + 1, ![r].status = status]
    /\ entangled' = (entangled \/ InFlight # {} \/ imp # None \/ Unknown # {})
    /\ UNCHANGED <<thread, rows, cycles, status, holders, assigns, attempt, others>>

\* Refused by a check, or the process dies: whatever was not committed is lost.
ReplyEnds(r) ==
    /\ reply[r].pc \notin {"idle", "done"}
    /\ reply' = [reply EXCEPT ![r].pc = "done"]
    /\ UNCHANGED <<clock, thread, rows, cycles, status, holders, assigns, attempt,
                   entangled, others>>

\* eBay takes the message; its answer may omit the message's id, or get lost.
Answer(k, id) == [msg |-> k, id |-> id]

ReplySend(r) ==
    /\ reply[r].pc = "ready" /\ Len(thread) < scope.thread /\ clock < scope.clock
    /\ clock' = clock + 1
    /\ thread' = Append(thread, Listed("seller", r, BodyOf[r]))
    /\ \E id \in BOOLEAN, lost \in BOOLEAN :
          reply' = [reply EXCEPT ![r].pc = IF lost THEN "done" ELSE "answered",
                                 ![r].answer = Answer(Len(thread) + 1, id)]
    /\ UNCHANGED <<rows, cycles, status, holders, assigns, attempt, entangled, others>>

AfterRejection == "done"

ReplyRejected(r) ==
    /\ reply[r].pc = "ready"
    /\ reply' = [reply EXCEPT ![r].pc = AfterRejection]
    /\ attempt' = [attempt EXCEPT ![r] = "FAILED"]
    /\ UNCHANGED <<clock, thread, rows, cycles, status, holders, assigns, entangled, others>>

\* get_current_assignment: the open one made last.
CurrentHolder == IF holders = {} THEN None
                 ELSE CHOOSE h \in holders : \A g \in holders : g.no <= h.no

ReplyRead(r) ==
    /\ reply[r].pc = "answered"
    /\ reply' = [reply EXCEPT ![r].pc = "read",
                    ![r].row = reply[r].answer.id /\ \E x \in rows : x.ext = reply[r].answer.msg,
                    ![r].cycle = Answered(cycles, reply[r].at),
                    ![r].holder = CurrentHolder]
    /\ UNCHANGED <<clock, thread, rows, cycles, status, holders, assigns, attempt,
                   entangled, others>>

Reassign(old, who) == (holders \ {old}) \cup {[who |-> who, no |-> assigns + 1]}

\* uq_messages_provider_external_id refuses an id imported since the look; the update of a
\* cycle that the repair has deleted since changes no row, which the session refuses.
Collides(r) == LET a == reply[r].answer
               IN  a.id /\ ~reply[r].row /\ \E x \in rows : x.ext = a.msg

M_StoredReply(r) == [ext |-> 0, at |-> reply[r].at, from |-> "seller", reply |-> r]
StoredReply(r) == [ext |-> IF reply[r].answer.id THEN reply[r].answer.msg ELSE 0,
                   at |-> reply[r].at, from |-> "seller", reply |-> r]

ReplyCommit(r) ==
    LET me == AgentOf[r]  old == reply[r].holder  c == reply[r].cycle
        moves == old # None /\ old.who # me
    IN  /\ reply[r].pc = "read" /\ ~Collides(r) /\ ~reply[r].gone
        /\ moves => assigns < scope.assigns
        /\ rows' = {x \in rows : reply[r].row => x.ext # reply[r].answer.msg} \cup {StoredReply(r)}
        /\ cycles' = IF c = 0 THEN cycles
                     ELSE [cycles EXCEPT ![c].end = reply[r].at, ![c].by = me]
        /\ status' = IF c = 0 \/ reply[r].status = "RESOLVED" THEN status ELSE "RESOLVED"
        /\ holders' = IF moves THEN Reassign(old, me) ELSE holders
        /\ assigns' = IF moves THEN assigns + 1 ELSE assigns
        /\ reply' = [reply EXCEPT ![r].pc = "stored"]
        /\ UNCHANGED <<clock, thread, attempt, entangled, others>>

ReplyCollides(r) ==
    /\ reply[r].pc = "read" /\ (Collides(r) \/ reply[r].gone)
    /\ reply' = [reply EXCEPT ![r].pc = "done"]
    /\ UNCHANGED <<clock, thread, rows, cycles, status, holders, assigns, attempt,
                   entangled, others>>

M_Confirmable == {"answered", "read", "stored"}
Confirmable == {"stored"}

ReplyConfirm(r) ==
    /\ reply[r].pc \in Confirmable
    /\ attempt' = [attempt EXCEPT ![r] = "SUCCESS"]
    /\ reply' = [reply EXCEPT ![r].pc = "done"]
    /\ UNCHANGED <<clock, thread, rows, cycles, status, holders, assigns, entangled, others>>
-----------------------------------------------------------------------------
(* What users do to the conversation itself.                               *)

desk == <<clock, thread, rows, cycles, attempt, reply, imp, scope>>

UpdateStatus(new) ==
    /\ new \in scope.statuses
    /\ status' = new
    /\ entangled' = (entangled \/ new = "CLOSED")
    /\ UNCHANGED <<owned, holders, assigns, assigner, desk>>

UpdateCategory ==
    /\ scope.statuses # {}
    /\ owned' = ~owned
    /\ UNCHANGED <<status, holders, assigns, assigner, entangled, desk>>

AssignRead(who) ==
    /\ assigner = None /\ status # "CLOSED" /\ assigns < scope.assigns
    /\ assigner' = [who |-> who, old |-> CurrentHolder]
    /\ UNCHANGED <<status, owned, holders, assigns, entangled, desk>>

AssignCommit ==
    /\ assigner # None /\ assigns < scope.assigns
    /\ holders' = Reassign(assigner.old, assigner.who)
    /\ assigns' = assigns + 1
    /\ assigner' = None
    /\ UNCHANGED <<status, owned, entangled, desk>>

\* By the assignee, an admin or a manager.
Unassign ==
    /\ holders # {}
    /\ holders' = holders \ {CurrentHolder}
    /\ UNCHANGED <<status, owned, assigns, assigner, entangled, desk>>

-----------------------------------------------------------------------------
(* scripts/repair_sla_history.py --apply: rebuild the history from the     *)
(* stored messages, oldest first; rows are reused by number.               *)

Seen(s, x) ==
    CASE x.from = "buyer" /\ s.since = 0 -> [s EXCEPT !.since = x.at]
      [] x.from = "seller" /\ s.since # 0 /\ x.at > s.since ->
            [since |-> 0, done |-> Append(s.done, [start |-> s.since, row |-> x])]
      [] OTHER -> s

\* What the messages up to a date say.
Reviewed[d \in 0..clock] ==
    IF d = 0 THEN [since |-> 0, done |-> <<>>]
    ELSE IF \E x \in rows : x.at = d
         THEN Seen(Reviewed[d - 1], CHOOSE x \in rows : x.at = d)
         ELSE Reviewed[d - 1]
Rebuilt == Reviewed[clock]

\* The sender the message names, else whom the row credits with that very reply.
RepliedBy(i, x) ==
    IF x.reply # None THEN AgentOf[x.reply]
    ELSE IF i \in DOMAIN cycles /\ cycles[i].end = x.at THEN cycles[i].by ELSE None

ExpectedCycles ==
    [i \in DOMAIN Rebuilt.done |->
        [start |-> Rebuilt.done[i].start, end |-> Rebuilt.done[i].row.at,
         by |-> RepliedBy(i, Rebuilt.done[i].row)]]
    \o (IF Rebuilt.since = 0 THEN <<>> ELSE <<[start |-> Rebuilt.since, end |-> 0, by |-> None]>>)

Repair ==
    /\ scope.repairs
    /\ cycles' = ExpectedCycles
    /\ reply' = [r \in Reply |->
                    [reply[r] EXCEPT !.gone = @ \/ reply[r].cycle > Len(ExpectedCycles)]]
    /\ entangled' = \/ InFlight # {} \/ imp # None \/ Unknown # {} \/ status = "CLOSED"
                    \/ \E x \in rows : x.ext = 0 \/ thread[x.ext].at # x.at
    /\ UNCHANGED <<clock, thread, rows, status, owned, holders, assigns, attempt,
                   imp, assigner, scope>>
-----------------------------------------------------------------------------
ReplyNext(r) ==
    \/ ReplyClick(r) \/ ReplyCheck(r) \/ ReplyEnds(r) \/ ReplySend(r) \/ ReplyRejected(r)
    \/ ReplyRead(r) \/ ReplyCommit(r) \/ ReplyCollides(r) \/ ReplyConfirm(r)
UserNext ==
    \/ \E s \in Statuses : UpdateStatus(s)
    \/ UpdateCategory
    \/ \E u \in Agent : AssignRead(u)
    \/ AssignCommit \/ Unassign
ImportNext == ImportLoad \/ ImportApply \/ ImportFails

Next ==
    \/ \E from \in {"buyer", "seller", "ebay"} : Write(from)
    \/ ImportNext
    \/ \E r \in Reply : ReplyNext(r)
    \/ UserNext
    \/ Repair

Spec == Init /\ [][Next]_vars
-----------------------------------------------------------------------------
\* The inbox's own reading of the thread: latest_message_sla_pair().
Buyers == {x \in rows : x.from = "buyer"}
Between(from, a, b) == \E x \in rows : x.from \in from /\ a < x.at /\ x.at < b
\* Buyer messages that begin a wait, given who counts as answering.
Waits(from) == {b \in Buyers : \A a \in Buyers : a.at < b.at => Between(from, a.at, b.at)}
LatestWait(from) == Max({b.at : b \in Waits(from)})
Waiting(from) == Buyers # {} /\ ~Between(from, LatestWait(from), scope.clock + 1)
\* Near Due and the inbox count every message that is not inbound as a reply.
NearDue == Waiting({"seller", "ebay"})

OpenCycles == {i \in DOMAIN cycles : cycles[i].end = 0}

TypeOK ==
    /\ clock \in 0..scope.clock
    /\ thread \in Seq([from : {"buyer", "seller", "ebay"}, at : 1..scope.clock,
                       reply : Reply \cup {None}, body : {BodyOf[r] : r \in Reply} \cup {"other"}])
    /\ Len(thread) <= scope.thread
    /\ rows \subseteq [ext : 0..scope.thread, at : 1..scope.clock, reply : Reply \cup {None},
                       from : {"buyer", "seller", "ebay"}]
    /\ cycles \in Seq([start : 1..scope.clock, end : 0..scope.clock, by : Agent \cup {None}])
    /\ status \in Statuses /\ owned \in BOOLEAN /\ entangled \in BOOLEAN
    /\ holders \subseteq [who : Agent, no : 1..scope.assigns] /\ assigns \in 0..scope.assigns
    /\ attempt \in [Reply -> {"NONE", "ATTEMPTED", "SUCCESS", "FAILED"}]
    /\ \A r \in Reply : reply[r].pc = "read" /\ ~reply[r].gone => reply[r].cycle \in 0..Len(cycles)

\* Buyer messages that arrive while a cycle is open join it, also when it was
\* opened earlier in the same unflushed import: at most the last is open.  As
\* long as every import met at most one unknown message and no reply under way,
\* or once the repair ran on eBay's dates, the SLA history is what the messages
\* say: a cycle is open exactly while a buyer waits, since the first message he
\* waits for an answer to, and the first answer closed it.
SlaFollowsThread ==
    /\ OpenCycles \subseteq {Len(cycles)}
    /\ ~entangled =>
        /\ OpenCycles # {} <=> Waiting({"seller"})
        /\ Buyers # {} => /\ cycles # <<>>
                          /\ cycles[Len(cycles)].start = LatestWait({"seller"})
                          /\ \A x \in rows : x.from = "seller" /\ x.at > cycles[Len(cycles)].start
                                => cycles[Len(cycles)].end <= x.at

\* The comments of start_cycle(): every buyer who waits is timed.  The unflushed
\* objects of the import break it (the run inbox_wait_untimed).
EveryWaitIsTimed == Waiting({"seller"}) => OpenCycles # {}

Delivered(r) == \E k \in DOMAIN thread : thread[k].reply = r

\* The records of who did what are true.  An attempt that FAILED never left; one
\* with SUCCESS was sent, and a reply of its text is stored (of two such replies
\* within the window, the import may take the stored one for the other).  An
\* agent is credited with closing a cycle only for a message eBay accepted.
AttemptTruth ==
    /\ \A r \in Reply :
        /\ attempt[r] = "SUCCESS" =>
                /\ Delivered(r)
                /\ \E x \in rows : x.reply # None /\ BodyOf[x.reply] = BodyOf[r]
        /\ attempt[r] = "FAILED" => ~Delivered(r)
    /\ \A i \in DOMAIN cycles : cycles[i].by # None =>
        \E r \in Reply : AgentOf[r] = cycles[i].by /\ Delivered(r)

\* A reply whose answer named its message is stored once, however the import of
\* that message and the commit of the reply interleave.
StoredOnce ==
    \A k \in DOMAIN thread :
        LET r == thread[k].reply
        IN  r # None /\ reply[r].answer.id =>
                Cardinality({x \in rows : x.ext = k \/ x.reply = r}) <= 1

\* A conversation has one current assignment (the run inbox_two_holders).
OneHolder == Cardinality(holders) <= 1
=============================================================================
