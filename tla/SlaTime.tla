------------------------------- MODULE SlaTime -------------------------------
(***************************************************************************)
(* What the inbox shows of a conversation's response time: business time,  *)
(* the deadline, and the verdict.  Imports bring one message each; Inbox   *)
(* has those that bring several.  A time is a number of units since the    *)
(* midnight in India that began a week; the code's unit is a second, its   *)
(* office open from 9:30 to 18:30, its week seven days, the last a Sunday. *)
(***************************************************************************)
EXTENDS Integers, Sequences, FiniteSets, FiniteSetsExt, SequencesExt

CONSTANTS
    WallDay, Opens, Closes,     \* a day and its office hours
    Week,                       \* days in a week, the last one free
    Targets,                    \* response times of the categories
    Warning,                    \* the window of Near Due
    StatesChosen,               \* states that agents choose
    MaxWritten, LastUnit        \* bounds on the thread and on the clock

ASSUME SlaTimeAssumption ==
    /\ Opens \in Nat /\ Closes \in Nat /\ WallDay \in Nat /\ Week \in Nat \ {0, 1}
    /\ Opens < Closes /\ Closes < WallDay
    /\ Targets \subseteq Nat \ {0} /\ Targets # {}

VARIABLES
    now,
    messages,       \* Message: from, at, in the order of sent_at
    cycles,         \* ConversationSLAHistory: start, end (0: open), seconds, met
    state,          \* conversation.status
    target,         \* of the conversation's category
    untimed         \* history: a buyer's message started no cycle, or a reply closed none

slaVars == <<now, messages, cycles, state, target, untimed>>

----------------------------------------------------------------------------
(* Business time. *)

DayOf(t) == t \div WallDay
Free(t) == DayOf(t) % Week = Week - 1
Opening(d) == d * WallDay + Opens
OfficeEnd(t) == DayOf(t) * WallDay + Closes
WorkingDay(d) == IF d % Week = Week - 1 THEN d + 1 ELSE d

NextBusinessTime(t) ==
    IF Free(t) THEN Opening(DayOf(t) + 1)
    ELSE IF t < Opening(DayOf(t)) THEN Opening(DayOf(t))
    ELSE IF t >= OfficeEnd(t) THEN Opening(WorkingDay(DayOf(t) + 1))
    ELSE t
NextMorning(t) == NextBusinessTime(Opening(DayOf(t) + 1))

BusinessBetween(start, end) ==
    LET counted[t \in Nat] ==
            IF t >= end THEN 0
            ELSE Max({0, Min({OfficeEnd(t), end}) - t}) + counted[NextMorning(t)]
    IN  counted[NextBusinessTime(start)]

M_DueAt(start, seconds) == NextBusinessTime(start + seconds)    \* mutant: nights do not stop the clock
DueAt(start, seconds) ==
    LET after[p \in Nat \X Nat] ==
            LET t == p[1]
                left == p[2]
                available == Max({0, OfficeEnd(t) - t})
            IN  IF left = 0 THEN t
                ELSE IF left <= available THEN t + left
                ELSE after[<<NextMorning(t), left - available>>]
    IN  after[<<NextBusinessTime(start), Max({0, seconds})>>]

----------------------------------------------------------------------------
(* The thread and its cycles. *)

Open == {i \in DOMAIN cycles : cycles[i].end = 0}

BuyerWrites(imported) ==
    /\ Len(messages) < MaxWritten /\ \A i \in DOMAIN messages : messages[i].at < now
    /\ messages' = Append(messages, [from |-> "buyer", at |-> now])
    /\ IF imported = "alone"
       THEN /\ cycles' = IF Open # {} THEN cycles
                         ELSE Append(cycles, [start |-> now, end |-> 0, seconds |-> 0, met |-> FALSE])
            /\ state' = IF Open # {} \/ state = "CLOSED" THEN state ELSE "OPEN"
            /\ UNCHANGED untimed
       ELSE untimed' = TRUE /\ UNCHANGED <<cycles, state>>   \* with the reply before it (Inbox)
    /\ UNCHANGED <<now, target>>

\* complete_after_reply(): nothing for a closed thread.
Answered(cycle) ==
    LET seconds == BusinessBetween(cycle.start, now)
    IN  [start |-> cycle.start, end |-> now, seconds |-> seconds, met |-> seconds <= target]
SellerReplies ==
    /\ Len(messages) < MaxWritten /\ \A i \in DOMAIN messages : messages[i].at < now
    /\ messages' = Append(messages, [from |-> "seller", at |-> now])
    /\ IF state = "CLOSED" \/ Open = {}
       THEN untimed' = (untimed \/ Open # {}) /\ UNCHANGED <<cycles, state>>
       ELSE /\ cycles' = [cycles EXCEPT ![Max(Open)] = Answered(@)]
            /\ state' = "RESOLVED"
            /\ UNCHANGED untimed
    /\ UNCHANGED <<now, target>>

UpdateState(s) ==
    /\ s # state /\ state' = s
    /\ UNCHANGED <<now, messages, cycles, target, untimed>>
UpdateCategory(seconds) ==
    /\ seconds # target /\ target' = seconds
    /\ UNCHANGED <<now, messages, cycles, state, untimed>>
UnitPasses ==
    /\ now < LastUnit /\ now' = now + 1
    /\ UNCHANGED <<messages, cycles, state, target, untimed>>

States == {"OPEN", "PENDING", "RESOLVED", "CLOSED"}
SlaInit ==
    /\ now = 1 /\ messages = <<>> /\ cycles = <<>>
    /\ state = "OPEN" /\ target = Min(Targets) /\ untimed = FALSE
SlaNext ==
    \/ \E how \in {"alone", "with the reply"} : BuyerWrites(how)
    \/ SellerReplies \/ UnitPasses
    \/ \E s \in StatesChosen : UpdateState(s)
    \/ \E seconds \in Targets : UpdateCategory(seconds)

----------------------------------------------------------------------------
(* The snapshot. *)

None == [at |-> 0]
\* latest_message_sla_pair(): the first message of the last wait and its answer.
Buyers == {i \in DOMAIN messages : messages[i].from = "buyer"}
Waits == {i \in Buyers : i = 1 \/ messages[i - 1].from = "seller"}
Asked == Max(Waits)
Answers == {j \in DOMAIN messages : j > Asked /\ messages[j].from = "seller"}
Pair == IF Buyers = {} THEN <<None, None>>
        ELSE <<messages[Asked], IF Answers = {} THEN None ELSE messages[Min(Answers)]>>

Verdict(seconds) == [shown |-> IF seconds <= target THEN "MET" ELSE "BREACHED", seconds |-> seconds, since |-> 0]
Timed(since) ==
    LET elapsed == BusinessBetween(since, now)
    IN  [shown |-> IF elapsed > target THEN "OVERDUE" ELSE "PENDING", seconds |-> elapsed, since |-> since]
Closed == {i \in DOMAIN cycles : cycles[i].end # 0}
LastClosed == cycles[Max(Closed)]

Snapshot ==
    LET buyer == Pair[1]  reply == Pair[2]
    IN  IF Open # {}
        THEN LET start == cycles[Max(Open)].start
             IN  IF reply.at > start THEN Verdict(BusinessBetween(start, reply.at)) ELSE Timed(start)
        ELSE IF reply # None /\ (Closed = {} \/ buyer.at > LastClosed.start)
        THEN Verdict(BusinessBetween(buyer.at, reply.at))
        ELSE IF buyer # None /\ reply = None /\ (Closed = {} \/ buyer.at > LastClosed.end)
        THEN Timed(buyer.at)
        ELSE IF Closed # {}
        THEN [shown |-> IF LastClosed.met THEN "MET" ELSE "BREACHED", seconds |-> LastClosed.seconds, since |-> 0]
        ELSE [shown |-> "NONE", seconds |-> 0, since |-> 0]
ResponseDueAt == DueAt(Snapshot.since, target)

\* _near_due_conversation_ids()
NearDue ==
    /\ state \in {"OPEN", "PENDING"} /\ Pair[1] # None /\ Pair[2] = None
    /\ target - BusinessBetween(Pair[1].at, now) <= Warning

SlaSpec == SlaInit /\ [][SlaNext]_slaVars

SlaTypeOK ==
    /\ now \in 1..LastUnit /\ target \in Targets /\ state \in States
    /\ Cardinality(Open) <= 1
    /\ \A i \in Closed : cycles[i].end \in cycles[i].start + 1 .. now

Worked(a, b) == {t \in a .. b - 1 : ~Free(t) /\ Opening(DayOf(t)) <= t /\ t < OfficeEnd(t)}
Running == Snapshot.shown \in {"PENDING", "OVERDUE"}

\* Whatever the agents and the categories do: the clock of a conversation runs exactly
\* while its buyer waits for an answer; a running clock counts the office's open time,
\* is overdue exactly when some of it has passed since the deadline it shows (two loops
\* of the code that know nothing of each other), and as long as every message was timed
\* the list of what is nearly due agrees with it.  A verdict that was stored is shown
\* as it was reached, whatever the category has become.
SlaShown ==
    /\ Running <=> Pair[1] # None /\ Pair[2] = None
    /\ Running =>
        /\ Snapshot.seconds = Cardinality(Worked(Snapshot.since, now))
        /\ Snapshot.shown = "OVERDUE" <=> Worked(ResponseDueAt, now) # {}
        /\ ~untimed /\ state \in {"OPEN", "PENDING"} =>
              (NearDue <=> target - Snapshot.seconds <= Warning)
    /\ ~untimed /\ Closed # {} /\ ~Running =>
        /\ Snapshot.seconds = LastClosed.seconds
        /\ Snapshot.shown = IF LastClosed.met THEN "MET" ELSE "BREACHED"
=============================================================================
