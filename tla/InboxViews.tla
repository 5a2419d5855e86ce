----------------------------- MODULE InboxViews -----------------------------
(***************************************************************************)
(* What the inbox and the reports show of one conversation: read or not,   *)
(* whose turn it is, and which filters and searches find it.  eBay keeps   *)
(* read marks of its own and every import overwrites the helpdesk's with   *)
(* them; what an agent says is kept beside them, for the latest message.   *)
(* An import and a mark read the rows first and write, when they flush and *)
(* commit, the columns that differ from what they read.                    *)
(***************************************************************************)
EXTENDS Integers, FiniteSets, FiniteSetsExt

CONSTANTS
    Viewer, Unowned,
    Arrivals,                   \* what arrives at eBay: sender, its read mark, eBay's count of unread
    MaxMessages, LastTime,       \* bounds on the thread and on the clock
    Limit, ReportDay            \* of the report: response time, and a day

ASSUME ViewsAssumption ==
    /\ Unowned \notin Viewer /\ MaxMessages \in Nat \ {0, 1} /\ LastTime \in Nat \ {0}
    /\ Limit \in Nat /\ ReportDay \in Nat \ {0}
    /\ Arrivals \subseteq {"CUSTOMER", "PROVIDER", "AGENT"} \X {"read", "unread", "unknown"} \X {0, 1}

VARIABLES
    time,
    ebay,       \* its messages and its count of unread ones
    conversation,   \* Conversation: unread_count, mark in raw_payload, last_message_at, assignee, closed
    stored,     \* Message rows: id, at, from, read, actor (of the payload)
    import,     \* the import in progress and what it has read
    marks,      \* by agent: the mark in progress and what it has read
    said, markedRead    \* history: the mark that stands; the messages marked as read

viewsVars == <<time, ebay, conversation, stored, import, marks, said, markedRead>>

Unsaid == [set |-> FALSE, read |-> FALSE, message |-> 0]
NotImporting == [step |-> "none", ebay |-> <<>>, row |-> <<>>, stored |-> {}]
NotMarking == [set |-> FALSE, read |-> FALSE, row |-> <<>>, stored |-> {}]

Ids == 1..MaxMessages
\* A conversation of one message of its buyer, imported.  Identifiers are random,
\* so a later one may be smaller.
First == [id |-> 2, at |-> 0, from |-> "CUSTOMER", read |-> "unread", actor |-> Unowned]
ViewsInit ==
    /\ time = 0
    /\ ebay = [messages |-> {First}, unread |-> 1]
    /\ conversation = [unread |-> 1, override |-> Unsaid, last |-> 0,
              holder |-> Unowned, closed |-> FALSE]
    /\ stored = {First}
    /\ import = NotImporting
    /\ marks = [a \in Viewer |-> NotMarking]
    /\ said = Unsaid /\ markedRead = {}

----------------------------------------------------------------------------
(* What is shown. *)

Inbound(m) == m.from = "CUSTOMER"
SellerSide(m) == m.from = "AGENT" \/ ~Inbound(m)
Later(m, n) == m.at > n.at \/ (m.at = n.at /\ m.id > n.id)
LatestOf(ms) == CHOOSE m \in ms : \A n \in ms \ {m} : Later(m, n)
ProviderUnread(r, m) == Inbound(m) /\ (m.read = "unread" \/ r.unread > 0)

\* The badge of a conversation that was loaded with its messages.
NotRead(r, ms) ==
    LET local == r.override
        latest == LatestOf(ms)
    IN  IF local.set /\ local.message = latest.id THEN ~local.read
        ELSE ProviderUnread(r, latest)

\* The filter of the list and of its count, evaluated by the database.
UnreadOnly(r, ms) ==
    \E latest \in ms :
        /\ \A n \in ms \ {latest} : Later(latest, n)
        /\ \/ /\ r.override.message = latest.id /\ r.override.set
              /\ ~r.override.read
           \/ /\ ~(r.override.message = latest.id /\ r.override.set)
              /\ ProviderUnread(r, latest)

Replied(ms) == SellerSide(LatestOf(ms))
Direction(ms) == IF SellerSide(LatestOf(ms)) THEN "Agent" ELSE "Buyer"
ShownStatus(r, ms) == IF NotRead(r, ms) THEN "Not Read" ELSE IF Replied(ms) THEN "Replied" ELSE "stored"

----------------------------------------------------------------------------
(* What a search looks at, by scope.  Each place has the word or has not. *)

OrderPlaces == {"context order", "linked order", "mapped order", "product order", "referenced line"}
SkuPlaces == {"context sku", "product sku", "linked line sku", "referenced line sku"}
Scopes == {"buyer_name", "item_number", "order_id", "message_content", "sku", "everything"}
Places(scope) ==
    CASE scope = "buyer_name" -> {"buyer", "context buyer"}
      [] scope = "item_number" -> {"reference", "linked line item"}
      [] scope = "order_id" -> OrderPlaces
      [] scope = "message_content" -> {"body"}
      [] scope = "sku" -> SkuPlaces
      [] scope = "everything" -> {"subject", "buyer", "thread", "reference", "body", "note",
                                  "linked line item"} \cup OrderPlaces \cup SkuPlaces
      [] OTHER -> {}

----------------------------------------------------------------------------
(* Filters: 0 or Unowned is a filter that is not set. *)

\* A day of a filter is counted from 1; the end of the last one is exclusive.
FilterDays == 0..LastTime \div ReportDay + 1
Filters == [from : FilterDays, to : FilterDays, agent : Viewer \cup {Unowned}, unread : BOOLEAN]

InboxFinds(f) ==
    /\ f.from > 0 => conversation.last >= (f.from - 1) * ReportDay
    /\ f.to > 0 => conversation.last < f.to * ReportDay
    /\ f.agent # Unowned => conversation.holder = f.agent
    /\ f.unread => UnreadOnly(conversation, stored)

Authored(a) == \E m \in stored : m.from = "AGENT" /\ m.actor = a
ReportFinds(f) ==
    /\ f.from > 0 => conversation.last >= (f.from - 1) * ReportDay
    /\ f.to > 0 => conversation.last <= f.to * ReportDay - 1
    /\ f.agent # Unowned => conversation.holder = f.agent \/ Authored(f.agent)
\* A support agent sees her own conversations, whatever agent she asks for.
Scoped(f, me) == [f EXCEPT !.agent = me]

Inbounds == {m \in stored : Inbound(m)}
Replies == {m \in stored : SellerSide(m)}
FirstInbound == Min({m.at : m \in Inbounds})
Responses == {m \in Replies : m.at >= FirstInbound}
\* Messages of one time are in any order, so several may be last.
LastOnes == {m \in stored : \A n \in stored : m.at >= n.at}
DueBy == FirstInbound + Limit
Overdue == Responses = {} /\ ~conversation.closed /\ DueBy < time
Compliance ==
    IF Responses # {}
    THEN IF Min({m.at : m \in Responses}) <= DueBy THEN "yes" ELSE "no"
    ELSE IF conversation.closed THEN "unmeasured" ELSE IF time <= DueBy THEN "yes" ELSE "no"
ReportDirections == {IF SellerSide(m) THEN "Agent" ELSE "Buyer" : m \in LastOnes}


----------------------------------------------------------------------------
(* eBay, its buyer and time. *)

TimePasses == time < LastTime /\ time' = time + 1 /\ UNCHANGED <<ebay, conversation, stored, import, marks, said, markedRead>>

Unused == Ids \ {m.id : m \in ebay.messages}
EbayMessage(from, read, unread) ==
    \E id \in Unused :
        /\ ebay' = [ebay EXCEPT
              !.messages = @ \cup {[id |-> id, at |-> time, from |-> from, read |-> read, actor |-> Unowned]},
              !.unread = unread]
        /\ UNCHANGED <<time, conversation, stored, import, marks, said, markedRead>>

\* Somebody reads, or marks as unread, the thread at eBay.
EbayRead(read) ==
    /\ ebay' = [ebay EXCEPT
          !.messages = {[m EXCEPT !.read = IF @ = "unknown" THEN @ ELSE IF read THEN "read" ELSE "unread"] : m \in @},
          !.unread = IF read THEN 0 ELSE 1]
    /\ UNCHANGED <<time, conversation, stored, import, marks, said, markedRead>>

----------------------------------------------------------------------------
(* The import of the conversation. *)

Fetch ==
    /\ import.step = "none"
    /\ import' = [NotImporting EXCEPT !.step = "fetched", !.ebay = ebay]
    /\ UNCHANGED <<time, ebay, conversation, stored, marks, said, markedRead>>

ImportLoad ==
    /\ import.step = "fetched"
    /\ import' = [import EXCEPT !.step = "loaded", !.row = conversation, !.stored = stored]
    /\ UNCHANGED <<time, ebay, conversation, stored, marks, said, markedRead>>

\* A column is written when its value differs from the one that was loaded.
Column(new, loaded, current) == IF new # loaded THEN new ELSE current

M_CarriedOver(loaded) == Unsaid      \* mutant: the mark is not carried over
CarriedOver(loaded) == loaded.override

\* The payload, with the mark in it, is written when eBay's has changed at all.
Upserted(fetched, loaded, r, changed) ==
    [r EXCEPT !.unread = Column(fetched.unread, loaded.unread, @),
              !.override = IF changed THEN CarriedOver(loaded) ELSE Column(CarriedOver(loaded), loaded.override, @),
              !.last = Column(Max({m.at : m \in fetched.messages}), loaded.last, @)]

\* A message that was there gets the read mark and the payload of eBay, and with
\* it loses the actor of a reply.
MessagesAfter(fetched, loaded, ms) ==
    LET known == {m.id : m \in ms}
        old(id) == CHOOSE m \in loaded : m.id = id
        new(id) == CHOOSE m \in fetched : m.id = id
    IN  {IF m.id \in {n.id : n \in fetched} /\ m.id \in {n.id : n \in loaded}
         THEN [m EXCEPT !.read = Column(new(m.id).read, old(m.id).read, @),
                        !.actor = Column(Unowned, old(m.id).actor, @)]
         ELSE m : m \in ms}
        \cup {m \in fetched : m.id \notin known}

Overtaken(r, ms) == r # conversation \/ ms # stored
ImportApply ==
    /\ import.step = "loaded"
    /\ \E changed \in BOOLEAN : conversation' = Upserted(import.ebay, import.row, conversation, changed)
    /\ stored' = MessagesAfter(import.ebay.messages, import.stored, stored)
    /\ said' = IF Overtaken(import.row, import.stored) THEN Unsaid ELSE said
    /\ import' = NotImporting
    /\ UNCHANGED <<time, ebay, marks, markedRead>>

----------------------------------------------------------------------------
(* The agents. *)

MarkLoad(a, read) ==
    /\ ~marks[a].set
    /\ marks' = [marks EXCEPT ![a] = [set |-> TRUE, read |-> read, row |-> conversation, stored |-> stored]]
    /\ UNCHANGED <<time, ebay, conversation, stored, import, said, markedRead>>

\* Opening a conversation that shows as unread marks it as read.
OpenConversation(a) == NotRead(conversation, stored) /\ MarkLoad(a, TRUE)

MarkCommit(a) ==
    LET mine == marks[a]
        mark == [set |-> TRUE, read |-> mine.read, message |-> LatestOf(mine.stored).id]
        loaded == {m.id : m \in {n \in mine.stored : Inbound(n) /\ n.read # "read"}}
    IN  /\ mine.set
        /\ conversation' = [conversation EXCEPT
              !.override = Column(mark, mine.row.override, @),
              !.unread = IF mine.read THEN Column(0, mine.row.unread, @) ELSE @]
        /\ stored' = {IF mine.read /\ m.id \in loaded THEN [m EXCEPT !.read = "read"] ELSE m : m \in stored}
        /\ said' = IF Overtaken(mine.row, mine.stored) THEN Unsaid ELSE mark
        /\ markedRead' = IF mine.read THEN markedRead \cup {m.id : m \in mine.stored} ELSE markedRead
        /\ marks' = [marks EXCEPT ![a] = NotMarking]
        /\ UNCHANGED <<time, ebay, import>>

\* A reply is at eBay and stored; who replies to another's conversation takes it over.
Reply(a) ==
    \E id \in Unused :
        LET m == [id |-> id, at |-> time, from |-> "AGENT", read |-> "read", actor |-> a]
        IN  /\ stored' = stored \cup {m}
            /\ ebay' = [ebay EXCEPT !.messages = @ \cup {[m EXCEPT !.actor = Unowned]}]
            /\ conversation' = [conversation EXCEPT !.last = time, !.holder = IF @ = Unowned THEN @ ELSE a]
            /\ UNCHANGED <<time, import, marks, said, markedRead>>

Assign(a) ==
    /\ conversation.holder # a /\ conversation' = [conversation EXCEPT !.holder = a]
    /\ UNCHANGED <<time, ebay, stored, import, marks, said, markedRead>>
Close ==
    /\ conversation' = [conversation EXCEPT !.closed = ~@]
    /\ UNCHANGED <<time, ebay, stored, import, marks, said, markedRead>>

MarkSteps(viewers, arrivals) ==
    \/ TimePasses \/ Fetch \/ ImportLoad \/ ImportApply
    \/ \E new \in arrivals : EbayMessage(new[1], new[2], new[3])
    \/ \E read \in BOOLEAN : EbayRead(read)
    \/ \E a \in viewers : (\E read \in BOOLEAN : MarkLoad(a, read)) \/ OpenConversation(a) \/ MarkCommit(a)
ReportSteps(arrivals) ==
    \/ TimePasses \/ Fetch \/ ImportLoad \/ ImportApply \/ Close
    \/ \E new \in arrivals : EbayMessage(new[1], new[2], new[3])
    \/ \E a \in Viewer : Reply(a) \/ Assign(a)

ViewsNext == MarkSteps(Viewer, Arrivals) \/ ReportSteps(Arrivals)
ViewsSpec == ViewsInit /\ [][ViewsNext]_viewsVars

----------------------------------------------------------------------------
(* Properties. *)

Message == [id : Ids, at : 0..LastTime, from : {"CUSTOMER", "PROVIDER", "AGENT"},
            read : {"read", "unread", "unknown"}, actor : Viewer \cup {Unowned}]
ViewsTypeOK ==
    /\ time \in 0..LastTime
    /\ stored \subseteq Message /\ ebay.messages \subseteq Message
    /\ conversation.unread \in {0, 1} /\ conversation.last \in 0..LastTime /\ conversation.holder \in Viewer \cup {Unowned}
    /\ import.step \in {"none", "fetched", "loaded"}

\* What an agent said of the latest message stands until a newer one comes,
\* however often eBay's own marks are imported over it; a request that wrote over
\* rows which another had changed since it read them is excused.
MarkHolds == said.set /\ LatestOf(stored).id = said.message => NotRead(conversation, stored) = ~said.read

\* A message that eBay calls unread and no agent has marked is shown as unread:
\* no mark for an earlier message hides it.
NoneHidden ==
    LET latest == LatestOf(stored)
    IN  Inbound(latest) /\ latest.read = "unread" /\ latest.id \notin markedRead => NotRead(conversation, stored)

\* The unread filter, in the database, finds the rows that show the badge.
BadgeIsFilter == UnreadOnly(conversation, stored) = (ShownStatus(conversation, stored) = "Not Read")

\* The report counts the conversations that the inbox lists for the same filter,
\* an agent's own among them; and it tells whose turn it is as the inbox does,
\* whenever one message is the last.
ReportFits ==
    /\ \A f \in Filters :
         /\ InboxFinds(f) => ReportFinds(f)
         /\ f.agent = Unowned =>
              /\ ~f.unread /\ ReportFinds(f) => InboxFinds(f)
              /\ \A a \in Viewer : ReportFinds(Scoped(f, a)) => conversation.holder = a \/ Authored(a)
    /\ Cardinality(LastOnes) = 1 => ReportDirections = {Direction(stored)}
    /\ Overdue => Direction(stored) = "Buyer" /\ Compliance = "no"

\* Searching everything finds what any other scope finds, but for a buyer who is
\* named in an order only.
EverythingFindsAll == \A s \in Scopes : Places(s) \subseteq Places("everything") \cup {"context buyer"}

\* What the inbox and the reports show of a conversation that has messages agrees with
\* the thread and with each other.
ViewsShown ==
    stored # {} => MarkHolds /\ NoneHidden /\ BadgeIsFilter /\ ReportFits /\ EverythingFindsAll
=============================================================================
