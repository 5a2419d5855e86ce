------------------------------ MODULE OfferLinks ------------------------------
(***************************************************************************)
(* Offers and the conversations that show them.  Three writers meet in the *)
(* offers table: the Best Offer worker and the scan at the end of a        *)
(* message sync, both from GetBestOffers (Trading evidence), and the       *)
(* resolver of a message sync, from the text of notifications.  A request  *)
(* that shows a conversation links and dates what it finds.                *)
(***************************************************************************)
EXTENDS Integers, Sequences, FiniteSets, FiniteSetsExt, SequencesExt

CONSTANTS
    Step,           \* the offers of eBay, one per step of a negotiation
    StepFacts,      \* by step: listing, buyer, side of the sender, our role, expires, amount
    Thread,         \* conversations
    ThreadFacts,    \* by conversation: listing, buyer, member, words of its subject
    Notices,        \* a sequence: messages in the order they were sent
    NoticeFacts,    \* by message: thread, words, amount, offer it names, time
    None

Notice == ToSet(Notices)

VARIABLES
    deals,          \* eBay: the status of each step, None before it exists
    offers,         \* Offer by provider offer id
    threads,        \* conversations a committed import knows
    imported,       \* messages stored
    hasOffers,      \* Conversation.has_offers
    page,           \* the worker: the GetBestOffers answer it holds
    resolving,      \* the message sync: the conversation it resolves, and the rows it loaded
    lost,           \* history: conversations that lost a row since has_offers was last counted
    closed,         \* history: steps whose row was closed on Trading evidence
    raced           \* history: rows that changed between a resolver's reading and its commit

linkVars == <<deals, offers, threads, imported, hasOffers, page, resolving, lost, closed, raced>>

Sent(s) == <<"sent", s>>        \* "<offer id>:seller-counteroffer-submitted"
Idle == [thread |-> None]
Row(k) == IF k \in DOMAIN offers THEN offers[k] ELSE None

----------------------------------------------------------------------------
\* status_group(), and the broad status of _status().
Group(status) ==
    CASE status \in {"Active", "Pending", "Countered"} -> "OPEN"
      [] status = "PendingBuyerPayment" -> "AGREED"
      [] status = "Accepted" -> "COMPLETED"
      [] status \in {"Declined", "Expired", "Retracted"} -> "CLOSED"
      [] OTHER -> "UNKNOWN"
BroadStatus(status) ==
    CASE status = "Countered" -> "COUNTERED"
      [] status = "Accepted" -> "ACCEPTED"
      [] status = "Declined" -> "DECLINED"
      [] status = "Expired" -> "EXPIRED"
      [] status = "Retracted" -> "RETRACTED"
      [] OTHER -> "PENDING"
Over(status) == Group(status) \in {"CLOSED", "COMPLETED"}
Live(status) == Group(status) \in {"OPEN", "AGREED"}

LinksInit ==
    /\ deals = [s \in Step |-> None]
    /\ offers = <<>>
    /\ threads = {} /\ imported = {}
    /\ hasOffers = [c \in Thread |-> FALSE]
    /\ page = <<>> /\ resolving = Idle
    /\ lost = {} /\ closed = {} /\ raced = {}

\* eBay's side: a step appears and ends.
Negotiate(s, status) ==
    /\ IF deals[s] = None THEN status = "Active"
       ELSE deals[s] = "Active" /\ status \in {"Accepted", "Declined"}
    /\ deals' = [deals EXCEPT ![s] = status]
    /\ UNCHANGED <<offers, threads, imported, hasOffers, page, resolving, lost, closed, raced>>

----------------------------------------------------------------------------
(* Trading evidence.                                                       *)
\* _match_conversation(): the buyer's, else the only one about the listing.
MatchConversation(listing, buyer) ==
    LET about == {c \in threads : ThreadFacts[c].member /\ ThreadFacts[c].listing = listing}
        exact == {c \in about : ThreadFacts[c].buyer = buyer} IN
    IF exact # {} THEN CHOOSE c \in exact : TRUE
    ELSE IF Cardinality(about) = 1 THEN CHOOSE c \in about : TRUE
    ELSE None

\* _matching_offer_message(): the latest notice of the amount that says what happened.
Says(m, word) == word \in NoticeFacts[m].words
MatchingMessage(r, c) ==
    LET of == SelectSeq(Notices, LAMBDA m : m \in imported /\ NoticeFacts[m].thread = c /\ NoticeFacts[m].amount = r.amount)
        preferred == SelectSeq(of, LAMBDA m :
                        \/ r.status = "ACCEPTED" /\ Says(m, "accepted")
                        \/ r.side # "BuyerOffer" /\ Says(m, "counteroffer"))
        fallback == SelectSeq(of, LAMBDA m : r.side = "BuyerOffer" /\ Says(m, "offer")) IN
    IF preferred # <<>> THEN Last(preferred) ELSE IF fallback # <<>> THEN Last(fallback) ELSE None
\* _attach_matching_message()
Attached(r, c) ==
    LET m == IF c = None THEN None ELSE MatchingMessage(r, c) IN
    IF m = None THEN r ELSE [r EXCEPT !.message = m, !.at = IF @ = None THEN NoticeFacts[m].at ELSE @]

\* _upsert(): a late answer does not reopen what is over.
New(s, rank) ==
    [source |-> "TRADING", provider |-> None, status |-> "PENDING", thread |-> None, message |-> None,
     listing |-> StepFacts[s].listing, buyer |-> StepFacts[s].buyer, amount |-> None,
     side |-> StepFacts[s].side, expires |-> None, at |-> None, rank |-> rank]
Written(r, s, status, c) ==
    Attached([r EXCEPT !.status = BroadStatus(status), !.thread = c, !.amount = StepFacts[s].amount,
                       !.side = StepFacts[s].side, !.expires = StepFacts[s].expires], c)
Upserted(r, s, status, c, rank) ==
    IF r # None /\ r.source = "TRADING" /\ Over(r.provider) /\ Live(status) THEN r
    ELSE [Written(IF r = None THEN New(s, rank) ELSE r, s, status, c) EXCEPT !.source = "TRADING", !.provider = status]

\* _upsert_derived_offer_events(): an accepted counteroffer was sent before.
Derived(r, s, c, rank) ==
    [Written(IF r = None THEN New(s, rank) ELSE r, s, "Active", c) EXCEPT !.source = "DERIVED"]

\* The rows after the offers of one answer: existing rows keep their order of creation.
RankOf(k, seen) == Cardinality(DOMAIN offers) + 2 * Cardinality({s \in seen : s \notin DOMAIN offers /\ s # k}) + 1
AfterAnswer(answer, thread) ==
    LET row == [s \in DOMAIN answer |-> Upserted(Row(s), s, answer[s], thread[s], RankOf(s, {}))]
        sold == {s \in DOMAIN answer : StepFacts[s].side = "SellerCounterOffer" /\ row[s].status = "ACCEPTED"} IN
    [k \in DOMAIN offers \cup DOMAIN answer \cup {Sent(s) : s \in sold} |->
        IF k \in DOMAIN answer THEN row[k]
        ELSE IF k \in {Sent(s) : s \in sold}
             THEN LET s == CHOOSE t \in sold : k = Sent(t) IN Derived(Row(k), s, thread[s], RankOf(s, {}) + 1)
             ELSE offers[k]]

\* OfferConsistencyService.sync_conversation(), for the conversations an operation touched.
HasRow(c, rows) == \E k \in DOMAIN rows : rows[k].thread = c
Counted(cs, rows) == [c \in Thread |-> IF c \in cs THEN HasRow(c, rows) ELSE hasOffers[c]]
Loses(rows) == {c \in Thread : \E k \in DOMAIN offers : offers[k].thread = c /\ rows[k].thread # c}
Settle(rows, touched) ==
    /\ offers' = rows
    /\ hasOffers' = Counted(touched, rows)
    /\ lost' = (lost \cup Loses(rows)) \ touched
    /\ closed' = closed \cup {k \in DOMAIN rows \cap Step : rows[k].source = "TRADING" /\ Over(rows[k].provider)}

\* An answer of eBay may lag behind.
Answers(seen) == {answer \in [seen -> {deals[s] : s \in seen} \cup {"Active"}] :
                    \A s \in seen : answer[s] \in {deals[s], "Active"}}
\* The worker asks; its answer may be old when the rows are written.
FetchPage(seen) ==
    /\ page = <<>> /\ seen # {}
    /\ \A s \in seen : deals[s] # None
    /\ \E answer \in Answers(seen) : page' = answer
    /\ UNCHANGED <<deals, offers, threads, imported, hasOffers, resolving, lost, closed, raced>>

WorkerThread == [s \in Step |->
    IF StepFacts[s].role = "Seller" THEN MatchConversation(StepFacts[s].listing, StepFacts[s].buyer) ELSE None]
\* sync_current(), reconcile_listing(): the offers of a page, and one commit.
PageUpserted ==
    /\ page # <<>>
    /\ Settle(AfterAnswer(page, WorkerThread), {WorkerThread[s] : s \in DOMAIN page} \ {None})
    /\ raced' = IF resolving = Idle THEN raced ELSE raced \cup DOMAIN page
    /\ page' = <<>>
    /\ UNCHANGED <<deals, threads, imported, resolving>>

AnyThread == [s \in Step |-> MatchConversation(StepFacts[s].listing, StepFacts[s].buyer)]
\* _sync_listing_account(): a message sync reads the listings it touched, unless the worker
\* has the account; it links whatever the role.
ListingSynced(listing) ==
    LET seen == {s \in Step : StepFacts[s].listing = listing /\ deals[s] # None} IN
    /\ page = <<>> /\ resolving = Idle /\ seen # {}
    /\ \E answer \in Answers(seen) :
          Settle(AfterAnswer(answer, AnyThread), {AnyThread[s] : s \in seen} \ {None})
    /\ UNCHANGED <<deals, threads, imported, page, resolving, raced>>

----------------------------------------------------------------------------
(* Evidence from messages.                                                 *)
\* _extract_from_message(): the subject of the conversation counts for every message of it.
Words(c, m) == ThreadFacts[c].words \cup NoticeFacts[m].words
\* _status(), _offer_type()
TextStatus(words) ==
    CASE "accepted" \in words -> "ACCEPTED"
      [] "declined" \in words -> "DECLINED"
      [] OTHER -> "PENDING"
TextSide(words) ==
    CASE "accepted" \in words -> "ACCEPTED_OFFER" [] "counteroffer" \in words -> "COUNTEROFFER" [] OTHER -> "OFFER"
IsNotice(c, m) == "offer" \in Words(c, m) /\ (TextStatus(Words(c, m)) = "PENDING" => NoticeFacts[m].amount # None)

\* _fill_missing_notification_amount(): from the latest offer of the buyer on the listing.
FilledAmount(c, m, rows) ==
    LET same == {k \in DOMAIN rows : /\ rows[k].amount # None /\ rows[k].thread = c
                                      /\ rows[k].listing = ThreadFacts[c].listing
                                      /\ rows[k].buyer = ThreadFacts[c].buyer}
        latest == {k \in same : \A j \in same : rows[j].rank <= rows[k].rank} IN
    IF NoticeFacts[m].amount # None \/ same = {} THEN NoticeFacts[m].amount
    ELSE rows[CHOOSE k \in latest : TRUE].amount

KeyOf(m) == IF NoticeFacts[m].offer # None THEN NoticeFacts[m].offer ELSE m
Blank(c, m, rank) ==
    [source |-> "LEGACY_UNKNOWN", provider |-> None, status |-> "PENDING", thread |-> c, message |-> m,
     listing |-> ThreadFacts[c].listing, buyer |-> ThreadFacts[c].buyer, amount |-> None,
     side |-> "OFFER", expires |-> None, at |-> None, rank |-> rank]
\* _upsert_offer_from_message()
Parsed(r, c, m, rows, rank) ==
    LET amount == FilledAmount(c, m, rows)
        base == IF r = None THEN Blank(c, m, rank) ELSE [r EXCEPT !.source = "MESSAGE_PARSE"] IN
    [base EXCEPT !.thread = c, !.message = m, !.status = TextStatus(Words(c, m)), !.side = TextSide(Words(c, m)),
                 !.amount = IF amount = None THEN @ ELSE amount]
M_FromMessage(r, c, m, rows, rank) ==   \* mutant: message evidence replaces Trading evidence
    Parsed(r, c, m, rows, rank)
\* update_missing_offer_fields(): message evidence cannot replace Trading evidence.
FromMessage(r, c, m, rows, rank) ==
    IF r # None /\ r.source = "TRADING" THEN [r EXCEPT !.thread = c, !.message = m]
    ELSE Parsed(r, c, m, rows, rank)

\* The rows resolve_for_conversation() attaches because buyer and listing are the conversation's.
Adopted(c, rows) ==
    [k \in DOMAIN rows |->
        IF rows[k].thread # c /\ rows[k].listing = ThreadFacts[c].listing /\ rows[k].buyer = ThreadFacts[c].buyer
        THEN [rows[k] EXCEPT !.thread = c] ELSE rows[k]]
\* The first notice with an id speaks for it.
Speaking(c, ms) ==
    SelectSeq(Notices, LAMBDA m :
        /\ m \in ms /\ IsNotice(c, m)
        /\ \A n \in ms : (IsNotice(c, n) /\ KeyOf(n) = KeyOf(m)) => NoticeFacts[m].at <= NoticeFacts[n].at)
Resolved(c, ms, loaded) ==
    FoldLeft(LAMBDA rows, m :
                LET k == KeyOf(m) r == IF k \in DOMAIN rows THEN rows[k] ELSE None IN
                [j \in DOMAIN rows \cup {k} |-> IF j = k THEN FromMessage(r, c, m, rows, Cardinality(DOMAIN rows) + 1) ELSE rows[j]],
             Adopted(c, loaded), Speaking(c, ms))

\* A message sync imports a conversation and resolves its offers: the rows are loaded first.
ResolveReads(c, arrived) ==
    /\ resolving = Idle
    /\ \A m \in arrived : NoticeFacts[m].thread = c
    /\ c \in threads => arrived # {}
    /\ resolving' = [thread |-> c, loaded |-> offers, messages |-> (imported \cap {m \in Notice : NoticeFacts[m].thread = c}) \cup arrived]
    /\ UNCHANGED <<deals, offers, threads, imported, hasOffers, page, lost, closed, raced>>

\* The columns that differ from what was loaded.
Merge(now, loaded, new) == [f \in DOMAIN now |-> IF new[f] # loaded[f] THEN new[f] ELSE now[f]]
ResolveCommits ==
    LET c == resolving.thread
        loaded == resolving.loaded
        new == IF ThreadFacts[c].member THEN Resolved(c, resolving.messages, loaded) ELSE loaded
        rows == [k \in DOMAIN offers \cup DOMAIN new |->
                    IF k \notin DOMAIN offers THEN new[k]
                    ELSE IF k \in DOMAIN loaded THEN Merge(offers[k], loaded[k], new[k]) ELSE offers[k]] IN
    /\ resolving # Idle
    /\ (DOMAIN new \ DOMAIN loaded) \cap DOMAIN offers = {}
    /\ Settle(rows, {c})
    /\ threads' = threads \cup {c}
    /\ imported' = imported \cup resolving.messages
    /\ resolving' = Idle
    /\ UNCHANGED <<deals, page, raced>>

\* The worker inserted an offer of the same id meanwhile: the sync fails as a whole.
ResolveFails ==
    LET c == resolving.thread
        new == IF ThreadFacts[c].member THEN Resolved(c, resolving.messages, resolving.loaded) ELSE resolving.loaded IN
    /\ resolving # Idle
    /\ (DOMAIN new \ DOMAIN resolving.loaded) \cap DOMAIN offers # {}
    /\ resolving' = Idle
    /\ UNCHANGED <<deals, offers, threads, imported, hasOffers, page, lost, closed, raced>>

----------------------------------------------------------------------------
(* The timeline of a conversation.                                         *)
BuyerLife == 10         \* BUYER_BEST_OFFER_EXPIRY_DURATION
SellerLife == 40        \* SELLER_COUNTEROFFER_EXPIRY_DURATION
AcceptedOffset == 1     \* ACCEPTED_COUNTEROFFER_SEQUENCE_OFFSET
\* offer_timestamp_from_raw_payload(): eBay gives no creation time, only the expiry.
Timestamp(r) ==
    CASE r.source \notin {"TRADING", "DERIVED"} -> NoticeFacts[r.message].at
      [] r.expires = None -> None
      [] r.side = "BuyerOffer" -> r.expires - BuyerLife
      [] r.side = "SellerCounterOffer" -> r.expires - SellerLife + (IF r.status = "ACCEPTED" THEN AcceptedOffset ELSE 0)
      [] OTHER -> None
Earlier(at, t) == IF t = None THEN at ELSE IF at = None THEN t ELSE Min({at, t})
Dated(rows) == [k \in DOMAIN rows |-> [rows[k] EXCEPT !.at = Earlier(@, Timestamp(rows[k]))]]
\* infer_missing_offer_timeline_timestamps(): an acceptance follows the counteroffer it
\* accepts, which follows the offer it answers.
Inferred(rows) ==
    LET anchors == {k \in DOMAIN rows : rows[k].source = "DERIVED" /\ rows[k].at # None}
        answers(k) == {j \in anchors : rows[j].listing = rows[k].listing /\ rows[j].buyer = rows[k].buyer} IN
    [k \in DOMAIN rows |->
        CASE rows[k].at # None -> rows[k]
          [] rows[k].side = "SellerCounterOffer" /\ rows[k].status = "ACCEPTED" /\ Sent(k) \in anchors ->
                [rows[k] EXCEPT !.at = rows[Sent(k)].at + 1]
          [] rows[k].side = "BuyerOffer" /\ answers(k) # {} ->
                [rows[k] EXCEPT !.at = rows[CHOOSE j \in answers(k) : TRUE].at - 1]
          [] OTHER -> rows[k]]

Of(c, rows) == [k \in {j \in DOMAIN rows : rows[j].thread = c} |-> rows[k]]
\* link_unattached_conversation_offers(), when the conversation has no offer.
Unattached(c) ==
    {k \in DOMAIN offers : /\ offers[k].thread = None /\ offers[k].listing = ThreadFacts[c].listing
                           /\ offers[k].buyer = ThreadFacts[c].buyer}
Linked(c) ==
    IF HasRow(c, offers) THEN offers
    ELSE [k \in DOMAIN offers |-> IF k \in Unattached(c) THEN [offers[k] EXCEPT !.thread = c] ELSE offers[k]]
TimelineOf(c) == Inferred(Dated(Of(c, Linked(c))))

\* stored_conversation_offers(), as a conversation is shown.
ShowConversation(c) ==
    LET shown == TimelineOf(c)
        rows == [k \in DOMAIN offers |-> IF k \in DOMAIN shown THEN shown[k] ELSE Linked(c)[k]] IN
    /\ c \in threads
    /\ resolving = Idle
    /\ Settle(rows, {c})
    /\ UNCHANGED <<deals, threads, imported, page, resolving, raced>>

\* visible_conversation_offers(): of the acceptances of a buyer on a listing, the latest.
\* A row no evidence dates counts from its creation, after what the others tell of.
Now == 1000
When(r) == IF r.at = None THEN Now ELSE r.at
Before(k, j, rows) ==
    \/ When(rows[k]) < When(rows[j])
    \/ When(rows[k]) = When(rows[j]) /\ rows[k].rank < rows[j].rank
Visible(rows) ==
    {k \in DOMAIN rows : rows[k].status = "ACCEPTED" =>
        ~\E j \in DOMAIN rows : /\ rows[j].status = "ACCEPTED" /\ Before(k, j, rows)
                                /\ rows[j].listing = rows[k].listing /\ rows[j].buyer = rows[k].buyer}

LinksNext ==
    \/ \E s \in Step, status \in {"Active", "Accepted", "Declined"} : Negotiate(s, status)
    \/ \E seen \in SUBSET Step : FetchPage(seen)
    \/ PageUpserted \/ ResolveCommits \/ ResolveFails
    \/ \E listing \in {StepFacts[s].listing : s \in Step} : ListingSynced(listing)
    \/ \E c \in Thread, arrived \in SUBSET Notice : ResolveReads(c, arrived)
    \/ \E c \in Thread : ShowConversation(c)

----------------------------------------------------------------------------
LinksTypeOK ==
    /\ DOMAIN offers \subseteq Step \cup {Sent(s) : s \in Step} \cup Notice
    /\ threads \subseteq Thread /\ imported \subseteq Notice
    /\ \A k \in DOMAIN offers : offers[k].thread \in Thread \cup {None}

\* A conversation is marked as having offers exactly when a row is linked to it, unless a row
\* moved away since it was counted; Trading evidence stands: a row read from eBay shows what
\* eBay said, stays closed once closed and is not taken over by a message's wording, unless it
\* changed while a sync was resolving; and a derived counteroffer belongs to an accepted one,
\* which the timeline never dates before it.
OffersLinked ==
    /\ \A c \in threads \ lost : hasOffers[c] = HasRow(c, offers)
    /\ \A s \in (DOMAIN offers \cap Step) \ raced :
         /\ offers[s].source = "TRADING" => offers[s].status = BroadStatus(offers[s].provider)
         /\ s \in closed => offers[s].source = "TRADING" /\ Over(offers[s].provider)
         /\ Sent(s) \in DOMAIN offers => StepFacts[s].side = "SellerCounterOffer" /\ offers[s].status = "ACCEPTED"
    /\ \A c \in threads :
         LET rows == TimelineOf(c) IN
         \A s \in Step \ raced :
             {s, Sent(s)} \subseteq DOMAIN rows => When(rows[Sent(s)]) <= When(rows[s])
=============================================================================
