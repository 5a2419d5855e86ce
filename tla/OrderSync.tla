------------------------------ MODULE OrderSync ------------------------------
(***************************************************************************)
(* Orders copied from eBay by the time they were last modified, and the    *)
(* order each conversation is about: matched after every sync, chosen by   *)
(* an agent, or attached from a sold order.  A sync walks the pages of a   *)
(* window of time while eBay modifies orders, which leave the window.      *)
(***************************************************************************)
EXTENDS Integers, Sequences, FiniteSets, FiniteSetsExt, SequencesExt

CONSTANTS
    Shop,
    Orders,         \* a sequence: eBay lists the orders of a window in this order
    Facts,          \* by order: account, buyer, item, created
    Inquiry,
    About,          \* by conversation: account, buyer, item (or Void), activity
    PageLimit, MaxTries,
    Lag,            \* FILTER_END_SAFETY_LAG
    Overlap,        \* CURSOR_OVERLAP
    Near,           \* half-width of the window of nearby orders
    LastClock,      \* bound on the clock
    MaxFailures,    \* bound on the payloads of a page that fail
    Void            \* no value

OrderSyncAssumption ==
    /\ PageLimit \in Nat \ {0} /\ MaxTries \in Nat \ {0} /\ LastClock \in Nat
    /\ Lag \in Nat \ {0} /\ Overlap \in Nat /\ Near \in Nat /\ MaxFailures \in Nat
    /\ Orders \in Seq(ToSet(Orders))
    /\ \A o \in ToSet(Orders) : Facts[o].account \in Shop /\ Facts[o].created \in Int
    /\ \A c \in Inquiry : About[c].activity \in Int
    /\ Void \notin Int \cup ToSet(Orders) \cup {"pages", "match", "SOLD_POSTING"}

Order == ToSet(Orders)

VARIABLES
    clock,
    market,         \* eBay: when each order was last modified, Void before it is placed
    ordersStored,   \* EbayOrder: the modification each row shows
    cursor,         \* EbayAccount.last_order_sync_at
    pass,           \* per account: the order sync under way
    link,           \* Conversation.linked_order_record_id
    mapping,        \* ConversationOrderContext
    slipped,        \* history: orders a sync failed to store or that a page shift hid
    attached        \* history: per conversation, the order attached last

orderVars == <<clock, market, ordersStored, cursor, pass, link, mapping, slipped, attached>>

Resting == [at |-> Void]
NoMapping == [order |-> Void, strategy |-> Void]
OrderInit ==
    /\ clock = 0
    /\ market = [o \in Order |-> Void]
    /\ ordersStored = [o \in Order |-> Void]
    /\ cursor = [a \in Shop |-> Void]
    /\ pass = [a \in Shop |-> Resting]
    /\ link = [c \in Inquiry |-> Void]
    /\ mapping = [c \in Inquiry |-> NoMapping]
    /\ slipped = {} /\ attached = [c \in Inquiry |-> Void]

----------------------------------------------------------------------------
\* _incremental_filter(): no filter the first time.
FilterFrom(a, end) ==
    IF cursor[a] = Void THEN Void
    ELSE (IF cursor[a] >= end THEN end ELSE cursor[a]) - Overlap

InWindow(o, p) ==
    /\ market[o] # Void
    /\ (p.from # Void => p.from <= market[o] /\ market[o] <= p.end)
\* FulfillmentOrderProvider.fetch_page(): eBay's answer at the time of the call.
Position(o) == CHOOSE i \in DOMAIN Orders : Orders[i] = o
Window(a, p) == {o \in Order : Facts[o].account = a /\ InWindow(o, p)}
Place(o, window) == Cardinality({q \in window : Position(q) <= Position(o)})
FetchPage(a, p) == {o \in Window(a, p) : Place(o, Window(a, p)) \in (p.offset + 1)..(p.offset + PageLimit)}
HasMore(a, p) == p.offset + Cardinality(FetchPage(a, p)) < Cardinality(Window(a, p))

\* eBay's side: an order is placed or modified; while a sync walks its window the orders
\* behind it on later pages move up.
Modify(o) ==
    LET a == Facts[o].account IN
    /\ market[o] # clock
    /\ market' = [market EXCEPT ![o] = clock]
    /\ slipped' =
         IF pass[a].at = "pages" /\ InWindow(o, pass[a])
         THEN slipped \cup {q \in Order : InWindow(q, pass[a]) /\ q \notin DOMAIN pass[a].held}
         ELSE slipped
    /\ UNCHANGED <<clock, ordersStored, cursor, pass, link, mapping, attached>>

ClockTicks ==
    /\ clock < LastClock /\ clock' = clock + 1
    /\ UNCHANGED <<market, ordersStored, cursor, pass, link, mapping, slipped, attached>>

----------------------------------------------------------------------------
SyncBegins(a) ==
    LET end == clock - Lag IN
    /\ pass[a] = Resting
    /\ pass' = [pass EXCEPT ![a] =
                  [at |-> "pages", from |-> FilterFrom(a, end), end |-> end, offset |-> 0,
                   attempt |-> 1, refreshed |-> FALSE, held |-> <<>>]]
    /\ UNCHANGED <<clock, market, ordersStored, cursor, link, mapping, slipped, attached>>

\* upsert_order(), in a savepoint per order: the payloads in `bad` fail and are skipped.
Held(a, p, bad) ==
    LET got == FetchPage(a, p) \ bad IN
    [o \in got \cup DOMAIN p.held |-> IF o \in got THEN market[o] ELSE p.held[o]]

PageUpserted(a, bad) ==
    LET p == pass[a] IN
    /\ p.at = "pages"
    /\ bad \subseteq FetchPage(a, p) /\ Cardinality(bad) <= MaxFailures
    /\ pass' = [pass EXCEPT ![a] =
                  [p EXCEPT !.held = Held(a, p, bad), !.offset = @ + Cardinality(FetchPage(a, p)),
                            !.attempt = 1, !.refreshed = FALSE,
                            !.at = IF HasMore(a, p) /\ FetchPage(a, p) # {} THEN "pages" ELSE "match"]]
    /\ slipped' = slipped \cup bad
    /\ UNCHANGED <<clock, market, ordersStored, cursor, link, mapping, attached>>

Flushed(p) == [o \in Order |-> IF o \in DOMAIN p.held THEN p.held[o] ELSE ordersStored[o]]

\* _fetch_page_with_retry(): 401 once, and the token refresh commits what was stored so far.
TokenRefreshed(a) ==
    /\ pass[a].at = "pages" /\ ~pass[a].refreshed /\ pass[a].attempt < MaxTries
    /\ ordersStored' = Flushed(pass[a])
    /\ pass' = [pass EXCEPT ![a].refreshed = TRUE, ![a].attempt = @ + 1]
    /\ UNCHANGED <<clock, market, cursor, link, mapping, slipped, attached>>

\* A lasting error ends the order sync; the message sync around it commits the rows it has.
SyncFails(a) ==
    /\ pass[a].at = "pages"
    /\ ordersStored' = Flushed(pass[a])
    /\ pass' = [pass EXCEPT ![a] = Resting]
    /\ UNCHANGED <<clock, market, cursor, link, mapping, slipped, attached>>

----------------------------------------------------------------------------
(* Which order is a conversation about?                                    *)
\* Absolute distance in time.
Apart(o, c) == IF Facts[o].created > About[c].activity
               THEN Facts[o].created - About[c].activity ELSE About[c].activity - Facts[o].created

OfBuyer(c, rows) ==
    {o \in rows : Facts[o].account = About[c].account /\ Facts[o].buyer = About[c].buyer}
FindCandidates(c, rows) ==
    {o \in OfBuyer(c, rows) : About[c].item # Void => Facts[o].item = About[c].item}
\* find_nearby_buyer_orders(): the two newest.
Newest(os) == {o \in os : Cardinality({q \in os : Facts[q].created > Facts[o].created}) < 2}
FindNearby(c, rows) == Newest({o \in OfBuyer(c, rows) : Apart(o, c) <= Near})
\* _deterministic_best_order(): nearest to the conversation's activity, then by id.
BestOrder(c, os) ==
    CHOOSE o \in os : \A q \in os :
        \/ Apart(o, c) < Apart(q, c)
        \/ Apart(o, c) = Apart(q, c) /\ Position(o) <= Position(q)

MatchOf(c, rows) ==
    LET found == FindCandidates(c, rows) near == FindNearby(c, rows) IN
    CASE Cardinality(found) = 1 -> [order |-> BestOrder(c, found), strategy |-> "BUYER_ITEM_MATCH"]
      [] Cardinality(found) > 1 -> [order |-> BestOrder(c, found), strategy |-> "BUYER_ITEM_DATE_MATCH"]
      [] found = {} /\ Cardinality(near) = 1 -> [order |-> BestOrder(c, near), strategy |-> "BUYER_NEARBY_ORDER"]
      [] found = {} /\ Cardinality(near) > 1 -> [order |-> BestOrder(c, near), strategy |-> "BUYER_NEARBY_DATE_MATCH"]
      [] OTHER -> NoMapping

\* An order attached from Sold Posting is kept; one an agent selected is not.
Preserved(c) == mapping[c].strategy = "SOLD_POSTING" /\ mapping[c].order # Void

M_Cursor(p) == clock        \* mutant: synced through now
Cursor(p) == p.end

\* match_account_conversations(), link_conversation_context(), and the commit.
MatchAndCommit(a) ==
    LET p == pass[a]
        rows == {o \in Order : Flushed(p)[o] # Void}
        matched == {c \in Inquiry :
                      About[c].account = a /\ ~Preserved(c) /\ MatchOf(c, rows).order # Void} IN
    /\ p.at = "match"
    /\ ordersStored' = Flushed(p)
    /\ mapping' = [c \in Inquiry |-> IF c \in matched THEN MatchOf(c, rows) ELSE mapping[c]]
    /\ link' = [c \in Inquiry |-> IF c \in matched THEN MatchOf(c, rows).order ELSE link[c]]
    /\ cursor' = [cursor EXCEPT ![a] = Cursor(p)]
    /\ pass' = [pass EXCEPT ![a] = Resting]
    /\ UNCHANGED <<clock, market, slipped, attached>>

\* select_order()
SelectOrder(c, o) ==
    /\ o # Void => ordersStored[o] # Void /\ Facts[o].account = About[c].account
    /\ link[c] # o
    /\ link' = [link EXCEPT ![c] = o]
    /\ UNCHANGED <<clock, market, ordersStored, cursor, pass, mapping, slipped, attached>>

\* attach_order(): the sold order's copy is stored unless the order is there already.
AttachOrder(c, o) ==
    LET f == Facts[o] IN
    /\ market[o] # Void
    /\ f.account = About[c].account /\ f.buyer = About[c].buyer
    /\ ordersStored[o] = Void /\ pass[f.account] # Resting => o \notin DOMAIN pass[f.account].held
    /\ mapping[c] # [order |-> o, strategy |-> "SOLD_POSTING"] \/ link[c] # o
    /\ ordersStored' = [ordersStored EXCEPT ![o] = IF @ = Void THEN market[o] ELSE @]
    /\ mapping' = [mapping EXCEPT ![c] = [order |-> o, strategy |-> "SOLD_POSTING"]]
    /\ link' = [link EXCEPT ![c] = o]
    /\ attached' = [attached EXCEPT ![c] = o]
    /\ UNCHANGED <<clock, market, cursor, pass, slipped>>

OrderNext ==
    \/ ClockTicks
    \/ \E o \in Order : Modify(o)
    \/ \E a \in Shop :
         \/ SyncBegins(a) \/ TokenRefreshed(a) \/ SyncFails(a) \/ MatchAndCommit(a)
         \/ \E bad \in SUBSET Order : PageUpserted(a, bad)
    \/ \E c \in Inquiry :
         \/ \E o \in Order \cup {Void} : SelectOrder(c, o)
         \/ \E o \in Order : AttachOrder(c, o)

OrderSpec == OrderInit /\ [][OrderNext]_orderVars

----------------------------------------------------------------------------
\* _selected_or_direct_order(): the link, else the mapping.
SelectedOrder(c) == IF link[c] # Void THEN link[c] ELSE mapping[c].order

OrderTypeOK ==
    /\ market \in [Order -> 0..LastClock \cup {Void}] /\ ordersStored \in [Order -> 0..LastClock \cup {Void}]
    /\ \A a \in Shop : cursor[a] = Void \/ cursor[a] \in -Lag..LastClock
    /\ link \in [Inquiry -> Order \cup {Void}]

\* An order modified up to the cursor is stored as modified, unless its payload failed or it
\* sat on a later page when its window shifted; the order a conversation shows is stored and
\* of its own account and buyer unless an agent chose it; and an order attached from Sold
\* Posting stays, whatever syncs run.
OrdersInStep ==
    /\ \A o \in Order \ slipped :
         LET a == Facts[o].account IN
         market[o] # Void /\ cursor[a] # Void /\ market[o] <= cursor[a] => ordersStored[o] = market[o]
    /\ \A c \in Inquiry :
         LET o == SelectedOrder(c) m == mapping[c].order IN
         /\ o # Void => ordersStored[o] # Void /\ Facts[o].account = About[c].account
         /\ m # Void => Facts[m].account = About[c].account /\ Facts[m].buyer = About[c].buyer
         /\ attached[c] # Void => mapping[c] = [order |-> attached[c], strategy |-> "SOLD_POSTING"]
=============================================================================
