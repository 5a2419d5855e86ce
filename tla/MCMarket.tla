------------------------------ MODULE MCMarket ------------------------------
(***************************************************************************)
(* Instances for TLC of the parts that deal with eBay and its records.     *)
(* They share no state: a behaviour is about one part, chosen at the       *)
(* start, and their state spaces add up.                                   *)
(***************************************************************************)
EXTENDS ApiQuota, AuthSessions, EbayAccounts, EbayClient, OfferEntries, OrderSync, ProductContexts, SoldPosting

CONSTANTS s1, s2, m1, m2, w1, w2, x1, x2, y1, y2

VARIABLES
    part,       \* the part this behaviour is about
    deals, offers, threads, imported, hasOffers, page, resolving, lost, closed, raced,
    timer, failures, dealings, outgoing, settings, subscribing, events, rows, schedule, snapshot,
    scan, finished, asleep, shown,
    disk, ebay, messages, files, sending, toldAgent, payloads, kept, lostFiles,
    mail, records, copies, composing, importing, begun, settled, early

linking == <<deals, offers, threads, imported, hasOffers, page, resolving, lost, closed, raced>>
notification == <<timer, failures, dealings, outgoing, settings, subscribing, events, rows, schedule, snapshot,
              scan, finished, asleep, shown>>
image == <<disk, ebay, messages, files, sending, toldAgent, payloads, kept, lostFiles>>
first == <<mail, records, copies, composing, importing, begun, settled, early>>
clerical == <<wireVars, accountVars, quotaVars, authVars, entryVars, image, first>>
trade == <<soldVars, orderVars, productVars>>
bargain == <<linking, notification>>

----------------------------------------------------------------------------
\* Orders as eBay describes them: one that goes on, one that is cancelled, refunded and paid late.
SoldOrder(requests, refund, delivered, payment, fulfillment, carriers, created) ==
    [cancel |-> "NONE", requests |-> requests, refund |-> refund, total |-> 2, delivered |-> delivered,
     payment |-> payment, fulfillment |-> fulfillment,
     payments |-> {<<1, payment = "PAID">>, <<2, FALSE>>}, carriers |-> carriers,
     condition |-> None, product |-> "used", created |-> created]
Going == SoldOrder({{"REJECTED"}}, 0, FALSE, "PAID", "NOT_STARTED", <<None, "dhl">>, 0)
Ending == SoldOrder({{"REQUESTED"}}, 1, TRUE, "NOT_PAID", "FULFILLED", <<>>, 36)
SoldOrders == {Going, Ending}
AccountNames == <<"a", "b">>

\* Two entries and a few edits of each, or one entry and more edits (Followed).
SheetRow(bad, number, listed, revised, quantity) ==
    [bad |-> bad, number |-> number, listed |-> listed, revised |-> revised, quantity |-> quantity,
     follow |-> TRUE, remarks |-> None]
NewEntries == {[status |-> "OPEN", outcome |-> "PENDING", follow |-> TRUE, listed |-> 3]}
EntryEdits == {[status |-> "CLOSED", outcome |-> "SOLD", remarks |-> "why"], [remarks |-> None],
               [revised |-> 2, quantity |-> 2, follow |-> TRUE]}
ExcelSheets == {<<SheetRow(FALSE, None, 3, None, 1), SheetRow(TRUE, None, 1, None, None),
                  SheetRow(FALSE, 2, 1, 4, None)>>}

----------------------------------------------------------------------------
\* Two orders of a buyer over time; and three conversations to attach to.
OrderFact(account, buyer, item, created) ==
    [account |-> account, buyer |-> buyer, item |-> item, created |-> created]
OrderFacts == [o \in {"o1", "o2", "o3"} |->
    CASE o = "o1" -> OrderFact("a", "ann", "x", 1) [] o = "o2" -> OrderFact("a", "ann", "y", 3)
      [] OTHER -> OrderFact("b", "ann", "x", 2)]
Topic(item, activity) == [account |-> "a", buyer |-> "ann", item |-> item, activity |-> activity]
Topics == [c \in {"c1", "c2", "c3"} |->
    CASE c = "c1" -> Topic("x", 2) [] c = "c2" -> Topic(None, 3) [] OTHER -> Topic("z", 2)]
OrderList == <<"o1", "o2", "o3">>

\* One negotiation and two messages that word it; two negotiations on a listing.
OfferStep(buyer, side, role, expires, amount) ==
    [listing |-> "x", buyer |-> buyer, side |-> side, role |-> role, expires |-> expires, amount |-> amount]
OfferSteps == [s \in {s1, s2} |->
    IF s = s1 THEN OfferStep("ann", "SellerCounterOffer", "Seller", 100, 5)
    ELSE OfferStep("bob", "BuyerOffer", "Buyer", 90, 3)]
OfferThreads == [c \in {"c1", "c2"} |->
    [listing |-> "x", buyer |-> IF c = "c1" THEN "ann" ELSE "bob", member |-> TRUE, words |-> {}]]
OfferNotices == [m \in {m1, m2} |->
    IF m = m1 THEN [thread |-> "c1", words |-> {"offer", "counteroffer"}, amount |-> 5, offer |-> s1, at |-> 60]
    ELSE [thread |-> "c1", words |-> {"offer", "accepted"}, amount |-> None, offer |-> None, at |-> 61]]
Worded == INSTANCE OfferLinks WITH
    Step <- {s1}, StepFacts <- OfferSteps, Thread <- {"c1", "c2"}, ThreadFacts <- OfferThreads,
    Notices <- <<m1, m2>>, NoticeFacts <- OfferNotices
Linked == INSTANCE OfferLinks WITH
    Step <- {s1, s2}, StepFacts <- OfferSteps, Thread <- {"c1", "c2"}, ThreadFacts <- OfferThreads,
    Notices <- <<>>, NoticeFacts <- OfferNotices

\* A buyer whose offer may be accepted with every notification heard, with the history, two
\* steps of a negotiation, a setup of the notifications, two listings with one event a pass,
\* an answer that names no role.
Deal(listing, buyer, turn, omits) == [listing |-> listing, buyer |-> buyer, turn |-> turn, omits |-> omits]
Deals == [o \in {"p", "q", "r"} |->
    CASE o = "p" -> Deal(1, "ann", 1, FALSE) [] o = "q" -> Deal(1, "ann", 2, TRUE) [] OTHER -> Deal(2, "bob", 1, FALSE)]
Single == INSTANCE OfferActivity WITH
    Offer <- {"p"}, OfferFacts <- Deals, EventLimit <- 1, Lag <- 1, Horizon <- 4, MaxFailures <- 1,
    Setup <- "never", Histories <- {FALSE}, Statuses <- {"Active", "Pending", "PendingBuyerPayment", "Accepted", "Declined"},
    clock <- timer, deals <- dealings, pass <- scan
Historic == INSTANCE OfferActivity WITH
    Offer <- {"p"}, OfferFacts <- Deals, EventLimit <- 1, Lag <- 1, Horizon <- 4, MaxFailures <- 0,
    Setup <- "never", Histories <- {TRUE}, Statuses <- {"Active", "PendingBuyerPayment", "Accepted", "Declined"},
    clock <- timer, deals <- dealings, pass <- scan
Turns == INSTANCE OfferActivity WITH
    Offer <- {"p", "q"}, OfferFacts <- Deals, EventLimit <- 1, Lag <- 1, Horizon <- 2, MaxFailures <- 0,
    Setup <- "never", Histories <- {FALSE}, Statuses <- {"Active", "Declined"},
    clock <- timer, deals <- dealings, pass <- scan
Settling == INSTANCE OfferActivity WITH
    Offer <- {"p"}, OfferFacts <- Deals, EventLimit <- 1, Lag <- 1, Horizon <- 1, MaxFailures <- 1,
    Setup <- "now", Histories <- {FALSE}, Statuses <- {"Active", "Declined"},
    clock <- timer, deals <- dealings, pass <- scan
Crowd == INSTANCE OfferActivity WITH
    Offer <- {"p", "r"}, OfferFacts <- Deals, EventLimit <- 1, Lag <- 1, Horizon <- 1, MaxFailures <- 0,
    Setup <- "before", Histories <- {FALSE}, Statuses <- {"Pending"},
    clock <- timer, deals <- dealings, pass <- scan
Roleless == INSTANCE OfferActivity WITH
    Offer <- {"q"}, OfferFacts <- Deals, EventLimit <- 1, Lag <- 1, Horizon <- 1, MaxFailures <- 1,
    Setup <- "before", Histories <- {FALSE}, Statuses <- {"Active", "Pending"},
    clock <- timer, deals <- dealings, pass <- scan

\* Two photos of one name, a second image that is too large, a document.
Image(name, mime, large) == [name |-> name, mime |-> mime, large |-> large]
Images == [r \in {"r1", "r2", "r3"} |->
    CASE r = "r1" -> <<Image("photo", "image/png", FALSE), Image("photo", "image/jpeg", FALSE)>>
      [] r = "r2" -> <<Image("photo", "image/png", FALSE), Image("poster", "image/png", TRUE)>>
      [] OTHER -> <<Image("terms", "application/pdf", FALSE)>>]
Attached == INSTANCE ReplyFiles WITH
    Reply <- {"r1", "r2", "r3"}, Uploads <- Images, MaxCount <- 2, MaxImports <- 2,
    rows <- files, told <- toldAgent, lost <- lostFiles

\* One agent, whose conversations are closed and whose buyer may have two threads; two
\* agents who write at once.
Solo == INSTANCE FirstMessages WITH
    Agent <- {"ann"}, Thread <- {y1, y2}, Text <- {x1, x2}, Nowhere <- None, Closes <- TRUE,
    MaxMessages <- 2, MaxConversations <- 2
Pair == INSTANCE FirstMessages WITH
    Agent <- {w1, w2}, Thread <- {y1}, Text <- {x1, x2}, Nowhere <- None, Closes <- FALSE,
    MaxMessages <- 2, MaxConversations <- 2

ASSUME
    /\ WireAssumption /\ EbayAccountsAssumption /\ QuotaAssumption /\ AuthAssumption
    /\ SoldPostingAssumption /\ OfferEntriesAssumption /\ OrderSyncAssumption /\ ProductContextAssumption
    /\ Solo!FirstMessagesAssumption /\ Pair!FirstMessagesAssumption

----------------------------------------------------------------------------
Offices == {"client", "accounts", "quota", "auth", "entries", "edits", "images", "first", "pair"}
Sales == {"pages", "twice", "both", "orders", "attach", "products"}
Negotiations == {"worded", "linked", "single", "historic", "turns", "setup", "crowd", "roleless"}

Init ==
    /\ part \in Offices \cup Sales \cup Negotiations
    /\ WireInit /\ AccountsInit /\ QuotaInit /\ AuthInit
    /\ SoldInit /\ EntriesInit /\ OrderInit /\ ProductInit
    /\ IF part = "linked" THEN Linked!LinksInit ELSE Worded!LinksInit
    /\ CASE part = "turns" -> Turns!ActivityInit
         [] part = "setup" -> Settling!ActivityInit
         [] part = "crowd" -> Crowd!ActivityInit
         [] part = "roleless" -> Roleless!ActivityInit
         [] OTHER -> Single!ActivityInit
    /\ Attached!FilesInit
    /\ IF part = "pair" THEN Pair!FirstInit ELSE Solo!FirstInit

OfficeNext ==
    \/ /\ part = "client" /\ exchange.op = None /\ WireNext
       /\ UNCHANGED <<accountVars, quotaVars, authVars, entryVars, image, first>>
    \/ /\ part = "accounts" /\ AccountsNext
       /\ UNCHANGED <<wireVars, quotaVars, authVars, entryVars, image, first>>
    \/ /\ part = "quota" /\ QuotaNext
       /\ UNCHANGED <<wireVars, accountVars, authVars, entryVars, image, first>>
    \/ /\ part = "auth" /\ AuthNext
       /\ UNCHANGED <<wireVars, accountVars, quotaVars, entryVars, image, first>>
    \/ /\ part \in {"entries", "edits"} /\ EntriesNext
       /\ UNCHANGED <<wireVars, accountVars, quotaVars, authVars, image, first>>
    \/ /\ part = "images" /\ Attached!FilesNext
       /\ UNCHANGED <<wireVars, accountVars, quotaVars, authVars, entryVars, first>>
    \/ /\ \/ part = "first" /\ Solo!FirstNext
          \/ part = "pair" /\ Pair!FirstNext
       /\ UNCHANGED <<wireVars, accountVars, quotaVars, authVars, entryVars, image>>
SalesNext ==
    \/ /\ part \in {"pages", "twice", "both"} /\ SoldNext
       /\ UNCHANGED <<orderVars, productVars>>
    \/ /\ part \in {"orders", "attach"} /\ OrderNext
       /\ UNCHANGED <<soldVars, productVars>>
    \/ /\ part = "products" /\ ProductNext
       /\ UNCHANGED <<soldVars, orderVars>>
NegotiationNext ==
    \/ /\ \/ part = "worded" /\ Worded!LinksNext
          \/ part = "linked" /\ Linked!LinksNext
       /\ UNCHANGED notification
    \/ /\ \/ part = "single" /\ Single!ActivityNext
          \/ part = "historic" /\ Historic!ActivityNext
          \/ part = "turns" /\ Turns!ActivityNext
          \/ part = "setup" /\ Settling!ActivityNext
          \/ part = "crowd" /\ Crowd!ActivityNext
          \/ part = "roleless" /\ Roleless!ActivityNext
       /\ UNCHANGED linking

Next ==
    /\ UNCHANGED part
    /\ \/ OfficeNext /\ UNCHANGED <<trade, bargain>>
       \/ SalesNext /\ UNCHANGED <<clerical, bargain>>
       \/ NegotiationNext /\ UNCHANGED <<clerical, trade>>

Spec == Init /\ [][Next]_<<part, clerical, trade, bargain>>

\* Sold postings: one process and a page for each of two orders; two processes and one order;
\* two accounts.  Orders: an account's over time; attached ones of two accounts.
OneAccount == sold["b"] = <<>> /\ \A p \in Process : syncing[p].at = None \/ "b" \notin syncing[p].todo
OneProcess == ~running[2]
OneSale == \A a \in Account : Len(sold[a]) <= 1
Unchanged == \A a \in Account, n \in 1..MaxOrders : n \in DOMAIN sold[a] => sold[a][n].version = 0
TradeFollowed ==
    /\ part = "pages" => OneAccount /\ OneProcess
    /\ part = "twice" => OneAccount /\ OneSale
    /\ part = "both" => OneProcess /\ OneSale /\ Unchanged
    /\ part = "orders" =>
         /\ market["o3"] = None /\ pass["b"] = Resting
         /\ \A c \in Inquiry : attached[c] = None /\ link[c] = mapping[c].order
    /\ part = "attach" => clock = 0 /\ pass["b"] = Resting /\ (pass["a"] = Resting \/ pass["a"].attempt = 1)

\* What comes after a race the properties leave out is not followed, and of the two texts
\* and the two threads, which are interchangeable, the first one comes first.
Followed ==
    /\ renamed = {} /\ moved = {} /\ TradeFollowed
    /\ part = "entries" => \A i \in DOMAIN trail : Len(trail[i]) <= 2
    /\ part = "edits" => nextId <= 2
    /\ part = "linked" => raced = {} /\ lost = {}
    /\ part \in {"first", "pair"} =>
         /\ ~Solo!Ambiguous
         /\ \A m \in DOMAIN mail :
              /\ mail[m].text = x2 => \E n \in 1..m : mail[n].text = x1
              /\ mail[m].thread = y2 => \E n \in 1..m : mail[n].thread = y1

----------------------------------------------------------------------------
\* Types, part by part.
TypeOK ==
    CASE part = "client" -> WireTypeOK
      [] part = "accounts" -> AccountsTypeOK
      [] part = "quota" -> QuotaTypeOK
      [] part = "auth" -> AuthTypeOK
      [] part \in {"entries", "edits"} -> EntriesTypeOK
      [] part = "images" -> Attached!FilesTypeOK
      [] part = "first" -> Solo!FirstTypeOK
      [] part = "pair" -> Pair!FirstTypeOK
      [] part \in {"pages", "twice", "both"} -> SoldTypeOK
      [] part \in {"orders", "attach"} -> OrderTypeOK
      [] part = "products" -> ProductTypeOK
      [] part = "worded" -> Worded!LinksTypeOK
      [] part = "linked" -> Linked!LinksTypeOK
      [] part = "single" -> Single!ActivityTypeOK
      [] part = "historic" -> Historic!ActivityTypeOK
      [] part = "turns" -> Turns!ActivityTypeOK
      [] part = "setup" -> Settling!ActivityTypeOK
      [] part = "crowd" -> Crowd!ActivityTypeOK
      [] part = "roleless" -> Roleless!ActivityTypeOK
\* Offers are with the conversations their evidence names, and are shown there.
OffersLinked == /\ part = "worded" => Worded!OffersLinked
                /\ part = "linked" => Linked!OffersLinked
\* Offers that ended leave the current view, whoever notices it.
ViewCaughtUp == CASE part = "turns" -> Turns!ViewCaughtUp
                  [] part = "setup" -> Settling!ViewCaughtUp
                  [] part = "crowd" -> Crowd!ViewCaughtUp
                  [] part = "roleless" -> Roleless!ViewCaughtUp
                  [] part = "historic" -> Historic!ViewCaughtUp
                  [] part = "single" -> Single!ViewCaughtUp
                  [] OTHER -> TRUE
\* What is sent is stored: its files have rows and its rows files or hosted copies, and
\* the first messages to a buyer are in the conversations of their threads.
RepliesLand == /\ part = "images" => Attached!FilesAccounted
               /\ part = "first" => Solo!FirstMessagesLand
               /\ part = "pair" => Pair!FirstMessagesLand
=============================================================================
