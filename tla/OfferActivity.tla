----------------------------- MODULE OfferActivity -----------------------------
(***************************************************************************)
(* How the list of current offers of an account keeps up with eBay: eBay's *)
(* activity notifications are queued, a pass scans the Active offers,      *)
(* publishes them as the snapshot, and checks the listings whose schedule  *)
(* or whose events say so.  One unit of time is five minutes.              *)
(***************************************************************************)
EXTENDS Integers, FiniteSets, FiniteSetsExt

CONSTANTS
    Offer,          \* the offers of eBay
    OfferFacts,     \* by offer: listing, buyer, turn in its negotiation, omits (a listing
                    \* answer names no role for it)
    EventLimit,     \* events a pass takes up
    Lag,            \* how long a scan of the Active offers may still name a closed one
    Horizon,        \* bound: the last instant
    MaxFailures,    \* bound: failed calls and stopped passes
    Setup,          \* bound: whether the notifications are set up "never", "now" or "before"
    Statuses,       \* bound: the statuses offers take in this instance
    Histories,      \* bound: the kinds of pass, FALSE the latest offers, TRUE with the history
    None

Listing == {OfferFacts[o].listing : o \in Offer}
On(l) == {o \in Offer : OfferFacts[o].listing = l}

VARIABLES
    clock, failures,
    deals,          \* eBay, by offer: status, and since when it has it
    outgoing,       \* eBay: notifications it has yet to deliver
    settings,       \* the stored subscription: endpoint, destination, subscription
    subscribing,    \* the step of a setup, and whether eBay has the subscription
    events,         \* the queue, by notification: status, at, later than the last check
    rows,           \* Offer by offer: provider_status, reconciliation_required
    schedule,       \* EbayBestOfferListingSyncState by listing
    snapshot,       \* the published ids, None before the first
    pass,           \* the pass under way
    finished,       \* history: start of the last pass that went to its end, and if it published;
                    \* whether there were more events than it takes up
    asleep,         \* history: offers a scan met while their listing was not to be checked
    shown           \* history: offers that were listed as current

activityVars == <<clock, failures, deals, outgoing, settings, subscribing, events, rows, schedule,
                  snapshot, pass, finished, asleep, shown>>
ebaySide == <<deals, outgoing>>
setup == <<settings, subscribing>>
stored == <<events, rows, schedule, snapshot>>

OPEN == {"Active", "Pending"}
AGREED == {"PendingBuyerPayment"}
OVER == {"Accepted", "Declined"}
Week == 2016
HalfDay == 144
Unscheduled == [next |-> None, attempts |-> 0, error |-> FALSE, checked |-> None]
NoPass == [stage |-> "idle"]

ActivityInit ==
    /\ clock = 0 /\ failures = 0
    /\ deals = [o \in Offer |-> [status |-> None, since |-> 0]]
    /\ outgoing = {}
    /\ settings = IF Setup = "before" THEN {"endpoint", "destination", "subscription"} ELSE {}
    /\ subscribing = [step |-> "idle", subscribed |-> Setup = "before"]
    /\ events = <<>> /\ rows = <<>>
    /\ schedule = [l \in Listing |-> Unscheduled]
    /\ snapshot = None
    /\ pass = NoPass
    /\ finished = [began |-> -1, published |-> FALSE, crowded |-> FALSE]
    /\ asleep = {} /\ shown = {}

----------------------------------------------------------------------------
(* eBay's side.                                                            *)
Tick == clock < Horizon /\ clock' = clock + 1
        /\ UNCHANGED <<failures, ebaySide, setup, stored, pass, finished, asleep, shown>>

\* An offer is made and ends; a decline is not notified.
Negotiate(o, status) ==
    /\ CASE deals[o].status = None -> status \in OPEN
         [] deals[o].status \in OPEN -> status \in AGREED \cup {"Declined"}
         [] deals[o].status \in AGREED -> status = "Accepted"
         [] OTHER -> FALSE
    /\ deals' = [deals EXCEPT ![o] = [status |-> status, since |-> clock]]
    /\ outgoing' = IF subscribing.subscribed /\ status # "Declined" THEN outgoing \cup {<<o, status>>} ELSE outgoing
    /\ UNCHANGED <<clock, failures, setup, stored, pass, finished, asleep, shown>>

----------------------------------------------------------------------------
(* The subscription.                                                       *)
\* setup(): the endpoint is committed first, for eBay's challenge to be answered.
SetupBegins ==
    /\ Setup = "now"
    /\ pass.stage = "idle" /\ subscribing.step = "idle" /\ "subscription" \notin settings
    /\ settings' = settings \cup {"endpoint"}
    /\ subscribing' = [subscribing EXCEPT !.step = IF "destination" \in settings THEN "subscription" ELSE "destination"]
    /\ UNCHANGED <<clock, failures, ebaySide, stored, pass, finished, asleep, shown>>
\* challenge()
Challenged == "endpoint" \in settings
DestinationCreated ==
    /\ subscribing.step = "destination" /\ Challenged
    /\ settings' = settings \cup {"destination"}
    /\ subscribing' = [subscribing EXCEPT !.step = "subscription"]
    /\ UNCHANGED <<clock, failures, ebaySide, stored, pass, finished, asleep, shown>>
\* From here eBay notifies, though the answer is not stored.
SubscriptionCreated ==
    /\ subscribing.step = "subscription"
    /\ subscribing' = [step |-> "answered", subscribed |-> TRUE]
    /\ UNCHANGED <<clock, failures, ebaySide, settings, stored, pass, finished, asleep, shown>>
SubscriptionStored ==
    /\ subscribing.step = "answered"
    /\ settings' = settings \cup {"subscription"}
    /\ subscribing' = [subscribing EXCEPT !.step = "idle"]
    /\ UNCHANGED <<clock, failures, ebaySide, stored, pass, finished, asleep, shown>>
\* request() fails, or the process ends before the answer is stored.
SetupFails ==
    /\ subscribing.step # "idle" /\ failures < MaxFailures
    /\ failures' = failures + 1
    /\ subscribing' = [subscribing EXCEPT !.step = "idle"]
    /\ UNCHANGED <<clock, ebaySide, settings, stored, pass, finished, asleep, shown>>

\* receive(), enqueue(): eBay repeats what is not acknowledged; a known event is a duplicate.
Receive(e) ==
    /\ e \in outgoing /\ "subscription" \in settings
    /\ events' = IF e \in DOMAIN events THEN events
                 ELSE [n \in DOMAIN events \cup {e} |->
                          IF n = e THEN [status |-> "PENDING", at |-> clock, later |-> TRUE] ELSE events[n]]
    /\ \E again \in BOOLEAN : outgoing' = IF again THEN outgoing ELSE outgoing \ {e}
    /\ UNCHANGED <<clock, failures, deals, setup, rows, schedule, snapshot, pass, finished, asleep, shown>>
\* A 404 or a 502 that eBay does not repeat any more.
Undelivered(e) ==
    /\ e \in outgoing /\ failures < MaxFailures
    /\ failures' = failures + 1 /\ outgoing' = outgoing \ {e}
    /\ UNCHANGED <<clock, deals, setup, stored, pass, finished, asleep, shown>>

----------------------------------------------------------------------------
(* The list of current offers.                                             *)
Ids == IF snapshot = None THEN {} ELSE snapshot
Closed(r) == r.status \in OVER
\* latest_offer_ids(): a later step that is published or over hides an earlier one.
Supersedes(k, o) ==
    /\ OfferFacts[k].listing = OfferFacts[o].listing /\ OfferFacts[k].buyer = OfferFacts[o].buyer
    /\ OfferFacts[k].turn > OfferFacts[o].turn
Current(ids, known) ==
    {o \in ids : ~Closed(known[o]) /\ ~\E k \in DOMAIN known : Supersedes(k, o) /\ (k \in ids \/ Closed(known[k]))}

----------------------------------------------------------------------------
(* A pass.                                                                 *)
\* _upsert(): what is over is not reopened.
Noted(known, answer) ==
    [o \in DOMAIN known \cup DOMAIN answer |->
        CASE o \notin DOMAIN answer -> known[o]
          [] o \notin DOMAIN known -> [status |-> answer[o], required |-> FALSE]
          [] Closed(known[o]) /\ answer[o] \notin OVER -> known[o]
          [] OTHER -> [known[o] EXCEPT !.status = answer[o]]]

PassBegins(history) ==
    /\ pass.stage = "idle" /\ subscribing.step = "idle"
    /\ pass' = [stage |-> "scan", began |-> clock, history |-> history, previous |-> Ids, seen |-> {},
                published |-> FALSE, todo |-> {}, done |-> {}, crowded |-> FALSE, result |-> None]
    /\ UNCHANGED <<clock, failures, ebaySide, setup, stored, finished, asleep, shown>>

\* The account-wide scan names the Active offers, those that were a moment ago, and may omit
\* the ones that wait for the buyer.
Named == {o \in Offer : \/ deals[o].status = "Active"
                        \/ deals[o].status \notin {None, "Active"} /\ deals[o].since + Lag > clock}
\* A page of the scan, committed as it is.
Page(offers) ==
    /\ pass.stage = "scan" /\ offers # {} /\ offers \subseteq Named \ pass.seen
    /\ rows' = Noted(rows, [o \in offers |-> "Active"])
    /\ pass' = [pass EXCEPT !.seen = @ \cup offers]
    /\ UNCHANGED <<clock, failures, ebaySide, setup, events, schedule, snapshot, finished, asleep, shown>>

\* Events first, then the listings of offers that were current or are agreed, then the history.
Ready(state) == IF state.next = None THEN TRUE ELSE state.next <= clock
Due(l) == Ready(schedule[l])
Eligible == {e \in DOMAIN events : LET l == OfferFacts[e[1]].listing IN
                /\ events[e].status = "PENDING"
                /\ Due(l) \/ (~schedule[l].error /\ events[e].later)}
Earliest(es) == {e \in es : Cardinality({f \in es : events[f].at < events[e].at}) < EventLimit}
Candidates(known, previous, history) ==
    LET taken == CHOOSE es \in SUBSET Earliest(Eligible) : Cardinality(es) = Min({EventLimit, Cardinality(Eligible)})
        recent == {OfferFacts[o].listing : o \in {k \in DOMAIN known :
                      \/ k \in previous /\ (known[k].required \/ known[k].status \in OPEN \cup AGREED)
                      \/ known[k].required \/ known[k].status \in AGREED}}
        past == {OfferFacts[o].listing : o \in {k \in DOMAIN known : history /\ Closed(known[k]) /\ Due(OfferFacts[k].listing)}} IN
    [events |-> taken, listings |-> {OfferFacts[e[1]].listing : e \in taken} \cup recent \cup past]

\* The offers that stay though the scan does not name them.
M_Waiting == {}         \* mutant: the scan is the whole list
Waiting == {o \in pass.previous \cap DOMAIN rows : rows[o].status \in OPEN \cup AGREED}
Missing(known) ==
    [o \in DOMAIN known |->
        IF o \in pass.previous \ pass.seen /\ known[o].status \in OPEN THEN [known[o] EXCEPT !.required = TRUE] ELSE known[o]]

\* The scan is complete: publish, mark what it missed, choose the listings.
Published ==
    LET known == Missing(rows)
        ids == pass.seen \cup Waiting
        candidates == Candidates(known, pass.previous, pass.history) IN
    /\ pass.stage = "scan"
    /\ {o \in Offer : deals[o].status = "Active" /\ deals[o].since < pass.began} \subseteq pass.seen
    /\ snapshot' = ids /\ rows' = known
    /\ pass' = [pass EXCEPT !.stage = "listings", !.published = TRUE, !.todo = candidates.listings,
                            !.done = candidates.events, !.crowded = candidates.events # Eligible]
    /\ asleep' = asleep \cup {o \in pass.seen : ~Due(OfferFacts[o].listing) /\ schedule[OfferFacts[o].listing].next > clock + 3}
    /\ shown' = shown \cup Current(ids, known)
    /\ UNCHANGED <<clock, failures, ebaySide, setup, events, schedule, finished>>

\* The next listing: woken by an event, or by an Active offer when it sleeps for long.
Next1 == Min(pass.todo)
Discovered(l) == l \in {OfferFacts[o].listing : o \in pass.seen}
EventsOf(l) == {e \in pass.done : OfferFacts[e[1]].listing = l}
Woken(l) ==
    IF ~schedule[l].error /\ \/ EventsOf(l) # {}
                             \/ Discovered(l) /\ ~Due(l) /\ schedule[l].next > clock + 3
    THEN [schedule[l] EXCEPT !.next = clock] ELSE schedule[l]
NotDue ==
    /\ pass.stage = "listings" /\ pass.todo # {}
    /\ ~Ready(Woken(Next1))
    /\ pass' = [pass EXCEPT !.todo = @ \ {Next1}]
    /\ UNCHANGED <<clock, failures, ebaySide, setup, stored, finished, asleep, shown>>
CanCheck == pass.stage = "listings" /\ pass.todo # {} /\ Ready(Woken(Next1))

\* reconciliation_delay()
Delay(statuses, unresolved, returned) ==
    CASE unresolved \/ statuses \cap OPEN # {} -> 1
      [] statuses \cap AGREED # {} -> 3
      [] returned -> Week
      [] OTHER -> HalfDay

\* reconcile_listing(): all the offers of the listing, and its next check.  A role the answer
\* omits is the row's, or the event's; else the offer is skipped.
ListingChecked ==
    LET l == Next1
        made == {o \in On(l) : deals[o].status # None}
        skipped == {o \in made : OfferFacts[o].omits /\ o \notin DOMAIN rows /\ EventsOf(l) = {}}
        read == Noted(rows, [o \in made \ skipped |-> deals[o].status])
        known == [o \in DOMAIN read |-> IF o \in made \ skipped \/ (o \in On(l) /\ made = {})
                                        THEN [read[o] EXCEPT !.required = FALSE] ELSE read[o]]
        of == DOMAIN known \cap On(l) IN
    /\ CanCheck
    /\ rows' = known
    /\ schedule' = [schedule EXCEPT ![l] =
          [next |-> clock + Delay({known[o].status : o \in of}, skipped # {} \/ \E o \in of : known[o].required, made # {}),
           attempts |-> 0, error |-> FALSE, checked |-> clock]]
    /\ events' = [e \in DOMAIN events |-> IF OfferFacts[e[1]].listing = l THEN [events[e] EXCEPT !.later = FALSE] ELSE events[e]]
    /\ pass' = [pass EXCEPT !.stage = "checked",
                            !.result = [current |-> {o \in made \ skipped : ~Closed(known[o])}, skipped |-> skipped, returned |-> made # {}]]
    /\ asleep' = asleep \ On(l)
    /\ UNCHANGED <<clock, failures, ebaySide, setup, snapshot, finished, shown>>
\* The listing's part of the snapshot is replaced, its events are served.
ListingPublished ==
    LET l == Next1
        clean == pass.published /\ pass.result.skipped = {}
        ids == IF clean THEN (Ids \ On(l)) \cup pass.result.current ELSE Ids IN
    /\ pass.stage = "checked"
    /\ snapshot' = ids
    /\ events' = [e \in DOMAIN events |-> IF clean /\ pass.result.returned /\ e \in EventsOf(l)
                                          THEN [events[e] EXCEPT !.status = "SUCCESS"] ELSE events[e]]
    /\ pass' = [pass EXCEPT !.stage = "listings", !.todo = @ \ {l}, !.result = None]
    /\ shown' = shown \cup Current(ids, rows)
    /\ UNCHANGED <<clock, failures, ebaySide, setup, rows, schedule, finished, asleep>>
\* eBay refuses or does not answer: back off; a listing that is gone rests for a week.
ListingFails(unavailable) ==
    LET l == Next1 attempts == schedule[l].attempts + 1 IN
    /\ CanCheck /\ failures < MaxFailures
    /\ failures' = failures + 1
    /\ schedule' = [schedule EXCEPT ![l] = [@ EXCEPT !.attempts = attempts, !.error = TRUE,
                       !.next = clock + IF unavailable THEN Week ELSE Min({288, 2 ^ Min({attempts, 8})})]]
    /\ pass' = [pass EXCEPT !.todo = @ \ {l}]
    /\ UNCHANGED <<clock, ebaySide, setup, events, rows, snapshot, finished, asleep, shown>>

PassEnds ==
    /\ pass.stage = "listings" /\ pass.todo = {}
    /\ finished' = [began |-> pass.began, published |-> pass.published, crowded |-> pass.crowded]
    /\ pass' = NoPass
    /\ UNCHANGED <<clock, failures, ebaySide, setup, stored, asleep, shown>>
\* should_stop(), a failed scan, or the end of the process, anywhere.
PassStops ==
    /\ pass.stage # "idle" /\ failures < MaxFailures
    /\ failures' = failures + 1
    /\ pass' = NoPass
    /\ UNCHANGED <<clock, ebaySide, setup, stored, finished, asleep, shown>>

ActivityNext ==
    \/ Tick
    \/ \E o \in Offer, status \in Statuses : Negotiate(o, status)
    \/ SetupBegins \/ DestinationCreated \/ SubscriptionCreated \/ SubscriptionStored \/ SetupFails
    \/ \E e \in outgoing : Receive(e) \/ Undelivered(e)
    \/ \E history \in Histories : PassBegins(history)
    \/ \E offers \in SUBSET Offer : Page(offers)
    \/ Published \/ NotDue \/ ListingChecked \/ ListingPublished
    \/ \E unavailable \in BOOLEAN : ListingFails(unavailable)
    \/ PassEnds \/ PassStops

----------------------------------------------------------------------------
ActivityTypeOK ==
    /\ clock \in 0..Horizon /\ failures \in 0..MaxFailures
    /\ DOMAIN rows \subseteq Offer /\ Ids \subseteq DOMAIN rows
    /\ \A e \in DOMAIN events : events[e].status \in {"PENDING", "SUCCESS"}
    /\ settings \subseteq {"endpoint", "destination", "subscription"}

\* The list of current offers keeps up with eBay.  An offer that ended a quarter of an hour
\* before a complete pass is not listed any more, unless its listing is in error or was asleep
\* when a scan first met the offer; an open offer that was listed once stays listed until a
\* later step of its negotiation replaces it; and a complete pass leaves no earlier event
\* unread it had room for, but those of listings in error.
ViewCaughtUp ==
    /\ \A o \in Current(Ids, rows) \ asleep :
         deals[o].status \in OVER =>
            deals[o].since + Lag + 3 > finished.began \/ schedule[OfferFacts[o].listing].error
    /\ \A o \in shown :
         \/ deals[o].status \notin OPEN
         \/ o \in Current(Ids, rows)
         \/ \E k \in DOMAIN rows : Supersedes(k, o)
    /\ LET waiting == {e \in DOMAIN events : events[e].status = "PENDING" /\ events[e].at < finished.began} IN
       ~finished.crowded =>
          \A e \in waiting : ~events[e].later \/ schedule[OfferFacts[e[1]].listing].error
=============================================================================
