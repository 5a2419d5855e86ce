---------------------------- MODULE ProductContexts ----------------------------
(***************************************************************************)
(* What a conversation shows of its listing, taken from an order line in   *)
(* the database or from eBay's Browse API.  A sync enriches every          *)
(* conversation it imports, with a cache of its own; a request that shows  *)
(* a conversation enriches it when nothing is there yet.                   *)
(***************************************************************************)
EXTENDS Integers, FiniteSets, FiniteSetsExt

CONSTANTS
    Conversation, ItemRef,
    Service,            \* who enriches: syncs, and requests that show a conversation
    Viewer,             \* the latter
    MaxRetries,         \* ebay_browse_max_retries
    MaxSyncs,           \* bound on the order syncs
    None

Terminal == {"UNAVAILABLE", "ENRICHED", "LOCAL_ORDER"}
ContextSet ==
    [ref : ItemRef, status : Terminal \cup {"PENDING", "FAILED"},
     title : ItemRef \cup {None}, order : ItemRef \cup {None}, at : Nat \cup {None}]

ProductContextAssumption ==
    /\ Viewer \subseteq Service /\ MaxRetries \in Nat \ {0} /\ MaxSyncs \in Nat
    /\ None \notin Conversation \cup ItemRef \cup ContextSet

VARIABLES
    reference,      \* Conversation.reference_id, None when it is about no listing
    context,        \* ConversationProductContext by conversation
    memory,         \* per service: _reference_cache, a conversation's context by listing
    calling,        \* per service: the Browse call under way
    lines,          \* listings of which the database has an order line, and whether with a title
    ordersAt,       \* EbayAccount.last_order_sync_at, counted in order syncs
    gone,           \* history: listings eBay has said, to a sync, are gone
    told,           \* history: listings it has said, to anyone, are gone
    again,          \* history: listings of gone a sync asked for again
    moved           \* history: conversations that changed listing or lost a row, and those listings

productVars == <<reference, context, memory, calling, lines, ordersAt, gone, told, again, moved>>

NewContext(listing) == [ref |-> listing, status |-> "PENDING", title |-> None, order |-> None, at |-> None]
NoCall == [of |-> None]
Forgotten == [l \in ItemRef |-> None]

ProductInit ==
    /\ reference = [c \in Conversation |-> None]
    /\ context = [c \in Conversation |-> None]
    /\ memory = [s \in Service |-> Forgotten]
    /\ calling = [s \in Service |-> NoCall]
    /\ lines = [l \in ItemRef |-> None]
    /\ ordersAt = 0
    /\ gone = {} /\ told = {} /\ again = {} /\ moved = {}

----------------------------------------------------------------------------
\* A message import or an attached order sets the listing a conversation is about.
SetReference(c, l) ==
    /\ reference[c] # l
    /\ reference' = [reference EXCEPT ![c] = l]
    /\ moved' = IF reference[c] = None THEN moved ELSE moved \cup {c, reference[c]}
    /\ UNCHANGED <<context, memory, calling, lines, ordersAt, gone, told, again>>

\* An order sync: lines of more listings, and contexts may look again.
OrdersSynced(l, kind) ==
    /\ ordersAt < MaxSyncs
    /\ ordersAt' = ordersAt + 1
    /\ lines' = [lines EXCEPT ![l] = kind]
    /\ UNCHANGED <<reference, context, memory, calling, gone, told, again, moved>>

\* A new sync begins with an empty cache.
SyncStarts(s) ==
    /\ calling[s] = NoCall /\ memory[s] # Forgotten
    /\ memory' = [memory EXCEPT ![s] = Forgotten]
    /\ UNCHANGED <<reference, context, calling, lines, ordersAt, gone, told, again, moved>>

----------------------------------------------------------------------------
\* _orders_changed_since()
OrdersChanged(x) == IF x.at = None THEN TRUE ELSE x.at < ordersAt
\* The context as enrich_conversation() finds it: a new one, or turned to another listing.
Current(c) ==
    IF context[c] = None THEN NewContext(reference[c]) ELSE [context[c] EXCEPT !.ref = reference[c]]
SameReference(c) == context[c] # None /\ context[c].ref = reference[c]

\* A context with an order is settled; an enriched one is upgraded once orders have changed.
Settled(c) ==
    /\ SameReference(c)
    /\ \/ context[c].status = "LOCAL_ORDER"
       \/ context[c].status = "ENRICHED" /\ ~(context[c].order = None /\ OrdersChanged(context[c]))

MayLookLocally(x) == x.status # "UNAVAILABLE" \/ OrdersChanged(x)
\* _enrich_from_local_order(): what the line lacks is kept.
FromLine(x) ==
    [x EXCEPT !.status = "LOCAL_ORDER", !.order = x.ref, !.at = ordersAt,
              !.title = IF lines[x.ref] = "titled" THEN x.ref ELSE @]
HasLine(x) == lines[x.ref] # None

\* _find_cached_context(): an enriched context of the account for the same listing, the latest.
Others(c, l) == {d \in Conversation \ {c} : context[d] # None /\ context[d].ref = l /\ context[d].status \in Terminal}
M_Cached(s, c, l) == IF memory[s][l] \in {None, c} THEN None ELSE memory[s][l]     \* mutant: this sync's only
Cached(s, c, l) ==
    IF memory[s][l] = c THEN None
    ELSE IF memory[s][l] # None THEN memory[s][l]
    ELSE LET latest == {d \in Others(c, l) : \A e \in Others(c, l) : context[e].at <= context[d].at} IN
         IF latest = {} THEN None ELSE CHOOSE d \in latest : TRUE
\* _copy_cached_context()
Copied(x, from) ==
    [x EXCEPT !.title = from.title, !.order = from.order, !.status = from.status, !.at = ordersAt]

Store(c, x) == context' = [context EXCEPT ![c] = x]
Remember(s, l, c) == memory' = IF s \in Viewer THEN memory ELSE [memory EXCEPT ![s][l] = c]
\* context_for_conversation(): a request to see a conversation enriches what has no context.
Wanted(s, c) ==
    /\ calling[s] = NoCall /\ reference[c] # None
    /\ s \in Viewer => context[c] = None
    /\ ~Settled(c)

\* enrich_conversation(), up to the call.
EnrichLocally(s, c) ==
    LET x == Current(c) IN
    /\ Wanted(s, c) /\ MayLookLocally(x) /\ HasLine(x)
    /\ Store(c, FromLine(x))
    /\ Remember(s, x.ref, c)
    /\ UNCHANGED <<reference, calling, lines, ordersAt, gone, told, again, moved>>

StillUnavailable(c) ==
    SameReference(c) /\ context[c].status \in {"UNAVAILABLE", "ENRICHED"}

EnrichFromCache(s, c) ==
    LET x == Current(c) d == Cached(s, c, x.ref) IN
    /\ Wanted(s, c) /\ ~(MayLookLocally(x) /\ HasLine(x)) /\ ~StillUnavailable(c)
    /\ d # None
    /\ Store(c, Copied(x, context[d]))
    /\ UNCHANGED <<reference, memory, calling, lines, ordersAt, gone, told, again, moved>>

\* The Browse call: the row is written when it has answered.
AskBrowse(s, c) ==
    LET x == Current(c) IN
    /\ Wanted(s, c) /\ ~(MayLookLocally(x) /\ HasLine(x)) /\ ~StillUnavailable(c)
    /\ Cached(s, c, x.ref) = None
    /\ calling' = [calling EXCEPT ![s] = [of |-> c, row |-> x, new |-> context[c] = None,
                                             attempt |-> 1, refreshed |-> FALSE]]
    /\ again' = IF x.ref \in gone /\ s \notin Viewer THEN again \cup {x.ref} ELSE again
    /\ UNCHANGED <<reference, context, memory, lines, ordersAt, gone, told, moved>>

\* _get_item_by_legacy_id(): a transient error is retried, 401 once with a new app token.
RetryBrowse(s, unauthorized) ==
    LET k == calling[s] IN
    /\ k.of # None
    /\ k.attempt < MaxRetries
    /\ unauthorized => ~k.refreshed
    /\ calling' = [calling EXCEPT ![s].attempt = @ + 1, ![s].refreshed = @ \/ unauthorized]
    /\ UNCHANGED <<reference, context, memory, lines, ordersAt, gone, told, again, moved>>

\* An error keeps what the row says of the listing before.
Answered(x, answer) ==
    CASE answer = "item" -> [x EXCEPT !.status = "ENRICHED", !.title = x.ref, !.at = ordersAt]
      [] answer = "gone" -> [x EXCEPT !.status = "UNAVAILABLE", !.at = ordersAt]
      [] OTHER -> [x EXCEPT !.status = "FAILED", !.at = ordersAt]

BrowseAnswers(s, answer) ==
    LET k == calling[s] IN
    /\ k.of # None /\ (k.new => context[k.of] = None)
    /\ k.row.ref \in told => answer # "item"
    /\ Store(k.of, Answered(k.row, answer))
    /\ Remember(s, k.row.ref, k.of)
    /\ told' = IF answer = "gone" THEN told \cup {k.row.ref} ELSE told
    /\ gone' = IF answer = "gone" /\ s \notin Viewer THEN gone \cup {k.row.ref} ELSE gone
    /\ calling' = [calling EXCEPT ![s] = NoCall]
    /\ UNCHANGED <<reference, lines, ordersAt, again, moved>>

\* Another request inserted the row meanwhile: the unique conversation fails this one.
InsertFails(s) ==
    LET k == calling[s] IN
    /\ k.of # None /\ k.new /\ context[k.of] # None
    /\ moved' = moved \cup {k.of, k.row.ref}
    /\ calling' = [calling EXCEPT ![s] = NoCall]
    /\ UNCHANGED <<reference, context, memory, lines, ordersAt, gone, told, again>>

ProductNext ==
    \/ \E c \in Conversation, l \in ItemRef : SetReference(c, l)
    \/ \E l \in ItemRef, kind \in {"titled", "bare"} : OrdersSynced(l, kind)
    \/ \E s \in Service :
         \/ SyncStarts(s) \/ InsertFails(s)
         \/ \E c \in Conversation : EnrichLocally(s, c) \/ EnrichFromCache(s, c) \/ AskBrowse(s, c)
         \/ \E u \in BOOLEAN : RetryBrowse(s, u)
         \/ \E answer \in {"item", "gone", "error"} : BrowseAnswers(s, answer)

ProductSpec == ProductInit /\ [][ProductNext]_productVars

----------------------------------------------------------------------------
Contexts == {context[c] : c \in Conversation} \ {None}
ProductTypeOK ==
    /\ reference \in [Conversation -> ItemRef \cup {None}]
    /\ Contexts \subseteq ContextSet

\* As long as conversations keep their listings and no row is lost to another request: a
\* context shows the title and the order line of its own listing only, an enriched one has a
\* title, and no sync asks again for a listing eBay told a sync is gone, whatever conversation
\* or sync asked first.
ContextsFit ==
    moved = {} =>
        /\ again = {}
        /\ \A x \in Contexts :
             /\ x.title \in {None, x.ref} /\ x.order \in {None, x.ref}
             /\ x.status = "ENRICHED" => x.title # None
             /\ x.status = "LOCAL_ORDER" => x.order # None
=============================================================================
