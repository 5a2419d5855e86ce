----------------------------- MODULE SoldPosting -----------------------------
(***************************************************************************)
(* Sold orders copied from eBay.  A sync walks the pages of an account's   *)
(* orders, newest first, while eBay goes on selling; everything it stores  *)
(* is one transaction, but a token refresh on the way commits.  Agents     *)
(* edit the rows and mark them copied meanwhile.                           *)
(***************************************************************************)
EXTENDS Integers, Sequences, FiniteSets, FiniteSetsExt, SequencesExt

CONSTANTS
    Accounts,       \* the accounts by name
    Process,
    Payload,        \* the orders eBay may report, as its API describes them
    PageSize, MaxPages,
    MaxAttempts,
    MaxOrders, MaxChanges,  \* bounds: orders of an account, changes of them at eBay
    MaxMarks,       \* bound on the copy marks of a row
    NoValue         \* no value

SoldPostingAssumption ==
    /\ PageSize \in Nat \ {0} /\ MaxPages \in Nat /\ MaxAttempts \in Nat \ {0}
    /\ MaxOrders \in Nat /\ MaxChanges \in Nat /\ MaxMarks \in Nat
    /\ Accounts \in Seq(ToSet(Accounts)) /\ \A o \in Payload : o.created \in Int
    /\ NoValue \notin {"account", "page", "done"}

Account == ToSet(Accounts)

VARIABLES
    sold,           \* eBay: per account, its orders, oldest first
    stored,         \* SoldPostingOrder and its line, by account and number
    marks,          \* history: per row, the copies marked
    syncState,      \* SoldPostingSyncState by account
    syncing,        \* per process: the sync under way
    running,        \* per process: _sync_running
    behind          \* history: rows a finished sync should have brought and did not

soldVars == <<sold, stored, marks, syncState, syncing, running, behind>>

----------------------------------------------------------------------------
(* What a row says of an order.                                            *)
CancelStates == {"CANCELLED", "CANCEL_REQUESTED", "CANCEL_PENDING", "CANCEL_COMPLETE"}
Benign == {"REJECTED", "CLOSED"}
IsCancelled(o) ==
    \/ o.cancel \in CancelStates
    \/ \E request \in o.requests : request \cap Benign = {} /\ request # {}

HasDeliveredSignal(o) == o.delivered
HasFullRefund(o) == o.total > 0 /\ o.refund >= o.total

\* normalize_sold_posting_status(): the first that applies.
StatusOf(o) ==
    CASE IsCancelled(o) -> "CANCELLED"
      [] HasFullRefund(o) \/ o.refund > 0 -> "REFUNDED"
      [] HasDeliveredSignal(o) -> "DELIVERED"
      [] o.payment \in {"NOT_PAID", "PENDING", "FAILED"} -> "AWAITING_PAYMENT"
      [] o.payment = "PAID" /\ o.fulfillment = "NOT_STARTED" -> "AWAITING_SHIPMENT"
      [] o.payment = "PAID" /\ o.fulfillment = "IN_PROGRESS" -> "SHIPPED"
      [] o.fulfillment = "FULFILLED" -> "SHIPPED"
      [] OTHER -> "OTHER"

\* _payment_date(): the last successful payment.
PaymentDate(o) == LET paid == {p[1] : p \in {q \in o.payments : q[2]}} IN
                  IF paid = {} THEN NoValue ELSE Max(paid)
\* _fulfillment_values(): the first value an instruction has.
Carrier(o) == LET given == SelectSeq(o.carriers, LAMBDA c : c # NoValue) IN
              IF given = <<>> THEN NoValue ELSE Head(given)
\* _condition(), else resolve_condition() from the product contexts.
Condition(o) == IF o.condition # NoValue THEN o.condition ELSE o.product

MapOrder(o, version) ==
    [version |-> version, status |-> StatusOf(o), paid |-> PaymentDate(o),
     carrier |-> Carrier(o), condition |-> Condition(o), created |-> o.created]

\* The Indian day's bounds in half hours: UTC + 5:30.
DateStart(d) == 48 * d - 11
DateEnd(d) == DateStart(d + 1) - 1
ListedOn(row, d) == DateStart(d) <= row.created /\ row.created <= DateEnd(d)
DaysAround(row) == (row.created \div 48 - 2)..(row.created \div 48 + 2)

----------------------------------------------------------------------------
AtRest == [at |-> NoValue]
SoldInit ==
    /\ sold = [a \in Account |-> <<>>]
    /\ stored = <<>>
    /\ marks = [k \in Account \X (1..MaxOrders) |-> 0]
    /\ syncState = [a \in Account |-> "NEVER"]
    /\ syncing = [p \in Process |-> AtRest]
    /\ running = [p \in Process |-> FALSE]
    /\ behind = {}

(* eBay.                                                                   *)
Sell(a, o) ==
    /\ Len(sold[a]) < MaxOrders
    /\ sold' = [sold EXCEPT ![a] = Append(@, [payload |-> o, version |-> 0])]
    /\ UNCHANGED <<stored, marks, syncState, syncing, running, behind>>

Change(a, n, o) ==
    /\ n \in DOMAIN sold[a] /\ sold[a][n].payload # o
    /\ FoldSeq(LAMBDA x, t : x.version + t, 0, sold[a]) < MaxChanges
    /\ sold' = [sold EXCEPT ![a][n] = [payload |-> o, version |-> @.version + 1]]
    /\ UNCHANGED <<stored, marks, syncState, syncing, running, behind>>

----------------------------------------------------------------------------
(* The sync of every account, one after the other.                         *)
\* active_accounts(): active, with a token, by name.
FirstOf(todo) == Accounts[Min({i \in DOMAIN Accounts : Accounts[i] \in todo})]
SyncAllStarts(p, on) ==
    /\ ~running[p] /\ on # {} /\ syncing[p] = AtRest
    /\ running' = [running EXCEPT ![p] = TRUE]
    /\ syncing' = [syncing EXCEPT ![p] = [at |-> "account", todo |-> on]]
    /\ UNCHANGED <<sold, stored, marks, syncState, behind>>

Begin(p) ==
    LET s == syncing[p] a == FirstOf(s.todo) IN
    /\ s.at = "account" /\ s.todo # {}
    /\ syncState' = [syncState EXCEPT ![a] = "RUNNING"]
    /\ syncing' = [syncing EXCEPT ![p] =
                     [at |-> "page", todo |-> s.todo, offset |-> 0, pages |-> 0, attempt |-> 1,
                      refreshed |-> FALSE, held |-> <<>>, due |-> sold[a]]]
    /\ UNCHANGED <<sold, stored, marks, running, behind>>

\* The orders of a page: newest first, so a sale shifts them all.
Page(a, offset) ==
    SubSeq(Reverse([n \in DOMAIN sold[a] |-> n]), offset + 1, Min({offset + PageSize, Len(sold[a])}))
\* Rows a sync has written and not committed: whoever writes them waits.
Holds(p, k) == syncing[p].at \in {"page", "done"} /\ k \in DOMAIN syncing[p].held
Merge(rows, held) == [k \in DOMAIN rows \cup DOMAIN held |->
    IF k \notin DOMAIN held THEN rows[k]
    ELSE IF k \notin DOMAIN rows THEN held[k]
    ELSE [rows[k] EXCEPT !.order = held[k].order]]
\* upsert_order(): eBay's values replace the row's, edits included; its note and copies stay.
Upserted(a, page) == [k \in {<<a, n>> : n \in ToSet(page)} |->
    [order |-> MapOrder(sold[a][k[2]].payload, sold[a][k[2]].version), note |-> FALSE, copies |-> 0]]

LastPage(a, offset, page) == page = <<>> \/ offset + Len(page) >= Len(sold[a])
M_NextOffset(offset, page) == offset + PageSize + 1     \* mutant: one order skipped
NextOffset(offset, page) == offset + Len(page)

\* _fetch_page() got a page, and its orders are upserted.
PageRead(p) ==
    LET s == syncing[p] a == FirstOf(s.todo) page == Page(a, s.offset) IN
    /\ s.at = "page" /\ s.pages < MaxPages
    /\ \A q \in Process \ {p}, n \in ToSet(page) : ~Holds(q, <<a, n>>)
    /\ syncing' = [syncing EXCEPT ![p] =
         [s EXCEPT !.held = Merge(@, Upserted(a, page)), !.pages = @ + 1, !.attempt = 1,
                   !.refreshed = FALSE,
                   !.at = IF LastPage(a, s.offset, page) \/ s.pages + 1 = MaxPages THEN "done" ELSE "page",
                   !.offset = NextOffset(@, page)]]
    /\ UNCHANGED <<sold, stored, marks, syncState, running, behind>>

\* 401: the token is refreshed once, which commits what the session holds.
TokenExpired(p) ==
    LET s == syncing[p] IN
    /\ s.at = "page" /\ ~s.refreshed /\ s.attempt < MaxAttempts
    /\ stored' = Merge(stored, s.held)
    /\ syncing' = [syncing EXCEPT ![p] = [s EXCEPT !.refreshed = TRUE, !.attempt = @ + 1, !.held = <<>>]]
    /\ UNCHANGED <<sold, marks, syncState, running, behind>>

\* 429 or 5xx: waited out, but not the last time.
Busy(p) ==
    LET s == syncing[p] IN
    /\ s.at = "page" /\ s.attempt < MaxAttempts
    /\ syncing' = [syncing EXCEPT ![p].attempt = @ + 1]
    /\ UNCHANGED <<sold, stored, marks, syncState, running, behind>>

NextAccount(s) == [at |-> "account", todo |-> s.todo \ {FirstOf(s.todo)}]

\* Any error, of one order's upsert included: everything since the last commit is undone.
AccountSyncFails(p) ==
    LET s == syncing[p] IN
    /\ s.at = "page"
    /\ syncState' = [syncState EXCEPT ![FirstOf(s.todo)] = "FAILED"]
    /\ syncing' = [syncing EXCEPT ![p] = NextAccount(s)]
    /\ UNCHANGED <<sold, stored, marks, running, behind>>

AccountSyncSucceeds(p) ==
    LET s == syncing[p] a == FirstOf(s.todo) IN
    /\ s.at = "done"
    /\ stored' = Merge(stored, s.held)
    /\ syncState' = [syncState EXCEPT ![a] = "SUCCESS"]
    /\ behind' = behind \cup
         {<<a, n>> : n \in {m \in DOMAIN s.due :
              /\ s.pages < MaxPages
              /\ \/ <<a, m>> \notin DOMAIN stored'
                 \/ stored'[<<a, m>>].order.version < s.due[m].version}}
    /\ syncing' = [syncing EXCEPT ![p] = NextAccount(s)]
    /\ UNCHANGED <<sold, marks, running>>

SyncAllEnds(p) ==
    /\ syncing[p].at = "account" /\ syncing[p].todo = {}
    /\ running' = [running EXCEPT ![p] = FALSE]
    /\ syncing' = [syncing EXCEPT ![p] = AtRest]
    /\ UNCHANGED <<sold, stored, marks, syncState, behind>>

----------------------------------------------------------------------------
(* The agents.                                                             *)
UpdateLine(k, status, note) ==
    /\ k \in DOMAIN stored /\ \A p \in Process : ~Holds(p, k)
    /\ stored' = [stored EXCEPT ![k].order.status = status, ![k].note = note]
    /\ stored' # stored
    /\ UNCHANGED <<sold, marks, syncState, syncing, running, behind>>

MarkCopied(k) ==
    /\ k \in DOMAIN stored /\ \A p \in Process : ~Holds(p, k)
    /\ marks[k] < MaxMarks
    /\ stored' = [stored EXCEPT ![k].copies = @ + 1]
    /\ marks' = [marks EXCEPT ![k] = @ + 1]
    /\ UNCHANGED <<sold, syncState, syncing, running, behind>>

SoldNext ==
    \/ \E a \in Account, o \in Payload :
         Sell(a, o) \/ \E n \in 1..MaxOrders : Change(a, n, o)
    \/ \E p \in Process :
         \/ \E on \in SUBSET Account : SyncAllStarts(p, on)
         \/ Begin(p) \/ PageRead(p) \/ TokenExpired(p) \/ Busy(p)
         \/ AccountSyncFails(p) \/ AccountSyncSucceeds(p) \/ SyncAllEnds(p)
    \/ \E k \in Account \X (1..MaxOrders) :
         MarkCopied(k) \/ \E b \in BOOLEAN : UpdateLine(k, "SHIPPED", b)

SoldSpec == SoldInit /\ [][SoldNext]_soldVars

----------------------------------------------------------------------------
SoldTypeOK ==
    /\ \A k \in DOMAIN stored : k[1] \in Account /\ stored[k].order.version \in 0..MaxChanges
    /\ syncState \in [Account -> {"NEVER", "RUNNING", "FAILED", "SUCCESS"}]

\* A sync that reports success has brought every order eBay had when it began, at least as
\* new, although pages shift under it; it never costs a row its copies; and a sold
\* order is listed on exactly one Indian day.
SalesCaughtUp ==
    /\ behind = {}
    /\ \A k \in DOMAIN stored :
         /\ stored[k].copies = marks[k]
         /\ \E d \in DaysAround(stored[k].order) :
              {e \in DaysAround(stored[k].order) : ListedOn(stored[k].order, e)} = {d}
=============================================================================
