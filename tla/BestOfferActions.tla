-------------------------- MODULE BestOfferActions --------------------------
(***************************************************************************)
(* Answering an eBay Best Offer (accept, decline, counter) exactly once.   *)
(*                                                                         *)
(* One offer of one account.  Each idempotency key is one decision of a    *)
(* user; each attempt is one HTTP request that carries a key (a browser or *)
(* network retry carries the same key).  The ledger row of a key is        *)
(* written before the provider is called ("durable intent"), so that a     *)
(* crash leaves evidence: recover_actions and the account sync settle what *)
(* an interrupted attempt left.  The advisory lock of the account is held  *)
(* by an attempt or a sync for its whole run, and tried by recovery.       *)
(*                                                                         *)
(* Provider statuses are folded to four: "Active" (Active, Pending),       *)
(* "Countered", "Agreed" (SellerAccept, PendingBuyerConfirmation and       *)
(* PendingBuyerPayment) and "Closed" (Declined ... and Accepted).          *)
(***************************************************************************)
EXTENDS Naturals, FiniteSets

CONSTANTS
    Key,            \* idempotency keys: the users' decisions on this offer
    Attempt,        \* HTTP requests
    KeyOf,          \* the key each request carries
    NoKey,
    MaxVersion,     \* bound: sync stops recording changes at this version
    PromptDispatch  \* TRUE: PREPARED never outlasts recovery's two minutes
                    \* while its request is alive (token refresh times out at 30s)

ASSUME KeyAssumption == KeyOf \in [Attempt -> Key] /\ NoKey \notin Key
ASSUME LockAssumption == {"free", "sync", "recovery"} \cap Attempt = {}
ASSUME VersionAssumption == MaxVersion \in Nat \ {0}
ASSUME PromptAssumption == PromptDispatch \in BOOLEAN

VARIABLES
    action,     \* ledger state of each key, "NONE" when there is no row
    last,       \* the key of the newest row
    version,    \* offer.version
    needs,      \* offer.reconciliation_required
    status,     \* offer.provider_status, as last stored
    done,       \* offer.done_at is set
    current,    \* the offer is in the published snapshot
    lock,       \* holder of the account's advisory lock
    pc,         \* where each request stands
    expected,   \* payload.expected_version of each key, 0 before it is composed
    recovery,   \* recover_actions: "idle", "read" or "locked"
    staleKey,   \* the action row it read ...
    staleState, \* ... and the state that row had when it was read
    sync,       \* the account sync: "idle", "scan", "listing", "observed", "settled"
    seen,       \* this sync's scan (later: its listing query) returned the offer
    published,  \* this sync's scan was complete and replaced the snapshot
    outcome,    \* what became of each key's request at eBay
    provider    \* every status the offer has had at eBay

ledgerVars == <<action, last>>
offerVars == <<version, needs, status, done, current>>
requestVars == <<pc, expected>>
recoveryVars == <<recovery, staleKey, staleState>>
syncVars == <<sync, seen, published>>
ebayVars == <<outcome, provider>>
vars == <<ledgerVars, offerVars, lock, requestVars, recoveryVars, syncVars, ebayVars>>

ActionState == {"NONE", "PREPARED", "DISPATCHING", "SUCCEEDED", "FAILED",
                "RECONCILIATION_REQUIRED", "RECONCILED"}
\* The states of the unique partial index uq_best_offer_unresolved_action.
Unresolved == {"PREPARED", "DISPATCHING", "RECONCILIATION_REQUIRED"}
Status == {"Active", "Countered", "Agreed", "Closed"}
Open == {"Active", "Countered"}  \* OPEN_STATUSES
Place == {"new", "looked", "locked", "prepared", "dispatching", "sent",
          "answered", "replayed", "busy", "conflict", "failed", "dead"}
\* A request holds the account lock between account_operation_lock and its exit.
Holding == {"locked", "prepared", "dispatching", "sent"}

TypeOK ==
    /\ action \in [Key -> ActionState]
    /\ last \in Key \cup {NoKey}
    /\ version \in Nat \ {0}
    /\ needs \in BOOLEAN
    /\ status \in Status
    /\ done \in BOOLEAN
    /\ current \in BOOLEAN
    /\ lock \in Attempt \cup {"free", "sync", "recovery"}
    /\ pc \in [Attempt -> Place]
    /\ expected \in [Key -> Nat]
    /\ recovery \in {"idle", "read", "locked"}
    /\ staleKey \in Key \cup {NoKey}
    /\ staleState \in {"NONE", "PREPARED", "DISPATCHING"}
    /\ sync \in {"idle", "scan", "listing", "observed", "settled"}
    /\ seen \in BOOLEAN
    /\ published \in BOOLEAN
    /\ outcome \in [Key -> {"unsent", "inflight", "applied", "rejected"}]
    /\ provider \in SUBSET Status

\* An offer as one sync leaves it: open, published, never answered.
Init ==
    /\ action = [k \in Key |-> "NONE"]
    /\ last = NoKey
    /\ version = 1
    /\ needs = FALSE
    /\ status = "Active"
    /\ done = FALSE
    /\ current = TRUE
    /\ lock = "free"
    /\ pc = [a \in Attempt |-> "new"]
    /\ expected = [k \in Key |-> 0]
    /\ recovery = "idle"
    /\ staleKey = NoKey
    /\ staleState = "NONE"
    /\ sync = "idle"
    /\ seen = FALSE
    /\ published = FALSE
    /\ outcome = [k \in Key |-> "unsent"]
    /\ provider = {"Active"}

-----------------------------------------------------------------------------
(* The user and eBay. *)

\* A user decides on the offer as the page shows it: the payload carries
\* the version of that row, and every retry carries the same payload.
Compose(k) ==
    /\ expected[k] = 0
    /\ expected' = [expected EXCEPT ![k] = version]
    /\ UNCHANGED <<ledgerVars, offerVars, lock, pc, recoveryVars, syncVars, ebayVars>>

\* mark_done: no lock, no version bump.
MarkDone ==
    /\ ~done
    /\ done' = TRUE
    /\ UNCHANGED <<ledgerVars, version, needs, status, current, lock, requestVars,
                   recoveryVars, syncVars, ebayVars>>

\* eBay processes a request, perhaps long after urlopen has timed out.  It
\* refuses to answer an offer that is no longer open.
ProviderDecides(k) ==
    /\ outcome[k] = "inflight"
    /\ \/ /\ provider = {"Active"}
          /\ \E s \in {"Countered", "Agreed", "Closed"} : provider' = provider \cup {s}
          /\ outcome' = [outcome EXCEPT ![k] = "applied"]
       \/ /\ outcome' = [outcome EXCEPT ![k] = "rejected"]
          /\ UNCHANGED provider
    /\ UNCHANGED <<ledgerVars, offerVars, lock, requestVars, recoveryVars, syncVars>>

\* The buyer retracts or pays, the offer expires, or a counter is taken up.
BuyerEnds ==
    /\ \/ provider' = provider \cup {"Closed"}
       \/ "Countered" \in provider /\ provider' = provider \cup {"Agreed"}
    /\ provider' # provider
    /\ UNCHANGED <<ledgerVars, offerVars, lock, requestVars, recoveryVars, syncVars, outcome>>

-----------------------------------------------------------------------------
(* EbayBestOfferActionService.respond *)

\* The first look for the key, before any lock.
Lookup(a) ==
    /\ pc[a] = "new"
    /\ expected[KeyOf[a]] # 0
    /\ pc' = [pc EXCEPT ![a] = IF action[KeyOf[a]] = "NONE" THEN "looked" ELSE "replayed"]
    /\ UNCHANGED <<ledgerVars, offerVars, lock, expected, recoveryVars, syncVars, ebayVars>>

\* account_operation_lock: pg_try_advisory_lock, 409 when it is taken.
Acquire(a) ==
    /\ pc[a] = "looked"
    /\ IF lock = "free"
       THEN lock' = a /\ pc' = [pc EXCEPT ![a] = "locked"]
       ELSE UNCHANGED lock /\ pc' = [pc EXCEPT ![a] = "busy"]
    /\ UNCHANGED <<ledgerVars, offerVars, expected, recoveryVars, syncVars, ebayVars>>

\* The offer can be answered: open, not flagged, and its newest action did not
\* reach eBay or has been reconciled.
actionable == /\ status = "Active"
              /\ ~needs
              /\ last # NoKey => action[last] \in {"FAILED", "RECONCILED"}

\* mutant: the ledger is not consulted under the lock
M_StaleLookup(a) == FALSE

\* The second look for the key, under the lock.
Replayed(a) == action[KeyOf[a]] # "NONE"
\* Every check between the row lock and the insert.
Acceptable(k) == actionable /\ ~done /\ current /\ version = expected[k]

\* The unique index on unresolved rows refuses a second one.
IndexAllows(k) == \A j \in Key \ {k} : action[j] \notin Unresolved

\* Under the lock: replay the stored answer, write the intent, or refuse: the
\* offer is not acceptable, or the account is disconnected, or a counter
\* exceeds the quantity or the price.
Decide(a) ==
    LET k == KeyOf[a] IN
    /\ pc[a] = "locked"
    /\ \/ /\ Replayed(a)
          /\ pc' = [pc EXCEPT ![a] = "replayed"]
          /\ lock' = "free"
          /\ UNCHANGED ledgerVars
       \/ /\ ~Replayed(a) /\ Acceptable(k) /\ IndexAllows(k)
          /\ action' = [action EXCEPT ![k] = "PREPARED"]
          /\ last' = k
          /\ pc' = [pc EXCEPT ![a] = "prepared"]
          /\ UNCHANGED lock
       \/ /\ ~Replayed(a)
          /\ pc' = [pc EXCEPT ![a] = "conflict"]
          /\ lock' = "free"
          /\ UNCHANGED ledgerVars
    /\ UNCHANGED <<offerVars, expected, recoveryVars, syncVars, ebayVars>>

\* Token and quota are in hand: commit DISPATCHING before calling eBay ...
Dispatch(a) ==
    /\ pc[a] = "prepared"
    /\ action' = [action EXCEPT ![KeyOf[a]] = "DISPATCHING"]
    /\ needs' = TRUE
    /\ version' = version + 1
    /\ pc' = [pc EXCEPT ![a] = "dispatching"]
    /\ UNCHANGED <<last, status, done, current, lock, expected, recoveryVars, syncVars, ebayVars>>

\* ... or token refresh or the quota reservation raised.
DispatchFails(a) ==
    /\ pc[a] = "prepared"
    /\ action' = [action EXCEPT ![KeyOf[a]] = "FAILED"]
    /\ pc' = [pc EXCEPT ![a] = "failed"]
    /\ lock' = "free"
    /\ UNCHANGED <<last, offerVars, expected, recoveryVars, syncVars, ebayVars>>

\* respond_to_best_offer_raw puts the request on the wire.
Send(a) ==
    /\ pc[a] = "dispatching"
    /\ outcome' = [outcome EXCEPT ![KeyOf[a]] = "inflight"]
    /\ pc' = [pc EXCEPT ![a] = "sent"]
    /\ UNCHANGED <<ledgerVars, offerVars, lock, expected, recoveryVars, syncVars, provider>>

\* mutant: every reply that is not a confirmation is taken for a refusal
M_Verdicts(k) == CASE outcome[k] = "applied" -> {"SUCCEEDED", "FAILED"}
                   [] outcome[k] = "rejected" -> {"FAILED"}
                   [] OTHER -> {"FAILED"}

\* What the reply lets the code conclude.  A timeout, an unreadable body or
\* an exception while recording is ambiguous whatever eBay did.
Verdicts(k) == CASE outcome[k] = "applied" -> {"SUCCEEDED", "RECONCILIATION_REQUIRED"}
                 [] outcome[k] = "rejected" -> {"FAILED", "RECONCILIATION_REQUIRED"}
                 [] OTHER -> {"RECONCILIATION_REQUIRED"}

\* The outcome is recorded; only a definite refusal frees the offer.
RecordOutcome(a) ==
    LET k == KeyOf[a] IN
    /\ pc[a] = "sent"
    /\ \E v \in Verdicts(k) :
         /\ action' = [action EXCEPT ![k] = v]
         /\ needs' = (needs /\ v # "FAILED")
    /\ pc' = [pc EXCEPT ![a] = "answered"]
    /\ lock' = "free"
    /\ UNCHANGED <<last, version, status, done, current, expected, recoveryVars,
                   syncVars, ebayVars>>

\* The API process dies, or the database stays away so that even the except
\* block cannot record anything: the session's advisory lock is released.
AttemptDies(a) ==
    /\ pc[a] \in Holding
    /\ pc' = [pc EXCEPT ![a] = "dead"]
    /\ lock' = "free"
    /\ UNCHANGED <<ledgerVars, offerVars, expected, recoveryVars, syncVars, ebayVars>>

-----------------------------------------------------------------------------
(* EbayBestOfferJobService.recover_actions, run inside a reservation (one  *)
(* at a time, under the reservation lock).  The index leaves at most one   *)
(* PREPARED or DISPATCHING row of this offer to find.                      *)

LiveIn(k, places) == \E a \in Attempt : KeyOf[a] = k /\ pc[a] \in places

\* The list of rows older than two minutes is read before any lock is tried.
RecoverRead(k) ==
    /\ recovery = "idle"
    /\ action[k] \in {"PREPARED", "DISPATCHING"}
    /\ PromptDispatch => ~LiveIn(k, {"prepared"})
    /\ recovery' = "read"
    /\ staleKey' = k
    /\ staleState' = action[k]
    /\ UNCHANGED <<ledgerVars, offerVars, lock, requestVars, syncVars, ebayVars>>

\* pg_try_advisory_xact_lock: a live account is skipped.
RecoverTry ==
    /\ recovery = "read"
    /\ IF lock = "free"
       THEN /\ lock' = "recovery"
            /\ recovery' = "locked"
            /\ UNCHANGED <<staleKey, staleState>>
       ELSE /\ recovery' = "idle"
            /\ staleKey' = NoKey /\ staleState' = "NONE"
            /\ UNCHANGED lock
    /\ UNCHANGED <<ledgerVars, offerVars, requestVars, syncVars, ebayVars>>

\* mutant: an interrupted dispatch is taken for one that was never sent
M_RecoveredState(s) == "FAILED"

\* mutant: a state the ledger does not have
M_InterruptedState(s) == "INTERRUPTED"

\* The verdict follows the state that was read, not the state the row has now.
RecoveredState(s) == IF s = "PREPARED" THEN "FAILED" ELSE "RECONCILIATION_REQUIRED"

\* The reservation commits, or its later checks raise and it is rolled back;
\* either way the transaction's advisory lock goes.
RecoverCommit ==
    LET v == RecoveredState(staleState) IN
    /\ recovery = "locked"
    /\ \/ /\ v \in Unresolved => IndexAllows(staleKey)
          /\ action' = [action EXCEPT ![staleKey] = v]
          /\ needs' = (needs \/ v = "RECONCILIATION_REQUIRED")
       \/ UNCHANGED <<action, needs>>
    /\ recovery' = "idle"
    /\ staleKey' = NoKey /\ staleState' = "NONE"
    /\ lock' = "free"
    /\ UNCHANGED <<last, version, status, done, current, requestVars, syncVars, ebayVars>>

-----------------------------------------------------------------------------
(* EbayBestOfferSyncService.sync_current and reconcile_listing *)

\* mutant: the sync does not take the account lock
M_SyncBegin ==
    /\ sync = "idle"
    /\ sync' = "scan"
    /\ UNCHANGED <<ledgerVars, offerVars, lock, requestVars, recoveryVars, seen, published, ebayVars>>

SyncBegin ==
    /\ sync = "idle"
    /\ lock = "free"
    /\ lock' = "sync"
    /\ sync' = "scan"
    /\ UNCHANGED <<ledgerVars, offerVars, requestVars, recoveryVars, seen, published, ebayVars>>

\* _upsert: a terminal status is not reopened; a changed row gets a new version.
Upsert(s) ==
    IF status = "Closed" /\ s # "Closed"
    THEN UNCHANGED <<version, status>>
    ELSE /\ status' = s
         /\ version' = IF s = status THEN version ELSE version + 1

\* A page of the account-wide scan (bestOfferStatus Active) holds the offer;
\* eBay may go on listing an offer that has just been answered.
ScanSees ==
    /\ sync = "scan" /\ ~seen
    /\ version < MaxVersion
    /\ Upsert("Active")
    /\ seen' = TRUE
    /\ UNCHANGED <<ledgerVars, needs, done, current, lock, requestVars, recoveryVars,
                   sync, published, ebayVars>>

\* A complete scan is published: known waiting offers stay, and an open one
\* it did not return needs reconciliation.
ScanComplete ==
    /\ sync = "scan"
    /\ current' = (seen \/ (current /\ status # "Closed"))
    /\ needs' = (needs \/ (~seen /\ current /\ status \in Open))
    /\ published' = TRUE
    /\ sync' = "listing"
    /\ UNCHANGED <<ledgerVars, version, status, done, lock, requestVars, recoveryVars,
                   seen, ebayVars>>

\* A scan with a failed row or an unknown role publishes nothing and marks nothing.
ScanPartial ==
    /\ sync = "scan"
    /\ sync' = "listing"
    /\ UNCHANGED <<ledgerVars, offerVars, lock, requestVars, recoveryVars, seen,
                   published, ebayVars>>

\* The listing query returns the offer, in any status it has had (replies lag).
ListingSees ==
    /\ sync = "listing"
    /\ \E s \in provider :
         /\ s # status => version < MaxVersion
         /\ Upsert(s)
    /\ sync' = "observed"
    /\ seen' = TRUE
    /\ UNCHANGED <<ledgerVars, needs, done, current, lock, requestVars, recoveryVars,
                   published, ebayVars>>

\* mutant: an action is closed although eBay still reports the offer open
M_Transitioned == TRUE

Awaited == {"DISPATCHING", "RECONCILIATION_REQUIRED", "SUCCEEDED"}
\* The stored status shows that somebody's answer took effect.
Transitioned == status # "Active"

\* The tail of reconcile_listing for a returned offer: a transition closes the
\* ambiguity of its actions; without one the offer goes on waiting.
ListingSettles ==
    /\ sync = "observed"
    /\ action' = [k \in Key |->
                    IF Transitioned /\ action[k] \in Awaited \ {"SUCCEEDED"}
                    THEN "RECONCILED" ELSE action[k]]
    /\ needs' = (~Transitioned /\ \E k \in Key : action[k] \in Awaited)
    /\ sync' = "settled"
    /\ UNCHANGED <<last, version, status, done, current, lock, requestVars, recoveryVars,
                   seen, published, ebayVars>>

\* mutant: an empty listing clears the flag
M_Outstanding == FALSE

Outstanding == \E k \in Key : action[k] \in Unresolved \cup {"SUCCEEDED"}

\* The listing query returns nothing: absence never settles an action.
ListingEmpty ==
    /\ sync = "listing"
    /\ needs' = Outstanding
    /\ sync' = "settled"
    /\ seen' = FALSE
    /\ UNCHANGED <<ledgerVars, version, status, done, current, lock, requestVars,
                   recoveryVars, published, ebayVars>>

\* With a published scan, the listing's rows in the snapshot are replaced in a
\* commit of their own.
Republish ==
    /\ sync = "settled"
    /\ current' = IF published THEN seen /\ status # "Closed" ELSE current
    /\ sync' = "idle" /\ lock' = "free"
    /\ seen' = FALSE /\ published' = FALSE
    /\ UNCHANGED <<ledgerVars, version, needs, status, done, requestVars, recoveryVars,
                   ebayVars>>

\* The sync is stopped, fails or is killed between two commits, or finds the
\* listing not due.
SyncEnds ==
    /\ sync # "idle"
    /\ sync' = "idle" /\ lock' = "free"
    /\ seen' = FALSE /\ published' = FALSE
    /\ UNCHANGED <<ledgerVars, offerVars, requestVars, recoveryVars, ebayVars>>

-----------------------------------------------------------------------------
OutsideNext == \/ \E k \in Key : Compose(k) \/ ProviderDecides(k)
               \/ MarkDone
               \/ BuyerEnds

RequestNext(a) == \/ Lookup(a) \/ Acquire(a) \/ Decide(a)
                  \/ Dispatch(a) \/ DispatchFails(a) \/ Send(a)
                  \/ RecordOutcome(a) \/ AttemptDies(a)

RecoveryNext == (\E k \in Key : RecoverRead(k)) \/ RecoverTry \/ RecoverCommit

SyncNext == \/ SyncBegin \/ ScanSees \/ ScanComplete \/ ScanPartial
            \/ ListingSees \/ ListingSettles \/ ListingEmpty \/ Republish \/ SyncEnds

Next == \/ OutsideNext
        \/ \E a \in Attempt : RequestNext(a)
        \/ RecoveryNext
        \/ SyncNext

Spec == Init /\ [][Next]_vars

-----------------------------------------------------------------------------
(* Properties *)

\* What is known of a request that was sent: eBay refused it and the ledger
\* says so, or a later listing showed that the offer has moved on.
Settled(k) == \/ action[k] = "RECONCILED"
              \/ action[k] = "FAILED" /\ outcome[k] = "rejected"

\* A response is put on the wire only when every response sent before for this
\* offer is settled, and never twice for one key (respond 35-92, actionable,
\* recover_actions, reconcile_listing): nothing ambiguous is ever retried,
\* across crashes, retries of the request, recovery and lagging listings.
NoBlindResend ==
    [][\A k \in Key : outcome[k] # outcome'[k] /\ outcome'[k] = "inflight" =>
         \A j \in Key : outcome[j] # "unsent" => Settled(j)]_vars

\* A row that says FAILED tells the truth: its request was never sent, or eBay
\* refused it (respond 93-101 and 107-115, recover_actions 136-138).
FailedMeansNotApplied ==
    \A k \in Key : action[k] = "FAILED" => outcome[k] \in {"unsent", "rejected"}

\* While it is uncertain whether an answer reached eBay the offer is flagged, so
\* no listing result (empty, lagging, or for an older state) offers it for
\* another answer (respond 90 and 126, recover_actions 142-144, sync 333-373).
UncertainOfferFlagged ==
    \A k \in Key : action[k] \in {"DISPATCHING", "RECONCILIATION_REQUIRED"} => needs

\* A row is closed as RECONCILED only if the offer really left the open state at
\* eBay (reconcile_listing 341-347 reads the status _upsert just stored).
ReconciledOnEvidence ==
    (\E k \in Key : action[k] = "RECONCILED") => provider # {"Active"}

\* From the version check to the reply the offer is the one the user decided on:
\* nothing but the dispatch itself has changed its version (respond 45-129 and
\* the sync exclude each other by the account lock).
DispatchSeesExpectedOffer ==
    \A a \in Attempt : pc[a] \in {"dispatching", "sent"} => version = expected[KeyOf[a]] + 1

\* A retry that races the request it repeats is never told that the offer has
\* changed: it replays the stored row, or finds the account busy (respond 46-51).
RetryFindsItsRecord ==
    [][\A a \in Attempt : pc[a] # pc'[a] /\ pc'[a] = "conflict" =>
         action[KeyOf[a]] = "NONE"]_vars

\* The checks under the lock leave the unique index nothing to refuse, so an
\* acceptable response never ends in a database error (respond 56-78, model 13).
IndexNeverRefuses ==
    \A a \in Attempt : pc[a] = "locked" /\ ~Replayed(a) /\ Acceptable(KeyOf[a])
                         => IndexAllows(KeyOf[a])

\* What a request decides under the lock still holds when it answers: the offer
\* is the one the user saw, and the ledger has room for the answer.
DispatchIsSound == DispatchSeesExpectedOffer /\ IndexNeverRefuses
=============================================================================
