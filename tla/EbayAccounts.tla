----------------------------- MODULE EbayAccounts -----------------------------
(***************************************************************************)
(* Seller accounts, their authorization at eBay and their tokens.  A       *)
(* callback and a refresh read the account, call eBay and only then write; *)
(* a write sends the columns whose value differs from the one loaded.      *)
(***************************************************************************)
EXTENDS Integers, FiniteSets, Functions

CONSTANTS
    AccountId,      \* ids of eBay accounts
    Seller,         \* eBay users; a username is the user's, up to case and blanks
    Handler,        \* requests served at once
    MaxGrants,      \* bound on the authorizations and tokens eBay hands out
    Life,           \* lifetime of an access token
    Horizon,        \* bound on the clock
    Null            \* of a column without a value

EbayAccountsAssumption ==
    /\ MaxGrants \in Nat /\ Life \in Nat \ {0} /\ Horizon \in Nat
    /\ Null \notin Seller \cup {"callback", "refresh"}

VARIABLES
    accounts,       \* EbayAccount by id, for the ids that exist
    now,
    issued,         \* tokens and states handed out so far
    spent,          \* codes eBay has exchanged: one per sign-in, a state and a user
    flight,         \* per worker: the callback or refresh that is calling eBay
    deleted,        \* ids of deleted accounts, never used again
    renamed         \* history: accounts whose username changed under a request in flight

accountVars == <<accounts, now, issued, spent, flight, deleted, renamed>>

Idle == [op |-> Null]
NewAccount(name) ==
    [username |-> name, status |-> "PENDING", active |-> TRUE, state |-> Null,
     access |-> Null, refresh |-> Null, expires |-> Null, user |-> Null]

AccountsInit ==
    /\ accounts = <<>>
    /\ now = 0 /\ issued = 0 /\ spent = {}
    /\ flight = [w \in Handler |-> Idle]
    /\ deleted = {} /\ renamed = {}

\* ensure_unique_ebay_username(): a unique index on the lower-case name makes it one step.
NameFree(name, except) == \A a \in DOMAIN accounts \ {except} : accounts[a].username # name

\* The UPDATE of a session that loaded `old` and now has `new`.
Written(row, old, new) ==
    [f \in DOMAIN row |-> IF new[f] # old[f] THEN new[f] ELSE row[f]]
Unless(status, row) == IF row.status = "CONNECTED" THEN "CONNECTED" ELSE status
Refused(row) == [row EXCEPT !.status = Unless("FAILED", row), !.state = Null]
Code(f) == <<f.old.state, f.seller>>

----------------------------------------------------------------------------
(* The administrator's requests.                                           *)
CreateAccount(a, name) ==
    /\ a \notin DOMAIN accounts \cup deleted
    /\ NameFree(name, Null)
    /\ accounts' = [x \in DOMAIN accounts \cup {a} |-> IF x = a THEN NewAccount(name) ELSE accounts[x]]
    /\ UNCHANGED <<now, issued, spent, flight, deleted, renamed>>

\* The username may change at any time, connected or not.
UpdateAccount(a, name) ==
    /\ a \in DOMAIN accounts /\ accounts[a].username # name
    /\ NameFree(name, a)
    /\ accounts' = [accounts EXCEPT ![a].username = name]
    /\ renamed' = IF accounts[a].user # Null \/ \E w \in Handler : flight[w].op # Null /\ flight[w].row = a
                  THEN renamed \cup {a} ELSE renamed
    /\ UNCHANGED <<now, issued, spent, flight, deleted>>

SetActive(a, active) ==
    /\ a \in DOMAIN accounts /\ accounts[a].active # active
    /\ accounts' = [accounts EXCEPT ![a].active = active]
    /\ UNCHANGED <<now, issued, spent, flight, deleted, renamed>>

DeleteAccount(a) ==
    /\ a \in DOMAIN accounts
    /\ accounts' = Restrict(accounts, DOMAIN accounts \ {a})
    /\ deleted' = deleted \cup {a}
    /\ renamed' = renamed \ {a}
    /\ UNCHANGED <<now, issued, spent, flight>>

\* create_authorization_url(): a new state replaces the last one.
CreateAuthorizationUrl(a) ==
    /\ a \in DOMAIN accounts /\ issued < MaxGrants
    /\ accounts' = [accounts EXCEPT ![a].state = issued, ![a].status = Unless("PENDING", accounts[a])]
    /\ issued' = issued + 1
    /\ UNCHANGED <<now, spent, flight, deleted, renamed>>

----------------------------------------------------------------------------
(* The callback.  A state finds its account until it is cleared; the same  *)
(* callback may come twice, from the redirect and by hand.                 *)
CallbackRefused(a) ==   \* `error`, or no code
    /\ a \in DOMAIN accounts /\ accounts[a].state # Null
    /\ accounts' = [accounts EXCEPT ![a] = Refused(@)]
    /\ UNCHANGED <<now, issued, spent, flight, deleted, renamed>>

CallbackStarts(w, a, seller) ==
    /\ flight[w] = Idle
    /\ a \in DOMAIN accounts /\ accounts[a].state # Null
    /\ flight' = [flight EXCEPT ![w] =
                    [op |-> "callback", row |-> a, old |-> accounts[a], seller |-> seller]]
    /\ UNCHANGED <<accounts, now, issued, spent, deleted, renamed>>

\* The row a session loaded is deleted: its UPDATE matches nothing and the request fails.
Save(a, old, new) ==
    accounts' = IF a \in DOMAIN accounts THEN [accounts EXCEPT ![a] = Written(@, old, new)] ELSE accounts

\* store_tokens(): a missing lifetime clears the expiry, a missing refresh token keeps the old.
StoreTokens(row, seller, token, keep, life) ==
    [row EXCEPT
        !.access = [of |-> seller, n |-> token],
        !.refresh = IF keep THEN @ ELSE [of |-> seller, n |-> token],
        !.expires = IF life THEN now + Life ELSE Null,
        !.status = "CONNECTED", !.state = Null]

\* _usernames_match()
M_UsernamesMatch(row, seller) == row.state # Null   \* mutant: the state is trusted alone
UsernamesMatch(row, seller) == row.username = seller

\* handle_callback() after the exchange and the identity lookup: eBay exchanges a code once.
CallbackEnds(w, keep, life) ==
    LET f == flight[w] IN
    /\ f.op = "callback" /\ issued < MaxGrants
    /\ Code(f) \notin spent
    /\ UsernamesMatch(f.old, f.seller)
    /\ Save(f.row, f.old, StoreTokens([f.old EXCEPT !.user = f.seller], f.seller, issued, keep, life))
    /\ spent' = spent \cup {Code(f)}
    /\ issued' = issued + 1
    /\ flight' = [flight EXCEPT ![w] = Idle]
    /\ UNCHANGED <<now, deleted, renamed>>

\* The exchange or the lookup failed: judged by the status this session loaded.
CallbackFails(w) ==
    LET f == flight[w] IN
    /\ f.op = "callback"
    /\ Save(f.row, f.old, Refused(f.old))
    /\ \/ spent' = spent
       \/ Code(f) \notin spent /\ spent' = spent \cup {Code(f)}
    /\ flight' = [flight EXCEPT ![w] = Idle]
    /\ UNCHANGED <<now, issued, deleted, renamed>>

\* Another user signed in: refused twice, the second time on the row read again.
CallbackMismatch(w) ==
    LET f == flight[w] IN
    /\ f.op = "callback" /\ Code(f) \notin spent
    /\ ~UsernamesMatch(f.old, f.seller)
    /\ accounts' = IF f.row \in DOMAIN accounts
               THEN [accounts EXCEPT ![f.row] = Refused(Written(@, f.old, Refused(f.old)))] ELSE accounts
    /\ spent' = spent \cup {Code(f)}
    /\ flight' = [flight EXCEPT ![w] = Idle]
    /\ UNCHANGED <<now, issued, deleted, renamed>>

----------------------------------------------------------------------------
(* Refreshing the access token: by hand, and by every service that finds   *)
(* no token or one that has expired.                                       *)
NeedsRefresh(row) == row.access = Null \/ (row.expires # Null /\ row.expires <= now)

AccessRefreshStarts(w, a) ==
    /\ flight[w] = Idle
    /\ a \in DOMAIN accounts /\ accounts[a].refresh # Null
    /\ flight' = [flight EXCEPT ![w] = [op |-> "refresh", row |-> a, old |-> accounts[a]]]
    /\ UNCHANGED <<accounts, now, issued, spent, deleted, renamed>>

AccessRefreshImpossible(a) ==
    /\ a \in DOMAIN accounts /\ accounts[a].refresh = Null /\ accounts[a].status # "EXPIRED"
    /\ NeedsRefresh(accounts[a])
    /\ accounts' = [accounts EXCEPT ![a].status = "EXPIRED"]
    /\ UNCHANGED <<now, issued, spent, flight, deleted, renamed>>

AccessRefreshEnds(w, keep, life) ==
    LET f == flight[w] IN
    /\ f.op = "refresh" /\ issued < MaxGrants
    /\ Save(f.row, f.old, StoreTokens(f.old, f.old.refresh.of, issued, keep, life))
    /\ issued' = issued + 1
    /\ flight' = [flight EXCEPT ![w] = Idle]
    /\ UNCHANGED <<now, spent, deleted, renamed>>

AccessRefreshFails(w) ==
    LET f == flight[w] IN
    /\ f.op = "refresh"
    /\ Save(f.row, f.old, [f.old EXCEPT !.status = "EXPIRED"])
    /\ flight' = [flight EXCEPT ![w] = Idle]
    /\ UNCHANGED <<now, issued, spent, deleted, renamed>>

\* test_connection(): a connected account whose token has expired is marked so.
TestConnection(a) ==
    /\ a \in DOMAIN accounts
    /\ accounts[a].status = "CONNECTED" /\ accounts[a].expires # Null /\ accounts[a].expires <= now
    /\ accounts' = [accounts EXCEPT ![a].status = "EXPIRED"]
    /\ UNCHANGED <<now, issued, spent, flight, deleted, renamed>>

Tick == now < Horizon /\ now' = now + 1 /\ UNCHANGED <<accounts, issued, spent, flight, deleted, renamed>>

AccountsNext ==
    \/ \E a \in AccountId :
         \/ \E n \in Seller : CreateAccount(a, n) \/ UpdateAccount(a, n)
         \/ \E b \in BOOLEAN : SetActive(a, b)
         \/ DeleteAccount(a) \/ CreateAuthorizationUrl(a) \/ CallbackRefused(a)
         \/ AccessRefreshImpossible(a) \/ TestConnection(a)
    \/ \E w \in Handler :
         \/ \E a \in AccountId, s \in Seller : CallbackStarts(w, a, s)
         \/ \E a \in AccountId : AccessRefreshStarts(w, a)
         \/ \E keep, life \in BOOLEAN : CallbackEnds(w, keep, life) \/ AccessRefreshEnds(w, keep, life)
         \/ CallbackFails(w) \/ CallbackMismatch(w) \/ AccessRefreshFails(w)
    \/ Tick

AccountsSpec == AccountsInit /\ [][AccountsNext]_accountVars

----------------------------------------------------------------------------
TokenSet == [of : Seller, n : 0..MaxGrants] \cup {Null}
AccountsTypeOK ==
    /\ DOMAIN accounts \subseteq AccountId
    /\ \A a \in DOMAIN accounts :
         /\ accounts[a].status \in {"PENDING", "CONNECTED", "EXPIRED", "FAILED"}
         /\ accounts[a].access \in TokenSet /\ accounts[a].refresh \in TokenSet
    /\ issued \in 0..MaxGrants /\ spent \subseteq (0..MaxGrants) \X Seller

\* Unless its username was changed after it was verified, or under a request in flight, an
\* account holds the tokens of the one seller it is named after: whatever callbacks and
\* refreshes interleave, and whoever signs in at eBay.
TokensOfSeller ==
    \A a \in DOMAIN accounts \ renamed :
        /\ {accounts[a].access, accounts[a].refresh} \ {Null} # {} => accounts[a].user = accounts[a].username
        /\ \A t \in {accounts[a].access, accounts[a].refresh} \ {Null} : t.of = accounts[a].user
=============================================================================
