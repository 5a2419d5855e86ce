------------------------------- MODULE ApiQuota -------------------------------
(***************************************************************************)
(* The daily budget of eBay calls, shared by syncs, replies, responses and *)
(* sold-posting lookups.  A reservation is a transaction of its own that   *)
(* locks the day's row of one API; it stands whatever becomes of the call  *)
(* or of the caller.                                                       *)
(***************************************************************************)
EXTENDS Integers, FiniteSets, FiniteSetsExt, Functions

CONSTANTS
    Caller,
    Day,            \* 0..last day considered
    Names,          \* API names callers give
    Limits,         \* values of the configured limit the runs try
    DefaultLimit,   \* of an API without a setting
    MaxCalls,       \* bound on the calls reserved
    Unset           \* no setting row

QuotaAssumption == 0 \in Day /\ DefaultLimit \in Nat \ {0} /\ Limits \subseteq Int /\ MaxCalls \in Nat

VARIABLES
    day,            \* the UTC date
    setting,        \* api.ebay_<name>_daily_limit by API
    usage,          \* EbayApiUsage.call_count by date and API
    attempts,       \* EbayApiCallAttempt: how many by date and API, and by outcome
    step,           \* per caller: where its reservation and its call stand
    through,        \* history: calls let through, by date and API
    peak            \* history: by API, the highest limit in force so far

quotaVars == <<day, setting, usage, attempts, step, through, peak>>

Api == {"commerce", "bestseller"}
\* _normalize_api_name()
ApiOf(name) ==
    CASE name = "best_offer" -> "bestseller" [] name \in Api -> name [] OTHER -> "commerce"
Outcome == {"RESERVED", "SUCCESS", "FAILED", "TRANSPORT_ERROR"}

\* _daily_limit()
LimitOf(value) == IF value = Unset THEN DefaultLimit ELSE Max({1, value})

QuotaInit ==
    /\ day = 0
    /\ setting = [a \in Api |-> Unset]
    /\ usage = <<>>
    /\ attempts = <<>> /\ through = <<>>
    /\ step = [c \in Caller |-> [at |-> "idle"]]
    /\ peak = [a \in Api |-> DefaultLimit]

\* A row is inserted or updated.
Put(rows, k, x) == [j \in DOMAIN rows \cup {k} |-> IF j = k THEN x ELSE rows[j]]
CountOf(k) == IF k \in DOMAIN usage THEN usage[k] ELSE 0
ThroughOf(k) == IF k \in DOMAIN through THEN through[k] ELSE 0
\* get_today_usage(): what is left under the limit of the moment.
M_Remaining(a) == LimitOf(setting[a]) - CountOf(<<day, a>>)     \* mutant: not floored
Remaining(a) == Max({LimitOf(setting[a]) - CountOf(<<day, a>>), 0})
M_Locked(k) == FALSE     \* mutant: the row is read without FOR UPDATE
Locked(k) == \E c \in Caller : step[c].at = "locked" /\ step[c].key = k

----------------------------------------------------------------------------
(* reserve_calls(): the limit is read first, then the row is locked.  Only *)
(* Trading calls name their operation and leave an attempt.                *)
ReserveBegins(c, name, n) ==
    /\ step[c].at = "idle"
    /\ step' = [step EXCEPT ![c] =
                  [at |-> "limit", key |-> <<day, ApiOf(name)>>, n |-> n,
                   limit |-> LimitOf(setting[ApiOf(name)])]]
    /\ UNCHANGED <<day, setting, usage, attempts, through, peak>>

\* INSERT .. ON CONFLICT DO NOTHING, then SELECT .. FOR UPDATE: a new row waits as well.
LockRow(c) ==
    LET s == step[c] IN
    /\ s.at = "limit" /\ ~Locked(s.key)
    /\ step' = [step EXCEPT ![c] = [at |-> "locked", key |-> s.key, n |-> s.n, limit |-> s.limit,
                                    count |-> CountOf(s.key)]]
    /\ UNCHANGED <<day, setting, usage, attempts, through, peak>>

Named(k) == k[2] = "bestseller"
AttemptsOf(k) == IF k \in DOMAIN attempts THEN attempts[k] ELSE [o \in Outcome |-> 0]
\* The bound.
Spare(n) == FoldFunction(LAMBDA m, t : m + t, 0, through) + n <= MaxCalls
Reserve(c) ==
    LET s == step[c] IN
    /\ s.at = "locked" /\ s.count + s.n <= s.limit
    /\ Spare(s.n)
    /\ usage' = Put(usage, s.key, s.count + s.n)
    /\ through' = Put(through, s.key, ThroughOf(s.key) + s.n)
    /\ attempts' = IF Named(s.key)
                   THEN Put(attempts, s.key, [AttemptsOf(s.key) EXCEPT !["RESERVED"] = @ + s.n])
                   ELSE attempts
    /\ step' = [step EXCEPT ![c] = [at |-> "calling", key |-> s.key]]
    /\ UNCHANGED <<day, setting, peak>>

\* 429: the transaction rolls back.
Refuse(c) ==
    /\ step[c].at = "locked" /\ step[c].count + step[c].n > step[c].limit
    /\ step' = [step EXCEPT ![c] = [at |-> "idle"]]
    /\ UNCHANGED <<day, setting, usage, attempts, through, peak>>

\* finish_attempt(): the last attempt reserved; an unnamed call has none.
CallEnds(c, outcome) ==
    LET k == step[c].key IN
    /\ step[c].at = "calling"
    /\ attempts' = IF Named(k)
                   THEN [attempts EXCEPT ![k]["RESERVED"] = @ - 1, ![k][outcome] = @ + 1]
                   ELSE attempts
    /\ step' = [step EXCEPT ![c] = [at |-> "idle"]]
    /\ UNCHANGED <<day, setting, usage, through, peak>>

\* The caller dies: a locked row is released unchanged, a reservation stands.
CallerDies(c) ==
    /\ step[c].at # "idle"
    /\ step' = [step EXCEPT ![c] = [at |-> "idle"]]
    /\ UNCHANGED <<day, setting, usage, attempts, through, peak>>

SetLimit(a, value) ==
    /\ setting[a] # value
    /\ setting' = [setting EXCEPT ![a] = value]
    /\ peak' = [peak EXCEPT ![a] = Max({@, LimitOf(value)})]
    /\ UNCHANGED <<day, usage, attempts, step, through>>

Midnight ==
    /\ day + 1 \in Day
    /\ day' = day + 1
    /\ UNCHANGED <<setting, usage, attempts, step, through, peak>>

QuotaNext ==
    \/ \E c \in Caller :
         \/ \E name \in Names, n \in {1, 2} : ReserveBegins(c, name, n)
         \/ LockRow(c) \/ Reserve(c) \/ Refuse(c) \/ CallerDies(c)
         \/ \E o \in Outcome \ {"RESERVED"} : CallEnds(c, o)
    \/ \E a \in Api, v \in Limits : SetLimit(a, v)
    \/ Midnight

QuotaSpec == QuotaInit /\ [][QuotaNext]_quotaVars

----------------------------------------------------------------------------
\* attribution(): the day's attempts; the rest of the Trading count is unattributed.
Attributed(k) ==
    LET n == AttemptsOf(k) IN n["RESERVED"] + n["SUCCESS"] + n["FAILED"] + n["TRANSPORT_ERROR"]
Unattributed(d) == LET k == <<d, "bestseller">> IN Max({0, CountOf(k) - Attributed(k)})

QuotaTypeOK ==
    /\ day \in Day /\ setting \in [Api -> Limits \cup {Unset}]
    /\ DOMAIN usage \subseteq Day \X Api
    /\ \A k \in DOMAIN usage : usage[k] \in 0..MaxCalls
    /\ \A a \in Api : Remaining(a) >= 0

\* However callers interleave, die or run past midnight, a day's count of an API is the
\* number of calls that were let through on it and never exceeds the highest limit that was
\* in force, and every Trading call is attributed.
QuotaKept ==
    /\ usage = through
    /\ \A k \in DOMAIN usage :
         /\ usage[k] <= peak[k[2]]
         /\ Named(k) => Unattributed(k[1]) = 0
=============================================================================
