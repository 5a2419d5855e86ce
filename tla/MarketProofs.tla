---------------------------- MODULE MarketProofs ----------------------------
(***************************************************************************)
(* Promises of the parts that deal with eBay, for any number of users,     *)
(* accounts, tokens, requests, days and conversations: the daily quota of  *)
(* the eBay calls is kept, no session outlives a password reset, the       *)
(* tokens of an eBay account stay its seller's, a conversation shows its   *)
(* own listing, what a call is reported to have done, it has done, the     *)
(* manual offers are explained by their history, and what the syncs of     *)
(* sold postings and orders report as brought is stored.                   *)
(***************************************************************************)
EXTENDS ApiQuota, AuthSessions, EbayAccounts, EbayClient, OfferEntries, OrderSync, ProductContexts,
        SoldPosting, Induction

(***************************************************************************)
(* The daily quota (ApiQuota): the lock on the day's row makes check and   *)
(* increment one, although the limit is read before it.                    *)
(***************************************************************************)
Key == Day \X Api
Limiting == [at : {"limit"}, key : Key, n : {1, 2}, limit : Int]
Counting == [at : {"locked"}, key : Key, n : {1, 2}, limit : Int, count : Int]
Calling == [at : {"calling"}, key : Key]
IdleCaller == [at |-> "idle"]

\* What the rows, the settings and the callers hold.
QuotaTypesInv ==
    /\ day \in Day
    /\ setting \in [Api -> Limits \cup {Unset}]
    /\ step \in [Caller -> {IdleCaller} \cup Limiting \cup Counting \cup Calling]
    /\ DOMAIN usage \subseteq Key /\ \A k \in DOMAIN usage : usage[k] \in Int
    /\ DOMAIN attempts \subseteq Key
    /\ \A k \in DOMAIN attempts : attempts[k] \in [Outcome -> Int]
    /\ peak \in [Api -> Int]
    /\ usage = [k \in DOMAIN usage |-> usage[k]]
    /\ attempts = [k \in DOMAIN attempts |-> attempts[k]]

\* The callers of a row take turns, and the count one has read is the row's.
LockInv ==
    /\ \A b, c \in Caller :
         step[b].at = "locked" /\ step[c].at = "locked" /\ step[b].key = step[c].key => b = c
    /\ \A c \in Caller : step[c].at = "locked" => step[c].count = CountOf(step[c].key)

\* A limit that is in force, or was when a caller read it, is no higher than the peak.
LimitInv ==
    /\ \A a \in Api : LimitOf(setting[a]) <= peak[a]
    /\ \A c \in Caller : step[c].at \in {"limit", "locked"} => step[c].limit <= peak[step[c].key[2]]

\* The count is of the calls let through, and within the peak.
CountInv ==
    /\ usage = through
    /\ \A k \in Key : CountOf(k) <= peak[k[2]]

\* Each Trading call has an attempt.
AttemptInv ==
    /\ \A k \in Key : Named(k) => CountOf(k) = Attributed(k)
    /\ \A c \in Caller : step[c].at = "calling" /\ Named(step[c].key) => step[c].key \in DOMAIN attempts

QuotaInv == QuotaTypesInv /\ LockInv /\ LimitInv /\ CountInv /\ AttemptInv

----------------------------------------------------------------------------
\* The larger of two numbers.
LEMMA Larger ==
    ASSUME NEW a \in Int, NEW b \in Int
    PROVE  Max({a, b}) \in Int /\ Max({a, b}) \in {a, b} /\ a <= Max({a, b}) /\ b <= Max({a, b})
<1>1. \E x \in {a, b} : \A y \in {a, b} : x >= y
  OBVIOUS
<1>2. Max({a, b}) \in {a, b} /\ \A y \in {a, b} : Max({a, b}) >= y
  BY <1>1 DEF Max
<1> QED
  BY <1>2

LEMMA LimitIsInt ==
    ASSUME QuotaAssumption, NEW v \in Limits \cup {Unset}
    PROVE  LimitOf(v) \in Int
<1>1. CASE v = Unset
  BY <1>1 DEF LimitOf, QuotaAssumption
<1>2. CASE v # Unset
  <2>1. v \in Int
    BY <1>2 DEF QuotaAssumption
  <2> QED
    BY <1>2, <2>1, Larger DEF LimitOf
<1> QED
  BY <1>1, <1>2

LEMMA NamesAnApi == ASSUME NEW name PROVE ApiOf(name) \in Api
BY DEF ApiOf, Api

\* The attempts of a row, and their number.
AllOf(n) == n["RESERVED"] + n["SUCCESS"] + n["FAILED"] + n["TRANSPORT_ERROR"]

LEMMA AttemptsTyped ==
    ASSUME QuotaTypesInv, NEW k
    PROVE  AttemptsOf(k) \in [Outcome -> Int] /\ Attributed(k) = AllOf(AttemptsOf(k))
<1>1. CASE k \in DOMAIN attempts
  BY <1>1 DEF AttemptsOf, QuotaTypesInv, Attributed, AllOf
<1>2. CASE k \notin DOMAIN attempts
  <2>1. AttemptsOf(k) = [o \in Outcome |-> 0]
    BY <1>2 DEF AttemptsOf
  <2> QED
    BY <2>1 DEF Attributed, AllOf
<1> QED
  BY <1>1, <1>2

\* Counting one outcome up or down counts the whole up or down.
LEMMA Counted ==
    ASSUME NEW n \in [Outcome -> Int], NEW o \in Outcome, NEW m \in Int
    PROVE  /\ [n EXCEPT ![o] = @ + m] \in [Outcome -> Int]
           /\ AllOf([n EXCEPT ![o] = @ + m]) = AllOf(n) + m
<1>1. \A x \in Outcome : [n EXCEPT ![o] = @ + m][x] = IF x = o THEN n[o] + m ELSE n[x]
  OBVIOUS
<1>2. \A x \in Outcome : n[x] \in Int
  OBVIOUS
<1>3. AllOf([n EXCEPT ![o] = @ + m]) = AllOf(n) + m
  BY <1>1, <1>2 DEF AllOf, Outcome
<1> QED
  BY <1>3

LEMMA QuotaInitInv == ASSUME QuotaAssumption, QuotaInit PROVE QuotaInv
<1>1. \A c \in Caller : step[c] = IdleCaller /\ step[c].at = "idle"
  BY DEF QuotaInit, IdleCaller
<1>2. DOMAIN usage = {} /\ DOMAIN attempts = {}
  BY DEF QuotaInit
<1>3. \A a \in Api : peak[a] = DefaultLimit /\ setting[a] = Unset
  BY DEF QuotaInit
<1>4. \A k : CountOf(k) = 0
  BY <1>2 DEF CountOf
<1>5. \A k : Attributed(k) = 0
  <2> SUFFICES ASSUME NEW k PROVE Attributed(k) = 0
    OBVIOUS
  <2>1. AttemptsOf(k) = [o \in Outcome |-> 0]
    BY <1>2 DEF AttemptsOf
  <2> QED
    BY <2>1 DEF Attributed, Outcome
<1>6. QuotaTypesInv
  BY <1>1, <1>2 DEF QuotaTypesInv, QuotaInit, QuotaAssumption, IdleCaller
<1>7. LockInv
  BY <1>1 DEF LockInv
<1>8. LimitInv
  BY <1>1, <1>3 DEF LimitInv, LimitOf, QuotaAssumption
<1>9. CountInv
  BY <1>3, <1>4 DEF CountInv, QuotaInit, QuotaAssumption, Key
<1>10. AttemptInv
  BY <1>1, <1>4, <1>5 DEF AttemptInv
<1> QED
  BY <1>6, <1>7, <1>8, <1>9, <1>10 DEF QuotaInv

----------------------------------------------------------------------------
\* A step of one caller that touches no row, and where the caller stands after it.
LEMMA OnlyTheCaller ==
    ASSUME QuotaInv, NEW c \in Caller, NEW s \in {IdleCaller} \cup Limiting \cup Counting,
           step' = [step EXCEPT ![c] = s],
           UNCHANGED <<day, setting, usage, attempts, through, peak>>,
           s.at = "locked" => s.count = CountOf(s.key) /\ ~Locked(s.key),
           s.at \in {"limit", "locked"} => s.limit <= peak[s.key[2]]
    PROVE  QuotaInv'
<1>1. \A b \in Caller : step'[b] = IF b = c THEN s ELSE step[b]
  BY DEF QuotaInv, QuotaTypesInv
<1>2. s.at # "calling"
  BY DEF IdleCaller, Limiting, Counting
<1>3. \A k : CountOf(k)' = CountOf(k) /\ Attributed(k)' = Attributed(k)
  BY DEF CountOf, Attributed, AttemptsOf
<1>4. QuotaTypesInv'
  BY DEF QuotaInv, QuotaTypesInv
<1>5. LockInv'
  BY <1>1, <1>3 DEF QuotaInv, LockInv, Locked
<1>6. LimitInv'
  BY <1>1 DEF QuotaInv, LimitInv, LimitOf
<1>7. CountInv'
  BY <1>3 DEF QuotaInv, CountInv
<1>8. AttemptInv'
  BY <1>1, <1>2, <1>3 DEF QuotaInv, AttemptInv
<1> QED
  BY <1>4, <1>5, <1>6, <1>7, <1>8 DEF QuotaInv

LEMMA ReserveBeginsStep ==
    ASSUME QuotaAssumption, QuotaInv, NEW c \in Caller, NEW name \in Names, NEW n \in {1, 2},
           ReserveBegins(c, name, n)
    PROVE  QuotaInv'
<1>1. PICK a \in Api : a = ApiOf(name)
  BY NamesAnApi
<1>2. PICK limit \in Int : limit = LimitOf(setting[a])
  BY LimitIsInt DEF QuotaInv, QuotaTypesInv
<1> DEFINE s == [at |-> "limit", key |-> <<day, a>>, n |-> n, limit |-> limit]
<1>3. s \in Limiting /\ s.at = "limit" /\ s.key[2] = a /\ s.limit = limit
  BY DEF Limiting, Key, QuotaInv, QuotaTypesInv
<1>4. limit <= peak[a]
  BY <1>2 DEF QuotaInv, LimitInv
<1>5. /\ step' = [step EXCEPT ![c] = s]
      /\ UNCHANGED <<day, setting, usage, attempts, through, peak>>
  BY <1>1, <1>2 DEF ReserveBegins
<1> HIDE DEF s
<1> QED
  BY <1>3, <1>4, <1>5, OnlyTheCaller

LEMMA LockRowStep ==
    ASSUME QuotaInv, NEW c \in Caller, LockRow(c)
    PROVE  QuotaInv'
<1>1. PICK s \in Limiting : s = step[c]
  BY DEF QuotaInv, QuotaTypesInv, LockRow, IdleCaller, Counting, Calling
<1>2. PICK n \in Int : n = CountOf(s.key)
  BY DEF CountOf, QuotaInv, QuotaTypesInv
<1> DEFINE t == [at |-> "locked", key |-> s.key, n |-> s.n, limit |-> s.limit, count |-> n]
<1>3. /\ t \in Counting /\ t.at = "locked"
      /\ t.key = s.key /\ t.limit = s.limit /\ t.count = CountOf(t.key)
  BY <1>2 DEF Counting, Limiting
<1>4. ~Locked(s.key)
  BY <1>1 DEF LockRow
<1>5. s.limit <= peak[s.key[2]]
  BY <1>1 DEF QuotaInv, LimitInv, Limiting
<1>6. /\ step' = [step EXCEPT ![c] = t]
      /\ UNCHANGED <<day, setting, usage, attempts, through, peak>>
  BY <1>1, <1>2 DEF LockRow
<1> HIDE DEF t
<1> QED
  BY <1>3, <1>4, <1>5, <1>6, OnlyTheCaller

\* A refused or dead caller leaves the rows as they are.
LEMMA GivesUpStep ==
    ASSUME QuotaInv, NEW c \in Caller, Refuse(c) \/ CallerDies(c)
    PROVE  QuotaInv'
<1>1. IdleCaller.at = "idle" /\ IdleCaller \in {IdleCaller} \cup Limiting \cup Counting
  BY DEF IdleCaller
<1>2. /\ step' = [step EXCEPT ![c] = IdleCaller]
      /\ UNCHANGED <<day, setting, usage, attempts, through, peak>>
  BY DEF Refuse, CallerDies, IdleCaller
<1> QED
  BY <1>1, <1>2, OnlyTheCaller

\* The check and the increment see one count.
LEMMA ReserveStep ==
    ASSUME QuotaInv, NEW c \in Caller, Reserve(c)
    PROVE  QuotaInv'
<1>1. PICK s \in Counting : s = step[c]
  BY DEF QuotaInv, QuotaTypesInv, Reserve, IdleCaller, Limiting, Calling
<1>2. /\ s.key \in Key /\ s.n \in {1, 2} /\ s.limit \in Int /\ s.count \in Int
      /\ s.at = "locked" /\ s.count + s.n <= s.limit
  BY <1>1 DEF Reserve, Counting
<1>3. PICK k \in Key, n \in Int, count \in Int : k = s.key /\ n = s.n /\ count = s.count
  BY <1>2
<1>4. count = CountOf(k) /\ count = ThroughOf(k)
  BY <1>1, <1>2, <1>3 DEF QuotaInv, LockInv, CountInv, CountOf, ThroughOf
<1>5. count + n <= peak[k[2]]
  <2>1. s.limit <= peak[k[2]]
    BY <1>1, <1>2, <1>3 DEF QuotaInv, LimitInv
  <2>2. peak[k[2]] \in Int
    BY <1>3 DEF QuotaInv, QuotaTypesInv, Key
  <2> QED
    BY <1>2, <1>3, <2>1, <2>2
<1>6. usage' = Put(usage, k, count + n) /\ through' = usage'
  BY <1>1, <1>3, <1>4 DEF Reserve, QuotaInv, CountInv
<1>7. /\ DOMAIN usage' = DOMAIN usage \cup {k} /\ usage'[k] = count + n
      /\ \A j \in DOMAIN usage : j # k => usage'[j] = usage[j]
      /\ CountOf(k)' = count + n
      /\ \A j : j # k => CountOf(j)' = CountOf(j)
  <2>1. usage' = [j \in DOMAIN usage \cup {k} |-> IF j = k THEN count + n ELSE usage[j]]
    BY <1>6 DEF Put
  <2> QED
    BY <2>1 DEF CountOf
<1>8. step' = [step EXCEPT ![c] = [at |-> "calling", key |-> k]]
  BY <1>1, <1>3 DEF Reserve
<1>9. [at |-> "calling", key |-> k] \in Calling
  BY DEF Calling
<1>10. \A b \in Caller : step'[b] = IF b = c THEN [at |-> "calling", key |-> k] ELSE step[b]
  BY <1>8 DEF QuotaInv, QuotaTypesInv
<1>11. attempts' = IF Named(k)
                   THEN Put(attempts, k, [AttemptsOf(k) EXCEPT !["RESERVED"] = @ + n])
                   ELSE attempts
  BY <1>1, <1>3 DEF Reserve
<1>12. PICK old \in [Outcome -> Int] : old = AttemptsOf(k) /\ AllOf(old) = Attributed(k)
  BY AttemptsTyped DEF QuotaInv
<1>13. PICK new \in [Outcome -> Int] :
         new = [old EXCEPT !["RESERVED"] = @ + n] /\ AllOf(new) = AllOf(old) + n
  <2>1. "RESERVED" \in Outcome
    BY DEF Outcome
  <2>2. /\ [old EXCEPT !["RESERVED"] = @ + n] \in [Outcome -> Int]
        /\ AllOf([old EXCEPT !["RESERVED"] = @ + n]) = AllOf(old) + n
    BY <2>1, Counted, Zenon
  <2> QED
    BY <2>2, Zenon
<1>14. attempts' = IF Named(k) THEN Put(attempts, k, new) ELSE attempts
  BY <1>11, <1>12, <1>13, Zenon
<1>15. /\ Named(k) => k \in DOMAIN attempts' /\ attempts'[k] = new
       /\ DOMAIN attempts \subseteq DOMAIN attempts'
       /\ DOMAIN attempts' \subseteq DOMAIN attempts \cup {k}
       /\ \A j \in DOMAIN attempts : j # k => attempts'[j] = attempts[j]
       /\ ~Named(k) => attempts' = attempts
       /\ attempts' = [j \in DOMAIN attempts' |-> attempts'[j]]
  <2>1. CASE Named(k)
    <3>1. attempts' = Put(attempts, k, new)
      BY <1>14, <2>1, Zenon
    <3>2. attempts' = [j \in DOMAIN attempts \cup {k} |-> IF j = k THEN new ELSE attempts[j]]
      BY <3>1 DEF Put
    <3> QED
      BY <2>1, <3>2
  <2>2. CASE ~Named(k)
    <3>1. attempts' = attempts
      BY <1>14, <2>2, Zenon
    <3> QED
      BY <2>2, <3>1 DEF QuotaInv, QuotaTypesInv
  <2> QED
    BY <2>1, <2>2
<1>16. QuotaTypesInv'
  <2>1. DOMAIN usage' \subseteq Key /\ \A j \in DOMAIN usage' : usage'[j] \in Int
    BY <1>1, <1>6, <1>7 DEF QuotaInv, QuotaTypesInv, Put
  <2>2. DOMAIN attempts' \subseteq Key /\ \A j \in DOMAIN attempts' : attempts'[j] \in [Outcome -> Int]
    BY <1>15 DEF QuotaInv, QuotaTypesInv
  <2>3. step' \in [Caller -> {IdleCaller} \cup Limiting \cup Counting \cup Calling]
    BY <1>8, <1>9 DEF QuotaInv, QuotaTypesInv
  <2>4. usage' = [j \in DOMAIN usage' |-> usage'[j]]
    BY <1>6 DEF Put
  <2>5. attempts' = [j \in DOMAIN attempts' |-> attempts'[j]]
    BY <1>15
  <2>6. UNCHANGED <<day, setting, peak>>
    BY DEF Reserve
  <2> QED
    BY <2>1, <2>2, <2>3, <2>4, <2>5, <2>6 DEF QuotaInv, QuotaTypesInv
<1>17. LockInv'
  <2>1. \A b \in Caller : step'[b].at = "locked" =>
          /\ b # c /\ step'[b] = step[b] /\ step[b].key # k
    BY <1>1, <1>2, <1>3, <1>10 DEF QuotaInv, LockInv
  <2> QED
    BY <1>7, <2>1 DEF QuotaInv, LockInv
<1>18. LimitInv'
  BY <1>10 DEF QuotaInv, LimitInv, Reserve, LimitOf
<1>19. CountInv'
  <2>1. UNCHANGED peak
    BY DEF Reserve
  <2> QED
    BY <1>3, <1>5, <1>6, <1>7, <2>1 DEF QuotaInv, CountInv
<1>20. AttemptInv'
  <2>1. ASSUME NEW j \in Key, Named(j), j # k PROVE CountOf(j)' = Attributed(j)'
    <3>1. AttemptsOf(j)' = AttemptsOf(j)
      BY <1>15, <2>1 DEF AttemptsOf
    <3>2. Attributed(j)' = Attributed(j)
      BY <3>1 DEF Attributed
    <3> QED
      BY <1>7, <2>1, <3>2 DEF QuotaInv, AttemptInv
  <2>2. ASSUME Named(k) PROVE CountOf(k)' = Attributed(k)'
    <3>1. AttemptsOf(k)' = new
      BY <1>15, <2>2 DEF AttemptsOf
    <3>2. Attributed(k)' = AllOf(new)
      BY <3>1 DEF Attributed, AllOf
    <3>3. count = AllOf(old)
      BY <1>4, <1>12, <2>2 DEF QuotaInv, AttemptInv
    <3> QED
      BY <1>7, <1>13, <3>2, <3>3
  <2>3. ASSUME NEW b \in Caller, step'[b].at = "calling", Named(step'[b].key)
        PROVE  step'[b].key \in DOMAIN attempts'
    <3>1. CASE b = c
      BY <1>10, <1>15, <2>3, <3>1
    <3>2. CASE b # c
      BY <1>10, <1>15, <2>3, <3>2 DEF QuotaInv, AttemptInv
    <3> QED
      BY <3>1, <3>2
  <2> QED
    BY <2>1, <2>2, <2>3 DEF AttemptInv, Named
<1> QED
  BY <1>16, <1>17, <1>18, <1>19, <1>20 DEF QuotaInv

\* The end of a call moves its attempt from one outcome to another.
LEMMA CallEndsStep ==
    ASSUME QuotaInv, NEW c \in Caller, NEW outcome \in Outcome \ {"RESERVED"}, CallEnds(c, outcome)
    PROVE  QuotaInv'
<1>1. PICK k \in Key : k = step[c].key /\ (Named(k) => k \in DOMAIN attempts)
  BY DEF QuotaInv, QuotaTypesInv, AttemptInv, CallEnds, Calling, IdleCaller, Limiting, Counting
<1>2. /\ step' = [step EXCEPT ![c] = IdleCaller]
      /\ UNCHANGED <<day, setting, usage, through, peak>>
  BY DEF CallEnds, IdleCaller
<1>3. IdleCaller.at = "idle" /\ \A b \in Caller : step'[b] = IF b = c THEN IdleCaller ELSE step[b]
  BY <1>2 DEF QuotaInv, QuotaTypesInv, IdleCaller
<1>4. \A j : CountOf(j)' = CountOf(j)
  BY <1>2 DEF CountOf
<1>5. PICK new \in [Key -> [Outcome -> Int]] :
        /\ \A j \in Key : AllOf(new[j]) = Attributed(j)
        /\ DOMAIN attempts' = DOMAIN attempts
        /\ \A j \in DOMAIN attempts : attempts'[j] = new[j]
        /\ \A j \in Key \ DOMAIN attempts : new[j] = AttemptsOf(j)
        /\ attempts' = [j \in DOMAIN attempts' |-> attempts'[j]]
  <2> DEFINE shifted(n) == [[n EXCEPT !["RESERVED"] = @ + (-1)] EXCEPT ![outcome] = @ + 1]
             all == [j \in Key |-> IF Named(k) /\ j = k THEN shifted(AttemptsOf(k)) ELSE AttemptsOf(j)]
  <2>1. ASSUME NEW n \in [Outcome -> Int]
        PROVE  shifted(n) \in [Outcome -> Int] /\ AllOf(shifted(n)) = AllOf(n)
    <3>1. "RESERVED" \in Outcome /\ outcome \in Outcome /\ -1 \in Int
      BY DEF Outcome
    <3>2. PICK m \in [Outcome -> Int] :
            m = [n EXCEPT !["RESERVED"] = @ + (-1)] /\ AllOf(m) = AllOf(n) + (-1)
      BY ONLY <3>1, Counted, n \in [Outcome -> Int], ZenonT(60)
    <3>3. [m EXCEPT ![outcome] = @ + 1] \in [Outcome -> Int] /\ AllOf([m EXCEPT ![outcome] = @ + 1]) = AllOf(m) + 1
      BY ONLY <3>1, Counted, m \in [Outcome -> Int], 1 \in Int, ZenonT(60)
    <3>4. shifted(n) = [m EXCEPT ![outcome] = @ + 1]
      BY <3>2, Zenon
    <3>5. AllOf(n) \in Int
      BY DEF AllOf, Outcome
    <3>6. AllOf(m) + 1 = AllOf(n)
      BY <3>2, <3>5
    <3> QED
      BY <3>3, <3>4, <3>6, Zenon
  <2>2. \A j : AttemptsOf(j) \in [Outcome -> Int] /\ Attributed(j) = AllOf(AttemptsOf(j))
    BY AttemptsTyped DEF QuotaInv
  <2>3. all \in [Key -> [Outcome -> Int]] /\ \A j \in Key : AllOf(all[j]) = Attributed(j)
    <3> HIDE DEF shifted
    <3> QED
      BY <2>1, <2>2
  <2>4. CASE Named(k)
    <3>1. attempts' = [attempts EXCEPT ![k] = shifted(attempts[k])]
      <4>1. attempts' = [attempts EXCEPT ![k]["RESERVED"] = @ - 1, ![k][outcome] = @ + 1]
        BY <1>1, <2>4 DEF CallEnds
      <4>2. attempts[k] \in [Outcome -> Int] /\ outcome \in Outcome /\ "RESERVED" \in Outcome
        BY <1>1, <2>4 DEF QuotaInv, QuotaTypesInv, Outcome
      <4>3. k \in DOMAIN attempts /\ attempts = [j \in DOMAIN attempts |-> attempts[j]]
        BY <1>1, <2>4 DEF QuotaInv, QuotaTypesInv
      <4> QED
        BY <4>1, <4>2, <4>3
    <3>2. AttemptsOf(k) = attempts[k] /\ \A j \in DOMAIN attempts : AttemptsOf(j) = attempts[j]
      BY <1>1, <2>4 DEF AttemptsOf
    <3>3. /\ DOMAIN attempts' = DOMAIN attempts
          /\ \A j \in DOMAIN attempts : attempts'[j] = IF j = k THEN shifted(attempts[k]) ELSE attempts[j]
          /\ attempts' = [j \in DOMAIN attempts' |-> attempts'[j]]
      <4> HIDE DEF shifted
      <4> QED
        BY <3>1 DEF QuotaInv, QuotaTypesInv
    <3>4. DOMAIN attempts \subseteq Key
      BY DEF QuotaInv, QuotaTypesInv
    <3>5. \A j \in DOMAIN attempts : attempts'[j] = all[j]
      <4> HIDE DEF shifted
      <4> QED
        BY <2>4, <3>2, <3>3, <3>4
    <3>6. \A j \in Key \ DOMAIN attempts : all[j] = AttemptsOf(j)
      <4> HIDE DEF shifted
      <4> QED
        BY <1>1, <2>4
    <3> HIDE DEF all
    <3> QED
      BY <2>3, <3>3, <3>5, <3>6
  <2>5. CASE ~Named(k)
    <3>1. attempts' = attempts
      BY <1>1, <2>5 DEF CallEnds
    <3>2. \A j \in DOMAIN attempts : AttemptsOf(j) = attempts[j] /\ j \in Key
      BY DEF AttemptsOf, QuotaInv, QuotaTypesInv
    <3>3. \A j \in Key : all[j] = AttemptsOf(j)
      BY <2>5
    <3>4. attempts' = [j \in DOMAIN attempts' |-> attempts'[j]]
      BY <3>1 DEF QuotaInv, QuotaTypesInv
    <3> HIDE DEF all
    <3> QED
      BY <2>3, <3>1, <3>2, <3>3, <3>4
  <2> QED
    BY <2>4, <2>5
<1>6. \A j \in Key : Attributed(j)' = Attributed(j)
  <2> SUFFICES ASSUME NEW j \in Key PROVE Attributed(j)' = Attributed(j)
    OBVIOUS
  <2>1. AttemptsOf(j)' = new[j]
    BY <1>5 DEF AttemptsOf
  <2>2. Attributed(j)' = AllOf(new[j])
    BY <2>1 DEF Attributed, AllOf
  <2> QED
    BY <1>5, <2>2
<1>7. QuotaTypesInv'
  <2>1. DOMAIN attempts' \subseteq Key /\ \A j \in DOMAIN attempts' : attempts'[j] \in [Outcome -> Int]
    BY <1>5 DEF QuotaInv, QuotaTypesInv
  <2> QED
    BY <1>2, <1>5, <2>1 DEF QuotaInv, QuotaTypesInv
<1>8. LockInv'
  BY <1>3, <1>4 DEF QuotaInv, LockInv
<1>9. LimitInv'
  BY <1>2, <1>3 DEF QuotaInv, LimitInv, LimitOf
<1>10. CountInv'
  BY <1>2, <1>4 DEF QuotaInv, CountInv
<1>11. AttemptInv'
  <2>1. \A j \in Key : Named(j) => CountOf(j)' = Attributed(j)'
    BY <1>4, <1>6 DEF QuotaInv, AttemptInv
  <2>2. \A b \in Caller : step'[b].at = "calling" /\ Named(step'[b].key) => step'[b].key \in DOMAIN attempts'
    BY <1>3, <1>5 DEF QuotaInv, AttemptInv
  <2> QED
    BY <2>1, <2>2 DEF AttemptInv, Named
<1> QED
  BY <1>7, <1>8, <1>9, <1>10, <1>11 DEF QuotaInv

\* A changed limit raises the peak if it is the highest so far.
LEMMA SetLimitStep ==
    ASSUME QuotaAssumption, QuotaInv, NEW a \in Api, NEW v \in Limits, SetLimit(a, v)
    PROVE  QuotaInv'
<1>1. PICK limit \in Int : limit = LimitOf(v)
  BY LimitIsInt
<1>2. peak[a] \in Int
  BY DEF QuotaInv, QuotaTypesInv
<1>3. PICK top \in Int : top = Max({peak[a], limit}) /\ limit <= top /\ peak[a] <= top
  BY <1>2, Larger
<1>4. /\ setting' = [setting EXCEPT ![a] = v] /\ peak' = [peak EXCEPT ![a] = top]
      /\ UNCHANGED <<day, usage, attempts, step, through>>
  BY <1>1, <1>3 DEF SetLimit
<1>5. \A b \in Api : setting'[b] = (IF b = a THEN v ELSE setting[b]) /\ peak'[b] = (IF b = a THEN top ELSE peak[b])
  BY <1>4 DEF QuotaInv, QuotaTypesInv
<1>6. \A b \in Api : peak[b] \in Int /\ peak[b] <= peak'[b]
  <2> SUFFICES ASSUME NEW b \in Api PROVE peak[b] \in Int /\ peak[b] <= peak'[b]
    OBVIOUS
  <2>1. peak[b] \in Int
    BY DEF QuotaInv, QuotaTypesInv
  <2> QED
    BY <1>3, <1>5, <2>1
<1>7. \A k : CountOf(k)' = CountOf(k) /\ Attributed(k)' = Attributed(k)
  BY <1>4 DEF CountOf, Attributed, AttemptsOf
<1>8. QuotaTypesInv'
  BY <1>4 DEF QuotaInv, QuotaTypesInv
<1>9. LockInv' /\ AttemptInv'
  BY <1>4, <1>7 DEF QuotaInv, LockInv, AttemptInv
<1>10. LimitInv'
  <2>1. ASSUME NEW b \in Api PROVE LimitOf(setting'[b]) <= peak'[b]
    <3>1. CASE b = a
      BY <1>1, <1>3, <1>5, <3>1
    <3>2. CASE b # a
      BY <1>5, <3>2 DEF QuotaInv, LimitInv
    <3> QED
      BY <3>1, <3>2
  <2>2. ASSUME NEW c \in Caller, step[c].at \in {"limit", "locked"}
        PROVE  step[c].limit <= peak'[step[c].key[2]]
    <3>1. step[c] \in Limiting \cup Counting
      BY <2>2 DEF QuotaInv, QuotaTypesInv, IdleCaller, Calling
    <3>2. PICK b \in Api, limit_ \in Int : b = step[c].key[2] /\ limit_ = step[c].limit
      BY <3>1 DEF Limiting, Counting, Key
    <3>3. limit_ <= peak[b]
      BY <2>2, <3>2 DEF QuotaInv, LimitInv
    <3>4. peak'[b] \in Int
      BY <1>3, <1>5, <1>6
    <3>5. limit_ <= peak'[b]
      BY <1>6, <3>3, <3>4
    <3> QED
      BY <3>2, <3>5
  <2> QED
    BY <1>4, <2>1, <2>2 DEF LimitInv, LimitOf
<1>11. CountInv'
  <2>1. ASSUME NEW k \in Key PROVE CountOf(k) <= peak'[k[2]]
    <3>1. PICK b \in Api, n \in Int : b = k[2] /\ n = CountOf(k)
      BY DEF CountOf, QuotaInv, QuotaTypesInv, Key
    <3>2. n <= peak[b]
      BY <3>1 DEF QuotaInv, CountInv
    <3>3. peak'[b] \in Int
      BY <1>3, <1>5, <1>6
    <3>4. n <= peak'[b]
      BY <1>6, <3>2, <3>3
    <3> QED
      BY <3>1, <3>4
  <2> QED
    BY <1>4, <1>7, <2>1 DEF QuotaInv, CountInv
<1> QED
  BY <1>8, <1>9, <1>10, <1>11 DEF QuotaInv

----------------------------------------------------------------------------
\* Every step keeps the invariant.
LEMMA QuotaInvStep == ASSUME QuotaAssumption, QuotaInv, [QuotaNext]_quotaVars PROVE QuotaInv'
<1>1. ASSUME NEW c \in Caller, NEW name \in Names, NEW n \in {1, 2}, ReserveBegins(c, name, n)
      PROVE  QuotaInv'
  BY <1>1, ReserveBeginsStep
<1>2. ASSUME NEW c \in Caller, LockRow(c) \/ Reserve(c) \/ Refuse(c) \/ CallerDies(c)
      PROVE  QuotaInv'
  BY <1>2, LockRowStep, ReserveStep, GivesUpStep
<1>3. ASSUME NEW c \in Caller, NEW o \in Outcome \ {"RESERVED"}, CallEnds(c, o)
      PROVE  QuotaInv'
  BY <1>3, CallEndsStep
<1>4. ASSUME NEW a \in Api, NEW v \in Limits, SetLimit(a, v)
      PROVE  QuotaInv'
  BY <1>4, SetLimitStep
<1>5. ASSUME Midnight \/ UNCHANGED quotaVars
      PROVE  QuotaInv'
  <2>1. day' \in Day /\ UNCHANGED <<setting, usage, attempts, step, through, peak>>
    BY <1>5 DEF Midnight, quotaVars, QuotaInv, QuotaTypesInv
  <2>2. \A k : CountOf(k)' = CountOf(k) /\ Attributed(k)' = Attributed(k)
    BY <2>1 DEF CountOf, Attributed, AttemptsOf
  <2> QED
    BY <2>1, <2>2 DEF QuotaInv, QuotaTypesInv, LockInv, LimitInv, LimitOf, CountInv, AttemptInv
<1> QED
  BY <1>1, <1>2, <1>3, <1>4, <1>5 DEF QuotaNext

LEMMA QuotaInvariance == ASSUME QuotaAssumption PROVE QuotaSpec => []QuotaInv
<1>1. QuotaInv /\ [QuotaNext]_quotaVars => QuotaInv'
  BY QuotaInvStep
<1> QED
  BY <1>1, QuotaInitInv, PTL DEF QuotaSpec

\* Whoever reserves, dies, runs past midnight or meets a changed limit: a day's count is the
\* number of calls let through on it, no more than the highest limit that was in force, and
\* every Trading call is attributed (reserve_calls(), finish_attempt()).
THEOREM QuotaIsKept == ASSUME QuotaAssumption PROVE QuotaSpec => []QuotaKept
<1>1. ASSUME QuotaInv PROVE QuotaKept
  <2>1. usage = through /\ DOMAIN usage \subseteq Key /\ \A k \in DOMAIN usage : usage[k] <= peak[k[2]]
    BY <1>1 DEF QuotaInv, QuotaTypesInv, CountInv, CountOf
  <2>2. ASSUME NEW d \in Day PROVE Unattributed(d) = 0
    <3>1. <<d, "bestseller">> \in Key /\ Named(<<d, "bestseller">>)
      BY DEF Key, Api, Named
    <3>2. PICK n \in Int : n = CountOf(<<d, "bestseller">>)
      BY <1>1 DEF CountOf, QuotaInv, QuotaTypesInv
    <3>3. n = Attributed(<<d, "bestseller">>)
      BY <1>1, <3>1, <3>2 DEF QuotaInv, AttemptInv
    <3>4. Max({0, n - n}) = 0
      BY 0 \in Int, n - n = 0, Larger
    <3> QED
      BY <3>2, <3>3, <3>4 DEF Unattributed
  <2>3. ASSUME NEW k \in DOMAIN usage PROVE Unattributed(k[1]) = 0
    BY <2>1, <2>2 DEF Key
  <2> QED
    BY <2>1, <2>3 DEF QuotaKept
<1> QED
  BY <1>1, QuotaInvariance, PTL

(***************************************************************************)
(* Sessions (AuthSessions): no session outlives the reset that ends it.    *)
(***************************************************************************)
\* What the columns and the requests hold.
Token == [user : User, active : BOOLEAN, period : Nat, late : BOOLEAN]
Reader ==
    [at : {"read"}, user : User, token : {0}]
        \cup [at : {"read"}, user : User, token : Nat \ {0}, late : BOOLEAN, period : Nat]
Locking ==
    [at : {"locked"}, user : User, token : Nat, date : 0..Days, known : BOOLEAN,
     late : BOOLEAN, period : Nat]

SessionTypesInv ==
    /\ DOMAIN users \subseteq User
    /\ \E n \in Nat : tokens \in [1..n -> Token]
    /\ \A r \in resets : r.user \in User
    /\ period \in [User -> Nat]
    /\ handling \in [Worker -> {Free} \cup Reader \cup Locking]
    /\ \A w \in Worker : handling[w] # Free => handling[w].token \in DOMAIN tokens \cup {0}
    /\ date \in 0..Days
    /\ logins \in [User \X (0..Days) -> Nat]

\* No active token is of an earlier period, but those of a refresh that was under way.
TokensInv ==
    \A i \in DOMAIN tokens :
        tokens[i].active /\ ~tokens[i].late => tokens[i].period = period[tokens[i].user]

\* One request holds the lock of a user's day, and what it knows of the day is still so.
DayInv ==
    /\ \A v, w \in Worker :
         /\ handling[v].at = "locked" /\ handling[w].at = "locked"
         /\ handling[v].user = handling[w].user /\ handling[v].date = handling[w].date
         => v = w
    /\ \A w \in Worker : handling[w].at = "locked" /\ ~handling[w].known
         => logins[<<handling[w].user, handling[w].date>>] = 0
    /\ \A k \in User \X (0..Days) : logins[k] <= 1

SessionsInv == SessionTypesInv /\ TokensInv /\ DayInv

----------------------------------------------------------------------------
\* Issuing a token appends it.
LEMMA Issuing ==
    ASSUME NEW n \in Nat, tokens \in [1..n -> Token],
           NEW u \in User, NEW p \in Nat, NEW late \in BOOLEAN
    PROVE  /\ NextToken = n + 1
           /\ Issue(u, p, late) \in [1..n + 1 -> Token]
           /\ Issue(u, p, late)[n + 1] = [user |-> u, active |-> TRUE, period |-> p, late |-> late]
           /\ \A i \in 1..n : Issue(u, p, late)[i] = tokens[i]
<1>1. NextToken = n + 1
  <2>1. DOMAIN tokens = 1..n
    OBVIOUS
  <2>2. Cardinality(1..n) = n
    BY FS_Interval
  <2> QED
    BY <2>1, <2>2 DEF NextToken
<1> QED
  BY <1>1 DEF Issue, Token

\* Revoking a user's tokens touches nothing but their flag.
LEMMA Revoking ==
    ASSUME NEW n \in Nat, tokens \in [1..n -> Token], NEW u \in User
    PROVE  /\ RevokeAll(u) \in [1..n -> Token]
           /\ \A i \in 1..n :
                /\ RevokeAll(u)[i].user = tokens[i].user
                /\ RevokeAll(u)[i].late = tokens[i].late
                /\ RevokeAll(u)[i].period = tokens[i].period
                /\ RevokeAll(u)[i].active => tokens[i].active /\ tokens[i].user # u
BY DEF RevokeAll, Token

\* At the start there is nothing.
LEMMA SessionsInitInv == ASSUME AuthAssumption, AuthInit PROVE SessionsInv
<1>1. tokens \in [1..0 -> Token] /\ tokens = <<>>
  BY DEF AuthInit
<1>2. date \in 0..Days
  BY DEF AuthInit, AuthAssumption
<1>3. \A w \in Worker : handling[w] = Free /\ handling[w].at = "free"
  BY DEF AuthInit, Free
<1>4. SessionTypesInv
  <2>1. \E n \in Nat : tokens \in [1..n -> Token]
    BY <1>1
  <2>2. handling \in [Worker -> {Free} \cup Reader \cup Locking]
    BY DEF AuthInit
  <2> QED
    BY <1>1, <1>2, <1>3, <2>1, <2>2 DEF AuthInit, SessionTypesInv
<1>5. TokensInv
  BY <1>1 DEF TokensInv
<1>6. DayInv
  BY <1>3 DEF AuthInit, DayInv
<1> QED
  BY <1>4, <1>5, <1>6 DEF SessionsInv

----------------------------------------------------------------------------
\* A step that leaves the tokens and the requests alone keeps the invariant.
LEMMA OnlyUsers ==
    ASSUME SessionsInv, UNCHANGED <<tokens, period, handling, date, logins>>,
           DOMAIN users' \subseteq User, \A r \in resets' : r.user \in User
    PROVE  SessionsInv'
BY DEF SessionsInv, SessionTypesInv, TokensInv, DayInv

\* A step that replaces the tokens by as many well typed ones keeps the types.
LEMMA SameTokens ==
    ASSUME SessionTypesInv, NEW n \in Nat, tokens \in [1..n -> Token], tokens' \in [1..n -> Token],
           UNCHANGED <<handling, date, logins>>, DOMAIN users' \subseteq User,
           \A r \in resets' : r.user \in User, period' \in [User -> Nat]
    PROVE  SessionTypesInv'
<1>1. DOMAIN tokens' = DOMAIN tokens
  OBVIOUS
<1> QED
  BY <1>1 DEF SessionTypesInv

\* Tokens that lose their flag in a step that raises no period leave no session behind.
LEMMA Spent ==
    ASSUME SessionsInv, NEW i \in DOMAIN tokens, tokens' = [tokens EXCEPT ![i].active = FALSE],
           UNCHANGED <<users, resets, period, handling, date, logins>>
    PROVE  SessionsInv'
<1>1. PICK n \in Nat : tokens \in [1..n -> Token]
  BY DEF SessionsInv, SessionTypesInv
<1>2. tokens' \in [1..n -> Token]
  BY <1>1 DEF Token
<1>3. SessionTypesInv'
  BY <1>1, <1>2, SameTokens DEF SessionsInv, SessionTypesInv
<1>4. TokensInv'
  BY <1>1 DEF SessionsInv, TokensInv, Token
<1>5. DayInv'
  BY DEF SessionsInv, DayInv
<1> QED
  BY <1>3, <1>4, <1>5 DEF SessionsInv

\* What ends a period revokes the tokens of that user.
LEMMA PeriodEnds ==
    ASSUME SessionsInv, NEW u \in User, tokens' = RevokeAll(u),
           period' = [period EXCEPT ![u] = @ + 1],
           UNCHANGED <<handling, date, logins>>, DOMAIN users' \subseteq User,
           \A r \in resets' : r.user \in User
    PROVE  SessionsInv'
<1>1. PICK n \in Nat : tokens \in [1..n -> Token]
  BY DEF SessionsInv, SessionTypesInv
<1>2. /\ tokens' \in [1..n -> Token]
      /\ \A i \in 1..n : /\ tokens'[i].user = tokens[i].user
                         /\ tokens'[i].late = tokens[i].late
                         /\ tokens'[i].period = tokens[i].period
                         /\ tokens'[i].active => tokens[i].active /\ tokens[i].user # u
  BY <1>1, Revoking
<1>3. period' \in [User -> Nat]
  BY DEF SessionsInv, SessionTypesInv
<1>4. SessionTypesInv'
  BY <1>1, <1>2, <1>3, SameTokens DEF SessionsInv
<1>5. TokensInv'
  <2> SUFFICES ASSUME NEW i \in 1..n, tokens'[i].active, ~tokens'[i].late
               PROVE  tokens'[i].period = period'[tokens'[i].user]
    BY <1>2 DEF TokensInv
  <2>1. tokens[i].period = period[tokens[i].user]
    BY <1>1, <1>2 DEF SessionsInv, TokensInv
  <2>2. period'[tokens[i].user] = period[tokens[i].user]
    BY <1>1, <1>2 DEF SessionsInv, SessionTypesInv, Token
  <2> QED
    BY <1>2, <2>1, <2>2
<1>6. DayInv'
  BY DEF SessionsInv, DayInv
<1> QED
  BY <1>4, <1>5, <1>6 DEF SessionsInv

----------------------------------------------------------------------------
\* A login issues a token of the present period.
LEMMA LoginStep ==
    ASSUME SessionsInv, NEW u \in User, NEW password \in Password, Login(u, password)
    PROVE  SessionsInv'
<1>1. PICK n \in Nat : tokens \in [1..n -> Token]
  BY DEF SessionsInv, SessionTypesInv
<1>2. period[u] \in Nat
  BY DEF SessionsInv, SessionTypesInv
<1>3. /\ tokens' \in [1..n + 1 -> Token]
      /\ tokens'[n + 1] = [user |-> u, active |-> TRUE, period |-> period[u], late |-> FALSE]
      /\ \A i \in 1..n : tokens'[i] = tokens[i]
  <2>1. tokens' = Issue(u, period[u], FALSE)
    BY DEF Login
  <2>2. PICK p \in Nat : p = period[u]
    BY <1>2
  <2>3. /\ Issue(u, p, FALSE) \in [1..n + 1 -> Token]
        /\ Issue(u, p, FALSE)[n + 1] = [user |-> u, active |-> TRUE, period |-> p, late |-> FALSE]
        /\ \A i \in 1..n : Issue(u, p, FALSE)[i] = tokens[i]
    <3>1. FALSE \in BOOLEAN
      OBVIOUS
    <3> QED
      BY ONLY <1>1, <3>1, n \in Nat, u \in User, p \in Nat, Issuing, Zenon
  <2> QED
    BY ONLY <2>1, <2>2, <2>3, Zenon
<1>4. SessionTypesInv'
  <2>1. \E m \in Nat : tokens' \in [1..m -> Token]
    BY <1>3, n + 1 \in Nat
  <2>2. DOMAIN tokens \subseteq DOMAIN tokens'
    BY <1>1, <1>3
  <2> QED
    BY <2>1, <2>2 DEF SessionsInv, SessionTypesInv, Login
<1>5. TokensInv'
  <2> SUFFICES ASSUME NEW i \in 1..n + 1, tokens'[i].active, ~tokens'[i].late
               PROVE  tokens'[i].period = period[tokens'[i].user]
    BY <1>3 DEF TokensInv, Login
  <2>1. CASE i = n + 1
    BY <1>3, <2>1
  <2>2. CASE i \in 1..n
    BY <1>1, <1>3, <2>2 DEF SessionsInv, TokensInv
  <2> QED
    BY <2>1, <2>2
<1>6. DayInv'
  BY DEF SessionsInv, DayInv, Login
<1> QED
  BY <1>4, <1>5, <1>6 DEF SessionsInv

\* Reader a token or a user starts a request that holds no lock.
LEMMA ReadStep ==
    ASSUME SessionsInv, NEW w \in Worker, NEW h \in Reader, h.token \in DOMAIN tokens \cup {0},
           handling' = [handling EXCEPT ![w] = h],
           UNCHANGED <<users, tokens, resets, period, date, logins>>
    PROVE  SessionsInv'
<1>1. h.at = "read" /\ h # Free
  BY DEF Reader, Free
<1>2. handling' \in [Worker -> {Free} \cup Reader \cup Locking]
  BY DEF SessionsInv, SessionTypesInv
<1>3. \A v \in Worker : handling'[v] = IF v = w THEN h ELSE handling[v]
  BY DEF SessionsInv, SessionTypesInv
<1>4. SessionTypesInv'
  BY <1>2, <1>3 DEF SessionsInv, SessionTypesInv
<1>5. TokensInv'
  BY DEF SessionsInv, TokensInv
<1>6. DayInv'
  BY <1>1, <1>3 DEF SessionsInv, DayInv
<1> QED
  BY <1>4, <1>5, <1>6 DEF SessionsInv

LEMMA RefreshReadsStep ==
    ASSUME SessionsInv, NEW w \in Worker, NEW i \in 1..MaxTokens, RefreshReads(w, i)
    PROVE  SessionsInv'
<1>1. PICK n \in Nat : tokens \in [1..n -> Token]
  BY DEF SessionsInv, SessionTypesInv
<1>2. i \in 1..n /\ tokens[i].user \in User /\ tokens[i].late \in BOOLEAN
  BY <1>1 DEF RefreshReads, Token
<1> DEFINE h == [at |-> "read", user |-> tokens[i].user, token |-> i, late |-> tokens[i].late,
                 period |-> period[tokens[i].user]]
<1>3. h \in Reader
  BY <1>2 DEF SessionsInv, SessionTypesInv, Reader
<1>4. h.token \in DOMAIN tokens
  BY <1>1, <1>2
<1>5. /\ handling' = [handling EXCEPT ![w] = h]
      /\ UNCHANGED <<users, tokens, resets, period, date, logins>>
  BY DEF RefreshReads
<1> HIDE DEF h
<1> QED
  BY <1>3, <1>4, <1>5, ReadStep

LEMMA MeReadsStep ==
    ASSUME SessionsInv, NEW w \in Worker, NEW u \in User, MeReads(w, u)
    PROVE  SessionsInv'
<1>1. [at |-> "read", user |-> u, token |-> 0] \in Reader
  BY DEF Reader
<1> QED
  BY <1>1, ReadStep DEF MeReads

\* The lock is taken when nobody has it, and the day looked up under it.
LEMMA LockDayStep ==
    ASSUME SessionsInv, NEW w \in Worker, LockDay(w)
    PROVE  SessionsInv'
<1>1. PICK h \in {handling[w]} : h = handling[w]
  OBVIOUS
<1>2. h \in Reader /\ h # Free
  BY <1>1 DEF SessionsInv, SessionTypesInv, LockDay, Free, Locking
<1>3. /\ h.user \in User /\ h.token \in Nat
      /\ h.token # 0 => h.late \in BOOLEAN /\ h.period \in Nat
  BY <1>2 DEF Reader
<1>4. PICK g \in Locking :
        /\ handling' = [handling EXCEPT ![w] = g]
        /\ g.at = "locked" /\ g.user = h.user /\ g.token = h.token /\ g.date = date
        /\ ~g.known => ~(logins[<<h.user, date>>] # 0)
  <2>1. PICK late \in BOOLEAN : late = IF h.token = 0 THEN FALSE ELSE h.late
    BY <1>3
  <2>2. PICK p \in Nat : p = IF h.token = 0 THEN 0 ELSE h.period
    BY <1>3
  <2>3. PICK known \in BOOLEAN : known = (logins[<<h.user, date>>] # 0)
    BY Zenon
  <2> DEFINE g == [at |-> "locked", user |-> h.user, token |-> h.token, date |-> date,
                   known |-> known, late |-> late, period |-> p]
  <2>4. date \in 0..Days
    BY DEF SessionsInv, SessionTypesInv
  <2>5. g \in Locking
    BY <1>3, <2>4 DEF Locking
  <2>6. handling' = [handling EXCEPT ![w] = g]
    BY <1>1, <2>1, <2>2, <2>3 DEF LockDay
  <2>7. ~g.known => ~(logins[<<h.user, date>>] # 0)
    BY <2>3, Zenon
  <2>8. g.at = "locked" /\ g.user = h.user /\ g.token = h.token /\ g.date = date
    OBVIOUS
  <2> HIDE DEF g
  <2> QED
    BY <2>5, <2>6, <2>7, <2>8
<1>5. \A v \in Worker : handling'[v] = IF v = w THEN g ELSE handling[v]
  BY <1>4 DEF SessionsInv, SessionTypesInv
<1>6. SessionTypesInv'
  <2>1. h.token \in DOMAIN tokens \cup {0}
    BY <1>1, <1>2 DEF SessionsInv, SessionTypesInv
  <2>2. handling' \in [Worker -> {Free} \cup Reader \cup Locking]
    BY <1>4 DEF SessionsInv, SessionTypesInv
  <2> QED
    BY <1>4, <1>5, <2>1, <2>2 DEF SessionsInv, SessionTypesInv, LockDay
<1>7. TokensInv'
  BY DEF SessionsInv, TokensInv, LockDay
<1>8. DayInv'
  <2>1. \A v \in Worker \ {w} : ~(handling[v].at = "locked" /\ handling[v].user = h.user
                                   /\ handling[v].date = date)
    BY <1>1 DEF LockDay, DayLocked
  <2>2. ~g.known => logins[<<g.user, g.date>>] = 0
    <3>1. logins[<<h.user, date>>] \in Nat
      BY <1>3 DEF SessionsInv, SessionTypesInv
    <3> QED
      BY <1>4, <3>1
  <2>3. logins' = logins
    BY DEF LockDay
  <2> QED
    BY <1>4, <1>5, <2>1, <2>2, <2>3 DEF SessionsInv, DayInv
<1> QED
  BY <1>6, <1>7, <1>8 DEF SessionsInv

\* A day is recorded under its lock, and the lock given up.
LEMMA DayRecorded ==
    ASSUME SessionsInv, NEW w \in Worker, handling[w].at = "locked",
           logins' = RecordDay(handling[w]), handling' = [handling EXCEPT ![w] = Free],
           UNCHANGED date
    PROVE  /\ handling' \in [Worker -> {Free} \cup Reader \cup Locking]
           /\ \A v \in Worker : handling'[v] = IF v = w THEN Free ELSE handling[v]
           /\ logins' \in [User \X (0..Days) -> Nat]
           /\ DayInv'
<1>1. PICK h \in Locking : h = handling[w]
  BY DEF SessionsInv, SessionTypesInv, Free, Reader
<1>2. h.user \in User /\ h.date \in 0..Days /\ h.at = "locked"
  BY <1>1 DEF Locking
<1>3. PICK k \in User \X (0..Days) : k = <<h.user, h.date>>
  BY <1>2
<1>4. logins' = IF h.known THEN logins ELSE [logins EXCEPT ![k] = @ + 1]
  BY <1>1, <1>3 DEF RecordDay
<1>5. /\ handling' \in [Worker -> {Free} \cup Reader \cup Locking]
      /\ \A v \in Worker : handling'[v] = IF v = w THEN Free ELSE handling[v]
  BY DEF SessionsInv, SessionTypesInv
<1>6. logins \in [User \X (0..Days) -> Nat]
  BY DEF SessionsInv, SessionTypesInv
<1>7. logins' \in [User \X (0..Days) -> Nat]
  BY <1>4, <1>6
<1>8. ~h.known => logins[k] = 0
  BY <1>1, <1>2, <1>3 DEF SessionsInv, DayInv
<1>9. DayInv'
  <2>1. Free.at = "free"
    BY DEF Free
  <2>2. ASSUME NEW v \in Worker, handling'[v].at = "locked", ~handling'[v].known
        PROVE  logins'[<<handling'[v].user, handling'[v].date>>] = 0
    <3>1. v # w /\ handling'[v] = handling[v]
      BY <1>5, <2>1, <2>2
    <3>2. PICK j \in User \X (0..Days) : j = <<handling[v].user, handling[v].date>>
      <4>1. handling[v] \in Locking
        BY <2>2, <3>1 DEF SessionsInv, SessionTypesInv, Free, Reader
      <4> QED
        BY <4>1 DEF Locking
    <3>3. j # k
      BY <1>1, <1>2, <1>3, <2>2, <3>1, <3>2 DEF SessionsInv, DayInv
    <3>4. logins[j] = 0
      BY <2>2, <3>1, <3>2 DEF SessionsInv, DayInv
    <3>5. logins'[j] = logins[j]
      BY <1>4, <1>6, <3>3
    <3> QED
      BY <3>1, <3>2, <3>4, <3>5
  <2>3. \A j \in User \X (0..Days) : logins'[j] <= 1
    BY <1>4, <1>6, <1>8 DEF SessionsInv, DayInv
  <2>4. \A u, v \in Worker :
          /\ handling'[u].at = "locked" /\ handling'[v].at = "locked"
          /\ handling'[u].user = handling'[v].user /\ handling'[u].date = handling'[v].date
          => u = v
    BY <1>5, <2>1 DEF SessionsInv, DayInv
  <2> QED
    BY <2>2, <2>3, <2>4 DEF DayInv
<1> QED
  BY <1>5, <1>7, <1>9

LEMMA MeEndsStep ==
    ASSUME SessionsInv, NEW w \in Worker, MeEnds(w)
    PROVE  SessionsInv'
<1>1. /\ handling' \in [Worker -> {Free} \cup Reader \cup Locking]
      /\ \A v \in Worker : handling'[v] = IF v = w THEN Free ELSE handling[v]
      /\ logins' \in [User \X (0..Days) -> Nat]
      /\ DayInv'
  BY DayRecorded DEF MeEnds
<1>2. SessionTypesInv'
  BY <1>1 DEF SessionsInv, SessionTypesInv, MeEnds
<1>3. TokensInv'
  BY DEF SessionsInv, TokensInv, MeEnds
<1> QED
  BY <1>1, <1>2, <1>3 DEF SessionsInv

\* The successor of a token is of the period in which the token was read, and is marked
\* late when that is over.
LEMMA RefreshEndsStep ==
    ASSUME SessionsInv, NEW w \in Worker, RefreshEnds(w)
    PROVE  SessionsInv'
<1>1. /\ handling' \in [Worker -> {Free} \cup Reader \cup Locking]
      /\ \A v \in Worker : handling'[v] = IF v = w THEN Free ELSE handling[v]
      /\ logins' \in [User \X (0..Days) -> Nat]
      /\ DayInv'
  BY DayRecorded DEF RefreshEnds
<1>2. PICK h \in Locking : h = handling[w]
  BY DEF SessionsInv, SessionTypesInv, Free, Reader, RefreshEnds
<1>3. /\ h.user \in User /\ h.period \in Nat /\ h.late \in BOOLEAN
      /\ h.token # 0 /\ handling[w] # Free
  BY <1>2 DEF Locking, RefreshEnds, Free
<1>4. PICK n \in Nat : tokens \in [1..n -> Token]
  BY DEF SessionsInv, SessionTypesInv
<1>5. h.token \in 1..n
  BY <1>2, <1>3, <1>4 DEF SessionsInv, SessionTypesInv
<1>6. PICK late \in BOOLEAN : late = (h.late \/ h.period # period[h.user])
  BY Zenon
<1>7. late \/ h.period = period[h.user]
  BY <1>6, Zenon
<1>8. PICK u \in User, p \in Nat : u = h.user /\ p = h.period
  BY <1>3
<1>9. PICK given \in [1..n + 1 -> Token] :
        /\ tokens' = [given EXCEPT ![h.token].active = FALSE]
        /\ given[n + 1] = [user |-> u, active |-> TRUE, period |-> p, late |-> late]
        /\ \A i \in 1..n : given[i] = tokens[i]
  <2>1. /\ Issue(u, p, late) \in [1..n + 1 -> Token]
        /\ Issue(u, p, late)[n + 1] = [user |-> u, active |-> TRUE, period |-> p, late |-> late]
        /\ \A i \in 1..n : Issue(u, p, late)[i] = tokens[i]
    BY ONLY <1>4, n \in Nat, u \in User, p \in Nat, late \in BOOLEAN, Issuing, Zenon
  <2>2. tokens' = [Issue(u, p, late) EXCEPT ![h.token].active = FALSE]
    BY <1>2, <1>6, <1>8, Zenon DEF RefreshEnds
  <2> QED
    BY <2>1, <2>2, Zenon
<1>10. tokens' \in [1..n + 1 -> Token]
  BY <1>5, <1>9 DEF Token
<1>11. \A i \in 1..n + 1 : /\ tokens'[i].user = given[i].user
                           /\ tokens'[i].late = given[i].late
                           /\ tokens'[i].period = given[i].period
                           /\ tokens'[i].active => given[i].active
  BY <1>5, <1>9 DEF Token
<1>12. SessionTypesInv'
  <2>1. \E m \in Nat : tokens' \in [1..m -> Token]
    BY <1>10, n + 1 \in Nat
  <2>2. DOMAIN tokens \subseteq DOMAIN tokens'
    BY <1>4, <1>10
  <2>3. \A v \in Worker : handling'[v] # Free => handling'[v].token \in DOMAIN tokens' \cup {0}
    BY <1>1, <2>2 DEF SessionsInv, SessionTypesInv
  <2> QED
    BY <1>1, <2>1, <2>3 DEF SessionsInv, SessionTypesInv, RefreshEnds
<1>13. TokensInv'
  <2> SUFFICES ASSUME NEW i \in 1..n + 1, tokens'[i].active, ~tokens'[i].late
               PROVE  tokens'[i].period = period[tokens'[i].user]
    <3>1. DOMAIN tokens' = 1..n + 1
      BY <1>10
    <3>2. period' = period
      BY Zenon DEF RefreshEnds
    <3> QED
      BY <3>1, <3>2, Zenon DEF TokensInv
  <2>1. CASE i = n + 1
    BY <1>7, <1>8, <1>9, <1>11, <2>1
  <2>2. CASE i \in 1..n
    BY <1>4, <1>9, <1>11, <2>2 DEF SessionsInv, TokensInv
  <2> QED
    BY <2>1, <2>2
<1> QED
  BY <1>1, <1>12, <1>13 DEF SessionsInv

----------------------------------------------------------------------------
\* Every step keeps the invariant.
LEMMA SessionsInvStep == ASSUME AuthAssumption, SessionsInv, [AuthNext]_authVars PROVE SessionsInv'
<1>1. ASSUME NEW u \in User, NEW e \in Email, NEW p \in Password, CreateUser(u, e, p)
      PROVE  SessionsInv'
  BY <1>1, OnlyUsers DEF CreateUser, SessionsInv, SessionTypesInv
<1>2. ASSUME NEW u \in User, NEW e \in Email, NEW b \in BOOLEAN, UpdateUser(u, e, b)
      PROVE  SessionsInv'
  BY <1>2, OnlyUsers DEF UpdateUser, SessionsInv, SessionTypesInv
<1>3. ASSUME NEW u \in User, NEW b \in BOOLEAN, SetUserActive(u, b)
      PROVE  SessionsInv'
  BY <1>3, OnlyUsers DEF SetUserActive, SessionsInv, SessionTypesInv
<1>4. ASSUME NEW u \in User, DeleteUser(u)
      PROVE  SessionsInv'
  BY <1>4, PeriodEnds DEF DeleteUser, SessionsInv, SessionTypesInv
<1>5. ASSUME NEW u \in User, RequestPasswordReset(u)
      PROVE  SessionsInv'
  <2>1. \A r \in resets' : r.user \in User
    BY <1>5 DEF RequestPasswordReset, SessionsInv, SessionTypesInv
  <2>2. DOMAIN users' \subseteq User
    BY <1>5 DEF RequestPasswordReset, SessionsInv, SessionTypesInv
  <2> QED
    BY <1>5, <2>1, <2>2, OnlyUsers DEF RequestPasswordReset
<1>6. ASSUME NEW u \in User, NEW p \in Password, Login(u, p)
      PROVE  SessionsInv'
  BY <1>6, LoginStep
<1>7. ASSUME NEW w \in Worker, NEW i \in 1..MaxTokens, RefreshReads(w, i)
      PROVE  SessionsInv'
  BY <1>7, RefreshReadsStep
<1>8. ASSUME NEW w \in Worker, NEW u \in User, MeReads(w, u)
      PROVE  SessionsInv'
  BY <1>8, MeReadsStep
<1>9. ASSUME NEW w \in Worker, LockDay(w) \/ MeEnds(w) \/ RefreshEnds(w)
      PROVE  SessionsInv'
  BY <1>9, LockDayStep, MeEndsStep, RefreshEndsStep
<1>10. ASSUME NEW i \in 1..MaxTokens, RefreshRefused(i) \/ Logout(i)
       PROVE  SessionsInv'
  BY <1>10, Spent DEF RefreshRefused, Logout
<1>11. ASSUME NEW r \in resets, NEW p \in Password, ResetPassword(r, p)
       PROVE  SessionsInv'
  <2>1. r.user \in User
    BY DEF SessionsInv, SessionTypesInv
  <2>2. [r EXCEPT !.used = TRUE].user = r.user
    OBVIOUS
  <2>3. \A x \in resets' : x.user \in User
    BY <1>11, <2>1, <2>2 DEF ResetPassword, SessionsInv, SessionTypesInv
  <2>4. DOMAIN users' \subseteq User
    BY <1>11 DEF ResetPassword, SessionsInv, SessionTypesInv
  <2>5. PICK u \in User : u = r.user
    BY <2>1
  <2> QED
    BY <1>11, <2>3, <2>4, <2>5, PeriodEnds DEF ResetPassword
<1>12. ASSUME NextDay
       PROVE  SessionsInv'
  <2>1. date' \in 0..Days
    BY <1>12 DEF NextDay, SessionsInv, SessionTypesInv, AuthAssumption
  <2>2. UNCHANGED <<users, tokens, resets, period, handling, logins>>
    BY <1>12 DEF NextDay
  <2>3. SessionTypesInv'
    BY <2>1, <2>2 DEF SessionsInv, SessionTypesInv
  <2>4. TokensInv' /\ DayInv'
    BY <2>2 DEF SessionsInv, TokensInv, DayInv
  <2> QED
    BY <2>3, <2>4 DEF SessionsInv
<1>13. CASE UNCHANGED authVars
  BY <1>13 DEF authVars, SessionsInv, SessionTypesInv, TokensInv, DayInv
<1> QED
  BY <1>1, <1>2, <1>3, <1>4, <1>5, <1>6, <1>7, <1>8, <1>9, <1>10, <1>11, <1>12, <1>13 DEF AuthNext

LEMMA SessionsInvariance == ASSUME AuthAssumption PROVE AuthSpec => []SessionsInv
<1>1. SessionsInv /\ [AuthNext]_authVars => SessionsInv'
  BY SessionsInvStep
<1> QED
  BY <1>1, SessionsInitInv, PTL DEF AuthSpec

\* Once a password is reset or a user deleted, no earlier session goes on unless its refresh
\* was already under way (reset_password(), refresh()), and a restored session is recorded
\* once per user and day (record_daily_login()): for any number of users, tokens, requests
\* at once and days.
THEOREM NoSessionOutlivesItsPeriod == ASSUME AuthAssumption PROVE AuthSpec => []SessionsEnd
<1>1. SessionsInv => SessionsEnd
  BY DEF SessionsInv, SessionTypesInv, TokensInv, DayInv, SessionsEnd
<1> QED
  BY <1>1, SessionsInvariance, PTL

(***************************************************************************)
(* eBay accounts (EbayAccounts): a read that has grown old keeps the name  *)
(* of the row unless an operator renames it, a save writes only the        *)
(* columns it changed, and a grant is stored for the matching user.        *)
(***************************************************************************)
\* Unless its username was changed under it, an account has nothing but what its user granted.
Mine(t, name) == t # Null => t.of = name
RowFits(x) ==
    /\ DOMAIN x = DOMAIN NewAccount(Null)
    /\ x.username \in Seller /\ x.user \in {Null, x.username}
    /\ Mine(x.access, x.username) /\ Mine(x.refresh, x.username)
    /\ x.access # Null \/ x.refresh # Null => x.user # Null
Follows(old, x) ==
    /\ RowFits(old) /\ old.username = x.username
    /\ old.user # Null => x.user # Null
Grew(x, y) == RowFits(y) /\ y.username = x.username /\ (x.user # Null => y.user # Null)
Fits(f, x) ==
    /\ f.op \in {"callback", "refresh"}
    /\ Follows(f.old, x)
    /\ f.op = "refresh" => f.old.refresh # Null
FlightInv ==
    /\ DOMAIN flight = Handler
    /\ \A w \in Handler : flight[w].op # Null =>
         /\ flight[w].row \in DOMAIN accounts \cup deleted
         /\ flight[w].row \in DOMAIN accounts \ renamed => Fits(flight[w], accounts[flight[w].row])
AccountRowsInv == \A a \in DOMAIN accounts \ renamed : RowFits(accounts[a])
AccountsInv == AccountRowsInv /\ FlightInv

LEMMA Kept ==
    ASSUME AccountsInv, NEW a \in DOMAIN accounts, NEW y, a \notin renamed => Grew(accounts[a], y),
           accounts' = [accounts EXCEPT ![a] = y], UNCHANGED <<deleted, renamed>>,
           DOMAIN flight' = Handler,
           \A w \in Handler : flight'[w] \in {flight[w], Idle}
    PROVE  AccountsInv'
<1>1. DOMAIN accounts' = DOMAIN accounts /\ accounts'[a] = y
      /\ \A b \in DOMAIN accounts : b # a => accounts'[b] = accounts[b]
  OBVIOUS
<1>2. AccountRowsInv'
  BY <1>1 DEF AccountsInv, AccountRowsInv, Grew
<1>3. ASSUME NEW w \in Handler, flight'[w].op # Null
      PROVE  /\ flight'[w].row \in DOMAIN accounts \cup deleted
             /\ flight'[w].row \in DOMAIN accounts \ renamed => Fits(flight'[w], accounts'[flight'[w].row])
  <2>1. flight'[w] = flight[w]
    BY <1>3 DEF Idle
  <2> PICK f : f = flight[w]
    OBVIOUS
  <2>2. f.op # Null /\ f.row \in DOMAIN accounts \cup deleted
        /\ (f.row \in DOMAIN accounts \ renamed => Fits(f, accounts[f.row]))
    BY <1>3, <2>1 DEF AccountsInv, FlightInv
  <2>3. ASSUME f.row \in DOMAIN accounts \ renamed PROVE Fits(f, accounts'[f.row])
    BY <1>1, <2>2, <2>3 DEF Fits, Follows, Grew
  <2> QED
    BY <2>1, <2>2, <2>3
<1> QED
  BY <1>1, <1>2, <1>3 DEF AccountsInv, FlightInv

LEMMA WrittenIs ==
    ASSUME NEW x, NEW old, NEW new, RowFits(x), Follows(old, x), DOMAIN new = DOMAIN old,
           new.username = old.username, Mine(new.access, x.username), Mine(new.refresh, x.username),
           new.user \in {old.user, x.username},
           new.access # Null \/ new.refresh # Null => new.user # Null
    PROVE  Grew(x, Written(x, old, new))
<1> DEFINE y == Written(x, old, new)
<1>1. /\ DOMAIN x = {"username", "status", "active", "state", "access", "refresh", "expires", "user"}
      /\ DOMAIN new = DOMAIN x /\ DOMAIN old = DOMAIN x
  BY DEF RowFits, Follows, NewAccount
<1>2. DOMAIN y = DOMAIN x
  BY DEF Written
<1>3. \A f \in DOMAIN x : y[f] = (IF new[f] # old[f] THEN new[f] ELSE x[f])
  BY DEF Written
<1>4. /\ y.username = (IF new.username # old.username THEN new.username ELSE x.username)
      /\ y.user = (IF new.user # old.user THEN new.user ELSE x.user)
      /\ y.access = (IF new.access # old.access THEN new.access ELSE x.access)
      /\ y.refresh = (IF new.refresh # old.refresh THEN new.refresh ELSE x.refresh)
  BY <1>1, <1>3
<1> HIDE DEF y
<1>5. y.username = x.username
  BY <1>4
<1>6. x.user # Null => y.user # Null
  BY <1>4 DEF Follows, RowFits
<1> QED
  BY <1>1, <1>2, <1>4, <1>5, <1>6 DEF RowFits, Follows, Grew, y, Mine

\* What only a flight or nothing of the invariant sees.
LEMMA SameRows ==
    ASSUME AccountsInv, UNCHANGED <<accounts, deleted, renamed>>, DOMAIN flight' = Handler,
           \A w \in Handler :
              \/ flight'[w] \in {flight[w], Idle}
              \/ flight'[w].row \in DOMAIN accounts /\ Fits(flight'[w], accounts[flight'[w].row])
    PROVE  AccountsInv'
<1>1. AccountRowsInv'
  BY DEF AccountsInv, AccountRowsInv
<1>2. ASSUME NEW w \in Handler, flight'[w].op # Null
      PROVE  /\ flight'[w].row \in DOMAIN accounts \cup deleted
             /\ flight'[w].row \in DOMAIN accounts \ renamed => Fits(flight'[w], accounts[flight'[w].row])
  <2> PICK f, g : f = flight[w] /\ g = flight'[w]
    OBVIOUS
  <2>1. g = f \/ (g.row \in DOMAIN accounts /\ Fits(g, accounts[g.row]))
    BY <1>2 DEF Idle
  <2>2. f.op # Null => /\ f.row \in DOMAIN accounts \cup deleted
                       /\ f.row \in DOMAIN accounts \ renamed => Fits(f, accounts[f.row])
    BY DEF AccountsInv, FlightInv
  <2> QED
    BY <1>2, <2>1, <2>2
<1> QED
  BY <1>1, <1>2 DEF AccountsInv, FlightInv

\* A stale write leaves the row the seller's.
LEMMA SaveKeeps ==
    ASSUME AccountsInv, NEW w \in Handler, NEW f, f = flight[w], f.op # Null, NEW new,
           f.row \in DOMAIN accounts /\ Fits(f, accounts[f.row]) =>
                             /\ DOMAIN new = DOMAIN f.old /\ new.username = f.old.username
                             /\ Mine(new.access, f.old.username) /\ Mine(new.refresh, f.old.username)
                             /\ new.user \in {f.old.user, f.old.username}
                             /\ new.access # Null \/ new.refresh # Null => new.user # Null,
           NEW y, f.row \in DOMAIN accounts => \/ y = Written(accounts[f.row], f.old, new)
                                             \/ y = Refused(Written(accounts[f.row], f.old, new)),
           accounts' = IF f.row \in DOMAIN accounts THEN [accounts EXCEPT ![f.row] = y] ELSE accounts,
           flight' = [flight EXCEPT ![w] = Idle], UNCHANGED <<deleted, renamed>>
    PROVE  AccountsInv'
<1>1. DOMAIN flight' = Handler /\ \A v \in Handler : flight'[v] \in {flight[v], Idle}
  BY DEF AccountsInv, FlightInv
<1>2. CASE f.row \notin DOMAIN accounts
  BY <1>1, <1>2, SameRows
<1>3. CASE f.row \in DOMAIN accounts
  <2> PICK x : x = accounts[f.row]
    OBVIOUS
  <2>1. ASSUME f.row \notin renamed PROVE Grew(x, y)
    <3>1. RowFits(x) /\ Fits(f, x) /\ Follows(f.old, x)
      BY <1>3, <2>1 DEF AccountsInv, AccountRowsInv, FlightInv, Fits
    <3> PICK z : z = Written(x, f.old, new)
      OBVIOUS
    <3>2. Grew(x, z)
      BY ONLY <1>3, <3>1, WrittenIs, z = Written(x, f.old, new), x = accounts[f.row],
              f.row \in DOMAIN accounts /\ Fits(f, accounts[f.row]) =>
                 /\ DOMAIN new = DOMAIN f.old /\ new.username = f.old.username
                 /\ Mine(new.access, f.old.username) /\ Mine(new.refresh, f.old.username)
                 /\ new.user \in {f.old.user, f.old.username}
                 /\ new.access # Null \/ new.refresh # Null => new.user # Null
           DEF Follows
    <3>3. y = z \/ y = Refused(z)
      BY <1>3
    <3> PICK r : r = Refused(z)
      OBVIOUS
    <3>4. DOMAIN r = DOMAIN z /\ r.username = z.username /\ r.user = z.user
          /\ r.access = z.access /\ r.refresh = z.refresh
      BY <3>2 DEF Grew, RowFits, Refused, NewAccount
    <3>5. Grew(x, r)
      BY <3>2, <3>4 DEF Grew, RowFits
    <3> QED
      BY <3>2, <3>3, <3>5
  <2> QED
    BY <1>1, <1>3, <2>1, Kept
<1> QED
  BY <1>2, <1>3

\* Names stay with their rows.
LEMMA CreateStep ==
    ASSUME EbayAccountsAssumption, AccountsInv, NEW a \in AccountId, NEW n \in Seller,
           CreateAccount(a, n)
    PROVE  AccountsInv'
<1>1. /\ DOMAIN accounts' = DOMAIN accounts \cup {a} /\ accounts'[a] = NewAccount(n)
      /\ \A b \in DOMAIN accounts : accounts'[b] = accounts[b]
      /\ a \notin DOMAIN accounts \cup deleted /\ UNCHANGED <<flight, deleted, renamed>>
  BY DEF CreateAccount
<1>2. RowFits(NewAccount(n))
  BY DEF RowFits, NewAccount, Mine
<1>3. AccountRowsInv'
  BY <1>1, <1>2 DEF AccountsInv, AccountRowsInv
<1>4. FlightInv'
  BY <1>1 DEF AccountsInv, FlightInv
<1> QED
  BY <1>3, <1>4 DEF AccountsInv

LEMMA UpdateStep ==
    ASSUME EbayAccountsAssumption, AccountsInv, NEW a \in AccountId, NEW n \in Seller,
           UpdateAccount(a, n)
    PROVE  AccountsInv'
<1> PICK x : x = accounts[a]
  OBVIOUS
<1>1. /\ DOMAIN accounts' = DOMAIN accounts /\ accounts'[a] = [x EXCEPT !.username = n]
      /\ \A b \in DOMAIN accounts : b # a => accounts'[b] = accounts[b]
      /\ a \in DOMAIN accounts /\ UNCHANGED <<flight, deleted>>
      /\ renamed \subseteq renamed' /\ renamed' \subseteq renamed \cup {a}
  BY DEF UpdateAccount
<1>2. a \notin renamed' => x.user = Null /\ \A w \in Handler : flight[w].op # Null => flight[w].row # a
  BY DEF UpdateAccount
<1>3. a \notin renamed' => RowFits([x EXCEPT !.username = n])
  <2>1. a \notin renamed' => RowFits(x)
    BY <1>1 DEF AccountsInv, AccountRowsInv
  <2> QED
    BY <1>2, <2>1 DEF RowFits, Mine, NewAccount
<1>4. AccountRowsInv'
  BY <1>1, <1>3 DEF AccountsInv, AccountRowsInv
<1>5. FlightInv'
  BY <1>1, <1>2 DEF AccountsInv, FlightInv
<1> QED
  BY <1>4, <1>5 DEF AccountsInv

LEMMA DeleteStep == ASSUME AccountsInv, NEW a \in AccountId, DeleteAccount(a) PROVE AccountsInv'
<1>1. /\ DOMAIN accounts' = DOMAIN accounts \ {a}
      /\ \A b \in DOMAIN accounts : b # a => accounts'[b] = accounts[b]
      /\ UNCHANGED flight /\ deleted' = deleted \cup {a} /\ renamed' = renamed \ {a}
  BY DEF DeleteAccount, Restrict
<1>2. AccountRowsInv'
  BY <1>1 DEF AccountsInv, AccountRowsInv
<1>3. FlightInv'
  BY <1>1 DEF AccountsInv, FlightInv
<1> QED
  BY <1>2, <1>3 DEF AccountsInv

\* Steps of one row that touch neither its name nor its tokens.
LEMMA RowStep ==
    ASSUME AccountsInv, NEW a \in DOMAIN accounts, NEW y, accounts' = [accounts EXCEPT ![a] = y],
           DOMAIN y = DOMAIN accounts[a], y.username = accounts[a].username, y.user = accounts[a].user,
           y.access = accounts[a].access, y.refresh = accounts[a].refresh,
           UNCHANGED <<flight, deleted, renamed>>
    PROVE  AccountsInv'
<1> PICK x : x = accounts[a]
  OBVIOUS
<1>1. y.username = x.username /\ y.user = x.user /\ y.access = x.access /\ y.refresh = x.refresh
  OBVIOUS
<1>2. RowFits(x) => Grew(x, y)
  BY <1>1 DEF RowFits, Grew
<1>3. a \notin renamed => Grew(x, y)
  BY <1>2 DEF AccountsInv, AccountRowsInv
<1>4. DOMAIN flight' = Handler /\ \A w \in Handler : flight'[w] \in {flight[w], Idle}
  BY DEF AccountsInv, FlightInv
<1> QED
  BY <1>3, <1>4, Kept

LEMMA SmallStep ==
    ASSUME AccountsInv, NEW a \in AccountId,
           (\E b \in BOOLEAN : SetActive(a, b)) \/ CreateAuthorizationUrl(a) \/ CallbackRefused(a)
             \/ AccessRefreshImpossible(a) \/ TestConnection(a)
    PROVE  AccountsInv'
<1> PICK x : x = accounts[a]
  OBVIOUS
<1> DEFINE Small(y) == /\ accounts' = [accounts EXCEPT ![a] = y] /\ a \in DOMAIN accounts
                       /\ DOMAIN y = DOMAIN x /\ y.username = x.username /\ y.user = x.user
                       /\ y.access = x.access /\ y.refresh = x.refresh
<1>1. \E y : Small(y)
  <2>1. ASSUME NEW b \in BOOLEAN, SetActive(a, b) PROVE \E y : Small(y)
    <3> PICK y : y = [x EXCEPT !.active = b]
      OBVIOUS
    <3>1. accounts' = [accounts EXCEPT ![a] = y] /\ a \in DOMAIN accounts
      BY <2>1 DEF SetActive
    <3>2. Small(y)
      BY <3>1
    <3> QED
      BY <3>2
  <2>2. ASSUME CreateAuthorizationUrl(a) PROVE \E y : Small(y)
    <3> PICK y : y = [x EXCEPT !.state = issued, !.status = Unless("PENDING", x)]
      OBVIOUS
    <3>1. accounts' = [accounts EXCEPT ![a] = y] /\ a \in DOMAIN accounts
      BY <2>2 DEF CreateAuthorizationUrl
    <3>2. Small(y)
      BY <3>1
    <3> QED
      BY <3>2
  <2>3. ASSUME CallbackRefused(a) PROVE \E y : Small(y)
    <3> PICK y : y = Refused(x)
      OBVIOUS
    <3>1. accounts' = [accounts EXCEPT ![a] = y] /\ a \in DOMAIN accounts
      BY <2>3 DEF CallbackRefused
    <3>2. Small(y)
      BY <3>1 DEF Refused
    <3> QED
      BY <3>2
  <2>4. ASSUME AccessRefreshImpossible(a) \/ TestConnection(a) PROVE \E y : Small(y)
    <3> PICK y : y = [x EXCEPT !.status = "EXPIRED"]
      OBVIOUS
    <3>1. accounts' = [accounts EXCEPT ![a] = y] /\ a \in DOMAIN accounts
      BY <2>4 DEF AccessRefreshImpossible, TestConnection
    <3>2. Small(y)
      BY <3>1
    <3> QED
      BY <3>2
  <2> QED
    BY <2>1, <2>2, <2>3, <2>4
<1>2. UNCHANGED <<flight, deleted, renamed>>
  BY DEF SetActive, CreateAuthorizationUrl, CallbackRefused, AccessRefreshImpossible,
     TestConnection
<1> QED
  BY <1>1, <1>2, RowStep

LEMMA StartsStep ==
    ASSUME AccountsInv, NEW w \in Handler, NEW a \in AccountId,
           (\E s \in Seller : CallbackStarts(w, a, s)) \/ AccessRefreshStarts(w, a)
    PROVE  AccountsInv'
<1> PICK x : x = accounts[a]
  OBVIOUS
<1>1. a \in DOMAIN accounts /\ UNCHANGED <<accounts, deleted, renamed>>
  BY DEF CallbackStarts, AccessRefreshStarts
<1>2. a \notin renamed => RowFits(x) /\ Follows(x, x)
  BY <1>1 DEF AccountsInv, AccountRowsInv, Follows
<1> DEFINE Started(f) == /\ flight' = [flight EXCEPT ![w] = f] /\ f.row = a /\ f.old = x
                         /\ f.op \in {"callback", "refresh"} /\ (f.op = "refresh" => x.refresh # Null)
<1>3. PICK f : Started(f)
  <2>1. ASSUME NEW s \in Seller, CallbackStarts(w, a, s) PROVE \E f : Started(f)
    <3> PICK f : f = [op |-> "callback", row |-> a, old |-> x, seller |-> s]
      OBVIOUS
    <3>1. flight' = [flight EXCEPT ![w] = f]
      BY <2>1 DEF CallbackStarts
    <3>2. Started(f)
      BY <3>1
    <3> QED
      BY <3>2
  <2>2. ASSUME AccessRefreshStarts(w, a) PROVE \E f : Started(f)
    <3> PICK f : f = [op |-> "refresh", row |-> a, old |-> x]
      OBVIOUS
    <3>1. flight' = [flight EXCEPT ![w] = f] /\ x.refresh # Null
      BY <2>2 DEF AccessRefreshStarts
    <3>2. Started(f)
      BY <3>1
    <3> QED
      BY <3>2
  <2> QED
    BY <2>1, <2>2
<1>4. DOMAIN flight' = Handler /\ \A v \in Handler : flight'[v] = IF v = w THEN f ELSE flight[v]
  BY <1>3 DEF AccountsInv, FlightInv
<1>5. AccountRowsInv'
  BY <1>1 DEF AccountsInv, AccountRowsInv
<1>6. a \notin renamed => Fits(f, x)
  BY <1>2, <1>3 DEF Fits
<1>7. FlightInv'
  <2>1. ASSUME NEW v \in Handler, flight'[v].op # Null
        PROVE  /\ flight'[v].row \in DOMAIN accounts \cup deleted
               /\ flight'[v].row \in DOMAIN accounts \ renamed => Fits(flight'[v], accounts[flight'[v].row])
    <3>1. CASE v = w
      BY <1>1, <1>3, <1>4, <1>6, <3>1
    <3>2. CASE v # w
      <4>1. flight'[v] = flight[v]
        BY <1>4, <3>2
      <4> QED
        BY <2>1, <4>1 DEF AccountsInv, FlightInv
    <3> QED
      BY <3>1, <3>2
  <2> QED
    BY <1>1, <1>4, <2>1 DEF FlightInv
<1> QED
  BY <1>5, <1>7 DEF AccountsInv

LEMMA CallbackStep ==
    ASSUME EbayAccountsAssumption, AccountsInv, NEW w \in Handler,
           (\E keep, life \in BOOLEAN : CallbackEnds(w, keep, life)) \/ CallbackFails(w) \/ CallbackMismatch(w)
    PROVE  AccountsInv'
<1> PICK f : f = flight[w]
  OBVIOUS
<1> PICK old : old = f.old
  OBVIOUS
<1>1. f.op # Null
  BY DEF CallbackEnds, CallbackFails, CallbackMismatch, EbayAccountsAssumption
<1>2. flight' = [flight EXCEPT ![w] = Idle] /\ UNCHANGED <<deleted, renamed>>
  BY DEF CallbackEnds, CallbackFails, CallbackMismatch
<1>3. ASSUME NEW keep \in BOOLEAN, NEW life \in BOOLEAN, CallbackEnds(w, keep, life)
      PROVE  AccountsInv'
  <2> PICK row : row = [old EXCEPT !.user = f.seller]
    OBVIOUS
  <2> PICK new : new = StoreTokens(row, f.seller, issued, keep, life)
    OBVIOUS
  <2>1. old.username = f.seller /\ Save(f.row, old, new)
    BY <1>3 DEF CallbackEnds, UsernamesMatch
  <2>2. ASSUME Fits(f, accounts[f.row])
        PROVE  /\ DOMAIN new = DOMAIN old /\ new.username = old.username
               /\ Mine(new.access, old.username) /\ Mine(new.refresh, old.username)
               /\ new.user \in {old.user, old.username}
               /\ new.access # Null \/ new.refresh # Null => new.user # Null
    <3>1. RowFits(old) /\ DOMAIN old = DOMAIN NewAccount(Null)
      BY <2>2 DEF Fits, Follows, RowFits, NewAccount
    <3>2. /\ DOMAIN row = DOMAIN NewAccount(Null) /\ row.username = old.username /\ row.user = f.seller
          /\ row.refresh = old.refresh
      BY <3>1 DEF NewAccount
    <3>3. /\ DOMAIN new = DOMAIN row /\ new.username = row.username /\ new.user = row.user
          /\ new.access.of = f.seller /\ (new.refresh = row.refresh \/ new.refresh.of = f.seller)
      BY <3>2 DEF StoreTokens, NewAccount
    <3>4. f.seller # Null
      BY <2>1, <3>1 DEF EbayAccountsAssumption, RowFits
    <3> QED
      BY <2>1, <3>1, <3>2, <3>3, <3>4 DEF Mine, RowFits
  <2> PICK y : y = Written(accounts[f.row], old, new)
    OBVIOUS
  <2>3. accounts' = IF f.row \in DOMAIN accounts THEN [accounts EXCEPT ![f.row] = y] ELSE accounts
    BY <2>1 DEF Save
  <2> QED
    BY ONLY <1>1, <1>2, <2>2, <2>3, SaveKeeps, AccountsInv, w \in Handler, f = flight[w],
       old = f.old,
            y = Written(accounts[f.row], old, new)
<1>4. ASSUME CallbackFails(w) PROVE AccountsInv'
  <2> PICK new : new = Refused(old)
    OBVIOUS
  <2>1. Save(f.row, old, new)
    BY <1>4 DEF CallbackFails
  <2>2. ASSUME Fits(f, accounts[f.row])
        PROVE  /\ DOMAIN new = DOMAIN old /\ new.username = old.username
               /\ Mine(new.access, old.username) /\ Mine(new.refresh, old.username)
               /\ new.user \in {old.user, old.username}
               /\ new.access # Null \/ new.refresh # Null => new.user # Null
    BY <2>2 DEF Fits, Follows, Refused, RowFits, NewAccount
  <2> PICK y : y = Written(accounts[f.row], old, new)
    OBVIOUS
  <2>3. accounts' = IF f.row \in DOMAIN accounts THEN [accounts EXCEPT ![f.row] = y] ELSE accounts
    BY <2>1 DEF Save
  <2> QED
    BY ONLY <1>1, <1>2, <2>2, <2>3, SaveKeeps, AccountsInv, w \in Handler, f = flight[w],
       old = f.old,
            y = Written(accounts[f.row], old, new)
<1>5. ASSUME CallbackMismatch(w) PROVE AccountsInv'
  <2> PICK new : new = Refused(old)
    OBVIOUS
  <2> PICK y : y = Refused(Written(accounts[f.row], old, new))
    OBVIOUS
  <2>1. accounts' = IF f.row \in DOMAIN accounts THEN [accounts EXCEPT ![f.row] = y] ELSE accounts
    BY <1>5 DEF CallbackMismatch
  <2>2. ASSUME Fits(f, accounts[f.row])
        PROVE  /\ DOMAIN new = DOMAIN old /\ new.username = old.username
               /\ Mine(new.access, old.username) /\ Mine(new.refresh, old.username)
               /\ new.user \in {old.user, old.username}
               /\ new.access # Null \/ new.refresh # Null => new.user # Null
    BY <2>2 DEF Fits, Follows, Refused, RowFits, NewAccount
  <2> QED
    BY ONLY <1>1, <1>2, <2>1, <2>2, SaveKeeps, AccountsInv, w \in Handler, f = flight[w],
       old = f.old,
            y = Refused(Written(accounts[f.row], old, new))
<1> QED
  BY <1>3, <1>4, <1>5

LEMMA RefreshStep ==
    ASSUME EbayAccountsAssumption, AccountsInv, NEW w \in Handler,
           (\E keep, life \in BOOLEAN : AccessRefreshEnds(w, keep, life)) \/ AccessRefreshFails(w)
    PROVE  AccountsInv'
<1> PICK f : f = flight[w]
  OBVIOUS
<1> PICK old : old = f.old
  OBVIOUS
<1>1. f.op # Null /\ f.op = "refresh"
  BY DEF AccessRefreshEnds, AccessRefreshFails, EbayAccountsAssumption
<1>2. flight' = [flight EXCEPT ![w] = Idle] /\ UNCHANGED <<deleted, renamed>>
  BY DEF AccessRefreshEnds, AccessRefreshFails
<1>3. ASSUME NEW keep \in BOOLEAN, NEW life \in BOOLEAN, AccessRefreshEnds(w, keep, life)
      PROVE  AccountsInv'
  <2> PICK new : new = StoreTokens(old, old.refresh.of, issued, keep, life)
    OBVIOUS
  <2>1. Save(f.row, old, new)
    BY <1>3 DEF AccessRefreshEnds
  <2>2. ASSUME Fits(f, accounts[f.row])
        PROVE  /\ DOMAIN new = DOMAIN old /\ new.username = old.username
               /\ Mine(new.access, old.username) /\ Mine(new.refresh, old.username)
               /\ new.user \in {old.user, old.username}
               /\ new.access # Null \/ new.refresh # Null => new.user # Null
    <3>1. RowFits(old) /\ DOMAIN old = DOMAIN NewAccount(Null) /\ old.refresh # Null
      BY <1>1, <2>2 DEF Fits, Follows, RowFits, NewAccount
    <3>2. old.refresh.of = old.username /\ old.user # Null
      BY <3>1 DEF RowFits, Mine
    <3>3. /\ DOMAIN new = DOMAIN old /\ new.username = old.username /\ new.user = old.user
          /\ new.access.of = old.username /\ (new.refresh = old.refresh \/ new.refresh.of = old.username)
      BY <3>1, <3>2 DEF StoreTokens, NewAccount
    <3> QED
      BY <3>1, <3>2, <3>3 DEF Mine
  <2> PICK y : y = Written(accounts[f.row], old, new)
    OBVIOUS
  <2>3. accounts' = IF f.row \in DOMAIN accounts THEN [accounts EXCEPT ![f.row] = y] ELSE accounts
    BY <2>1 DEF Save
  <2> QED
    BY ONLY <1>1, <1>2, <2>2, <2>3, SaveKeeps, AccountsInv, w \in Handler, f = flight[w],
       old = f.old,
            y = Written(accounts[f.row], old, new)
<1>4. ASSUME AccessRefreshFails(w) PROVE AccountsInv'
  <2> PICK new : new = [old EXCEPT !.status = "EXPIRED"]
    OBVIOUS
  <2>1. Save(f.row, old, new)
    BY <1>4 DEF AccessRefreshFails
  <2>2. ASSUME Fits(f, accounts[f.row])
        PROVE  /\ DOMAIN new = DOMAIN old /\ new.username = old.username
               /\ Mine(new.access, old.username) /\ Mine(new.refresh, old.username)
               /\ new.user \in {old.user, old.username}
               /\ new.access # Null \/ new.refresh # Null => new.user # Null
    BY <2>2 DEF Fits, Follows, RowFits, NewAccount
  <2> PICK y : y = Written(accounts[f.row], old, new)
    OBVIOUS
  <2>3. accounts' = IF f.row \in DOMAIN accounts THEN [accounts EXCEPT ![f.row] = y] ELSE accounts
    BY <2>1 DEF Save
  <2> QED
    BY ONLY <1>1, <1>2, <2>2, <2>3, SaveKeeps, AccountsInv, w \in Handler, f = flight[w],
       old = f.old,
            y = Written(accounts[f.row], old, new)
<1> QED
  BY <1>3, <1>4

LEMMA AccountsInitInv == ASSUME EbayAccountsAssumption, AccountsInit PROVE AccountsInv
<1>1. DOMAIN accounts = {}
  BY DEF AccountsInit
<1> QED
  BY <1>1 DEF AccountsInit, AccountsInv, AccountRowsInv, FlightInv, Idle

LEMMA AccountsInvStep ==
    ASSUME EbayAccountsAssumption, AccountsInv, [AccountsNext]_accountVars
    PROVE  AccountsInv'
<1>1. ASSUME NEW a \in AccountId, NEW n \in Seller, CreateAccount(a, n) \/ UpdateAccount(a, n)
      PROVE  AccountsInv'
  BY <1>1, CreateStep, UpdateStep
<1>2. ASSUME NEW a \in AccountId,
             \/ (\E b \in BOOLEAN : SetActive(a, b)) \/ CreateAuthorizationUrl(a) \/ CallbackRefused(a)
             \/ AccessRefreshImpossible(a) \/ TestConnection(a) \/ DeleteAccount(a)
      PROVE  AccountsInv'
  BY <1>2, SmallStep, DeleteStep
<1>3. ASSUME NEW w \in Handler, NEW a \in AccountId, NEW s \in Seller,
             CallbackStarts(w, a, s) \/ AccessRefreshStarts(w, a)
      PROVE  AccountsInv'
  BY <1>3, StartsStep
<1>4. ASSUME NEW w \in Handler,
             \/ \E keep, life \in BOOLEAN : CallbackEnds(w, keep, life) \/ AccessRefreshEnds(w, keep, life)
             \/ CallbackFails(w) \/ CallbackMismatch(w) \/ AccessRefreshFails(w)
      PROVE  AccountsInv'
  BY <1>4, CallbackStep, RefreshStep
<1>5. CASE Tick \/ UNCHANGED accountVars
  BY <1>5, SameRows DEF AccountsInv, FlightInv, Tick, accountVars
<1>6. ASSUME NEW w \in Handler, NEW a \in AccountId, AccessRefreshStarts(w, a) PROVE AccountsInv'
  BY <1>6, StartsStep
<1> QED
  BY <1>1, <1>2, <1>3, <1>4, <1>5, <1>6 DEF AccountsNext

\* While its username stands an account holds the tokens of that seller alone, whatever
\* callbacks and refreshes read before they call eBay and write after.
THEOREM TokensStayTheSellers ==
    ASSUME EbayAccountsAssumption
    PROVE  AccountsSpec => []TokensOfSeller
<1>1. AccountsInit => AccountsInv
  BY AccountsInitInv
<1>2. AccountsInv /\ [AccountsNext]_accountVars => AccountsInv'
  BY AccountsInvStep
<1>3. AccountsInv => TokensOfSeller
  <2> SUFFICES ASSUME AccountsInv, NEW a \in DOMAIN accounts \ renamed
               PROVE  LET x == accounts[a] IN
                      /\ {x.access, x.refresh} \ {Null} # {} => x.user = x.username
                      /\ \A t \in {x.access, x.refresh} \ {Null} : t.of = x.user
    BY DEF TokensOfSeller
  <2> PICK x : x = accounts[a]
    OBVIOUS
  <2>1. RowFits(x)
    BY DEF AccountsInv, AccountRowsInv
  <2> QED
    BY <2>1 DEF RowFits, Mine
<1> QED
  BY <1>1, <1>2, <1>3, PTL DEF AccountsSpec

(***************************************************************************)
(* Product contexts (ProductContexts): the contexts of conversations and   *)
(* the calls in flight that write them.                                    *)
(***************************************************************************)
\* The conversations are an account's, and one importer works on them at a time: InOrder of
\* EbaySync, which Sync All need not keep.
OneSync == \A s, t \in Service \ Viewer : s = t

\* A context tells of its own listing.
Tells(x) ==
    /\ x \in ContextSet
    /\ x.title \in {None, x.ref} /\ x.order \in {None, x.ref}
    /\ x.status = "ENRICHED" => x.title # None
    /\ x.status = "LOCAL_ORDER" => x.order # None
    /\ x.status \in Terminal => x.at \in 0..ordersAt
Has(c, l) == context[c] # None /\ context[c].ref = l
Final(c) == context[c].status \in Terminal

RowsInv ==
    /\ ordersAt \in Nat
    /\ DOMAIN reference = Conversation /\ DOMAIN context = Conversation
    /\ \A c \in Conversation : reference[c] \in ItemRef \cup {None}
    /\ \A c \in Conversation : context[c] # None => Tells(context[c]) /\ context[c].ref = reference[c]
\* A service has found what it remembers, and does not remember what it has yet to find.
MemoryInv ==
    /\ DOMAIN memory = Service
    /\ \A s \in Service : DOMAIN memory[s] = ItemRef
    /\ \A s \in Viewer : memory[s] = Forgotten
    /\ \A s \in Service, l \in ItemRef : memory[s][l] # None =>
         /\ memory[s][l] \in Conversation /\ Has(memory[s][l], l)
         /\ l \in gone => Final(memory[s][l])
\* A call under way is about the conversation's listing, and nobody else answers it.
Asking(s, k) ==
    /\ k.of \in Conversation /\ Tells(k.row) /\ k.row.ref = reference[k.of]
    /\ s \in Viewer => k.new
    /\ ~k.new => context[k.of] # None /\ ~Final(k.of)
    /\ s \notin Viewer => k.row.ref \notin gone
CallInv ==
    /\ DOMAIN calling = Service
    /\ \A s \in Service : calling[s].of # None => Asking(s, calling[s])
\* What a sync was told is gone is on record.
GoneInv ==
    /\ again = {} /\ gone \subseteq ItemRef
    /\ \A l \in gone : \E c \in Conversation : Has(c, l) /\ Final(c)

Straight == RowsInv /\ MemoryInv /\ CallInv /\ GoneInv
Inv == moved = {} => Straight

\* A context that is written stays the conversation's, and does not lose its verdict.
Stores(s, c, x) ==
    /\ context' = [context EXCEPT ![c] = x] /\ x # None /\ Tells(x) /\ x.ref = reference[c]
    /\ context[c] # None /\ Final(c) => x.status \in Terminal
    /\ \A t \in Service \ {s} : calling[t].of = c => calling[t].new
    /\ \A t \in Service \ {s} : t \in Viewer \/ gone' = gone
    /\ UNCHANGED <<reference, ordersAt>>
LeavesTheRest(s) ==
    /\ RowsInv'
    /\ \A d \in Conversation, l \in ItemRef : Has(d, l) => Has(d, l)'
    /\ \A d \in Conversation : context[d] # None /\ Final(d) => Final(d)'
    /\ \A t \in Service \ {s} : \A k : k = calling[t] /\ k.of # None => Asking(t, k)'
LEMMA Stored ==
    ASSUME Straight, NEW s \in Service, NEW c \in Conversation, NEW x, Stores(s, c, x)
    PROVE  LeavesTheRest(s)
<1> USE DEF Stores
<1>1. DOMAIN context' = Conversation /\ context'[c] = x /\ \A d \in Conversation : d # c => context'[d] = context[d]
  BY DEF Straight, RowsInv
<1>2. RowsInv'
  BY <1>1 DEF Straight, RowsInv, Tells
<1>3. \A d \in Conversation, l \in ItemRef : Has(d, l) => Has(d, l)'
  BY <1>1 DEF Straight, RowsInv, Has
<1>4. \A d \in Conversation : context[d] # None /\ Final(d) => Final(d)'
  BY <1>1 DEF Final
<1>5. ASSUME NEW t \in Service \ {s}, NEW k, k = calling[t], k.of # None PROVE Asking(t, k)'
  <2>1. Asking(t, k) /\ k.of \in Conversation
    BY <1>5 DEF Straight, CallInv, Asking
  <2>2. ~k.new => k.of # c
    BY <1>5
  <2>3. Tells(k.row)'
    BY <2>1 DEF Tells, Asking
  <2>4. ~k.new => context'[k.of] = context[k.of]
    BY <1>1, <2>1, <2>2
  <2> QED
    BY <2>1, <2>3, <2>4 DEF Asking, Final
<1> QED
  BY <1>2, <1>3, <1>4, <1>5 DEF LeavesTheRest

\* What the memories need of such a write.
LEMMA Remembered ==
    ASSUME OneSync, Straight, NEW s \in Service, NEW c \in Conversation, NEW l \in ItemRef,
           \A d \in Conversation, m \in ItemRef : Has(d, m) => Has(d, m)',
           \A d \in Conversation : context[d] # None /\ Final(d) => Final(d)',
           Has(c, l)', s \notin Viewer /\ l \in gone' => Final(c)',
           \/ memory' = memory /\ gone' = gone
           \/ Remember(s, l, c) /\ (gone' = gone \/ (gone' = gone \cup {l} /\ s \notin Viewer))
    PROVE  MemoryInv'
<1>1. /\ DOMAIN memory' = Service /\ \A t \in Service : DOMAIN memory'[t] = ItemRef
      /\ \A t \in Viewer : memory'[t] = Forgotten
  <2>1. /\ DOMAIN memory = Service /\ \A t \in Service : DOMAIN memory[t] = ItemRef
        /\ \A t \in Viewer : memory[t] = Forgotten
    BY DEF Straight, MemoryInv
  <2>2. CASE memory' = memory
    BY <2>1, <2>2
  <2>3. CASE s \notin Viewer /\ memory' = [memory EXCEPT ![s][l] = c]
    BY <2>1, <2>3
  <2> QED
    BY <2>2, <2>3 DEF Remember
<1>2. ASSUME NEW t \in Service, NEW m \in ItemRef, NEW d, d = memory'[t][m], d # None
      PROVE  d \in Conversation /\ Has(d, m)' /\ (m \in gone' => Final(d)')
  <2>1. CASE d = c /\ m = l /\ s \notin Viewer
    BY <2>1
  <2>2. CASE d = memory[t][m] /\ (m \in gone' => m \in gone)
    BY <1>2, <2>2 DEF Straight, MemoryInv, Has
  <2>3. \/ d = c /\ m = l /\ s \notin Viewer
        \/ d = memory[t][m] /\ (m \in gone' => m \in gone)
    <3>1. CASE memory' = memory /\ gone' = gone
      BY <1>2, <3>1
    <3>2. CASE memory' = memory /\ s \in Viewer /\ gone' = gone
      BY <1>2, <3>2
    <3>3. CASE s \notin Viewer /\ memory' = [memory EXCEPT ![s][l] = c]
      <4>1. CASE t \in Viewer
        BY <1>1, <1>2, <4>1 DEF Forgotten
      <4>2. CASE t \notin Viewer
        <5>1. t = s
          BY <3>3, <4>2 DEF OneSync
        <5>2. DOMAIN memory = Service /\ DOMAIN memory[s] = ItemRef
          BY DEF Straight, MemoryInv
        <5>3. memory'[s][m] = IF m = l THEN c ELSE memory[s][m]
          BY <3>3, <5>2
        <5>4. m \in gone' => m \in gone \/ m = l
          OBVIOUS
        <5> QED
          BY <1>2, <3>3, <5>1, <5>3, <5>4
      <4> QED
        BY <4>1, <4>2
    <3> QED
      BY <3>1, <3>2, <3>3 DEF Remember
  <2> QED
    BY <2>1, <2>2, <2>3
<1> QED
  BY <1>1, <1>2 DEF MemoryInv, Has, Final

\* What a service finds in its memory or in the database is of the listing; and it does find
\* what a sync was told is gone.
LEMMA CachedIs ==
    ASSUME ProductContextAssumption, Straight, NEW s \in Service, NEW c \in Conversation,
           NEW l \in ItemRef,
           NEW d, d = Cached(s, c, l)
    PROVE  /\ d # None => d \in Conversation /\ Has(d, l)
           /\ l \in gone /\ ~(Has(c, l) /\ Final(c)) => d # None
<1> DEFINE latest == {e \in Others(c, l) : \A f \in Others(c, l) : context[f].at <= context[e].at}
           T == {context[e].at : e \in Others(c, l)}
<1>1. \A e \in Others(c, l) : e \in Conversation /\ Has(e, l) /\ Final(e) /\ context[e].at \in 0..ordersAt /\ e # None
  BY DEF Others, Has, Final, Straight, RowsInv, Tells, ProductContextAssumption
<1>2. d = IF memory[s][l] = c THEN None ELSE IF memory[s][l] # None THEN memory[s][l]
          ELSE IF latest = {} THEN None ELSE CHOOSE e \in latest : TRUE
  BY DEF Cached
<1>3. latest # {} => (CHOOSE e \in latest : TRUE) \in Others(c, l)
  OBVIOUS
<1>4. Others(c, l) # {} => latest # {}
  <2> HAVE Others(c, l) # {}
  <2>1. T \in SUBSET Nat /\ T # {} /\ ordersAt \in Nat /\ \A y \in T : y <= ordersAt
    BY <1>1 DEF Straight, RowsInv
  <2> HIDE DEF T
  <2>2. PICK n \in T : \A y \in T : y <= n
    BY <2>1, GreatestElement
  <2>3. PICK e \in Others(c, l) : context[e].at = n
    BY DEF T
  <2>4. \A f \in Others(c, l) : context[f].at \in T
    BY DEF T
  <2> QED
    BY <2>2, <2>3, <2>4
<1> HIDE DEF latest
<1>5. d # None => d \in Conversation /\ Has(d, l)
  BY <1>1, <1>2, <1>3 DEF Straight, MemoryInv
<1>6. ASSUME l \in gone, ~(Has(c, l) /\ Final(c)) PROVE d # None
  <2>1. PICK e \in Conversation : Has(e, l) /\ Final(e)
    BY <1>6 DEF Straight, GoneInv
  <2>2. e # c /\ e \in Others(c, l)
    BY <1>6, <2>1 DEF Others, Has, Final
  <2>3. latest # {}
    BY <1>4, <2>2
  <2>4. memory[s][l] # c
    BY <1>6 DEF Straight, MemoryInv, ProductContextAssumption
  <2> QED
    BY <1>1, <1>2, <1>3, <2>3, <2>4
<1> QED
  BY <1>5, <1>6

\* A conversation that is enriched is about a listing, and its context of that listing, or new.
LEMMA Enriching ==
    ASSUME ProductContextAssumption, OneSync, Straight, NEW s \in Service, NEW c \in Conversation,
           Wanted(s, c),
           NEW x, x = Current(c)
    PROVE  /\ x # None /\ Tells(x) /\ x.ref = reference[c] /\ x.ref \in ItemRef
           /\ context[c] # None => SameReference(c) /\ x = context[c]
           /\ context[c] = None => x.status = "PENDING"
           /\ calling[s].of = None
           /\ \A t \in Service \ {s} : calling[t].of = c => calling[t].new
           /\ ~StillUnavailable(c) /\ context[c] # None => ~Final(c)
<1>1. reference[c] \in ItemRef /\ calling[s].of = None
  BY DEF Wanted, Straight, RowsInv, NoCall
<1>2. CASE context[c] = None
  <2>1. x = NewContext(reference[c])
    BY <1>2 DEF Current
  <2>2. \A t \in Service \ {s} : calling[t].of = c => calling[t].new
    BY <1>2 DEF Straight, CallInv, Asking, ProductContextAssumption
  <2>3. x \in ContextSet /\ x # None
    BY <1>1, <2>1 DEF NewContext, ContextSet, ProductContextAssumption
  <2> QED
    BY <1>1, <1>2, <2>1, <2>2, <2>3 DEF NewContext, Tells, ContextSet, Terminal
<1>3. CASE context[c] # None
  <2> PICK y : y = context[c]
    OBVIOUS
  <2>1. Tells(y) /\ y.ref = reference[c]
    BY <1>3 DEF Straight, RowsInv
  <2>2. x = y
    <3>1. x = [y EXCEPT !.ref = reference[c]]
      BY <1>3 DEF Current
    <3>2. x = y
      BY <2>1, <3>1 DEF Tells, ContextSet
    <3> QED
      BY <3>2
  <2>3. s \notin Viewer
    BY <1>3 DEF Wanted
  <2>4. \A t \in Service \ {s} : calling[t].of = c => calling[t].new
    BY <2>3 DEF OneSync, Straight, CallInv, Asking, ProductContextAssumption
  <2>5. SameReference(c)
    BY <1>3, <2>1 DEF SameReference
  <2>6. ~StillUnavailable(c) => ~Final(c)
    BY <2>5 DEF StillUnavailable, Final, Wanted, Settled, Terminal
  <2> QED
    BY <1>1, <1>3, <2>1, <2>2, <2>4, <2>5, <2>6
<1> QED
  BY <1>2, <1>3

\* Calls of the others, and no call of the service itself.
LEMMA OthersCall ==
    ASSUME Straight, NEW s \in Service, NEW k, k.of = None,
           \A t \in Service \ {s} : \A j : j = calling[t] /\ j.of # None => Asking(t, j)',
           (calling' = calling /\ calling[s].of = None) \/ calling' = [calling EXCEPT ![s] = k]
    PROVE  CallInv'
<1>1. DOMAIN calling = Service
  BY DEF Straight, CallInv
<1>2. DOMAIN calling' = Service /\ calling'[s].of = None /\ \A t \in Service \ {s} : calling'[t] = calling[t]
  BY <1>1
<1>3. ASSUME NEW t \in Service, NEW j, j = calling'[t], j.of # None PROVE Asking(t, j)'
  BY <1>2, <1>3
<1> QED
  BY <1>2, <1>3 DEF CallInv, Asking, Final

LEMMA LocallyStep ==
    ASSUME ProductContextAssumption, OneSync, Straight, NEW s \in Service, NEW c \in Conversation,
           EnrichLocally(s, c)
    PROVE  Straight'
<1> PICK x : x = Current(c)
  OBVIOUS
<1> PICK y : y = FromLine(x)
  OBVIOUS
<1>1. /\ Wanted(s, c) /\ context' = [context EXCEPT ![c] = y] /\ Remember(s, x.ref, c)
      /\ UNCHANGED <<reference, calling, lines, ordersAt, gone, told, again, moved>>
  BY DEF EnrichLocally, Store
<1>2. /\ Tells(x) /\ x.ref = reference[c] /\ x.ref \in ItemRef /\ calling[s].of = None
      /\ \A t \in Service \ {s} : calling[t].of = c => calling[t].new
  BY <1>1, Enriching
<1>3. /\ y \in ContextSet /\ y.ref = x.ref /\ y.status = "LOCAL_ORDER" /\ y.order = x.ref /\ y.at = ordersAt
      /\ y.title \in {x.title, x.ref}
  <2> PICK t : t = IF lines[x.ref] = "titled" THEN x.ref ELSE x.title
    OBVIOUS
  <2>1. t \in {x.title, x.ref} /\ t \in ItemRef \cup {None}
    BY <1>2 DEF Tells, ContextSet
  <2>2. y = [x EXCEPT !.status = "LOCAL_ORDER", !.order = x.ref, !.at = ordersAt, !.title = t]
    BY DEF FromLine
  <2>3. ordersAt \in Nat
    BY DEF Straight, RowsInv
  <2> QED
    BY <1>2, <2>1, <2>2, <2>3 DEF Tells, ContextSet, Terminal
<1>4. Tells(y) /\ y.status \in Terminal /\ y # None
  BY <1>2, <1>3 DEF Tells, Terminal, ContextSet, Straight, RowsInv, ProductContextAssumption
<1>5. /\ RowsInv'
      /\ \A d \in Conversation, l \in ItemRef : Has(d, l) => Has(d, l)'
      /\ \A d \in Conversation : context[d] # None /\ Final(d) => Final(d)'
      /\ \A t \in Service \ {s} : \A k : k = calling[t] /\ k.of # None => Asking(t, k)'
  <2>1. Stores(s, c, y)
    BY <1>1, <1>2, <1>3, <1>4 DEF Stores
  <2>2. LeavesTheRest(s)
    BY <2>1, Stored
  <2> QED
    BY <2>2 DEF LeavesTheRest
<1>6. Has(c, x.ref)' /\ Final(c)'
  BY <1>1, <1>3, <1>4 DEF Has, Final, Straight, RowsInv
<1>7. MemoryInv'
  BY <1>1, <1>2, <1>5, <1>6, Remembered
<1>8. CallInv'
  BY <1>1, <1>2, <1>5, OthersCall
<1>9. GoneInv'
  BY <1>1, <1>5 DEF Straight, GoneInv, Has, Final
<1> QED
  BY <1>5, <1>7, <1>8, <1>9 DEF Straight

LEMMA CacheStep ==
    ASSUME ProductContextAssumption, OneSync, Straight, NEW s \in Service, NEW c \in Conversation,
           EnrichFromCache(s, c)
    PROVE  Straight'
<1> PICK x : x = Current(c)
  OBVIOUS
<1> PICK d : d = Cached(s, c, x.ref)
  OBVIOUS
<1> PICK from : from = context[d]
  OBVIOUS
<1> PICK y : y = Copied(x, from)
  OBVIOUS
<1>1. /\ Wanted(s, c) /\ ~StillUnavailable(c) /\ d # None /\ context' = [context EXCEPT ![c] = y]
      /\ UNCHANGED <<reference, memory, calling, lines, ordersAt, gone, told, again, moved>>
  BY DEF EnrichFromCache, Store
<1>2. /\ Tells(x) /\ x.ref = reference[c] /\ x.ref \in ItemRef /\ calling[s].of = None
      /\ \A t \in Service \ {s} : calling[t].of = c => calling[t].new
      /\ context[c] # None => ~Final(c)
  BY <1>1, Enriching
<1>3. d \in Conversation /\ Has(d, x.ref)
  BY <1>1, <1>2, CachedIs
<1>4. Tells(from) /\ from.ref = x.ref
  BY <1>3 DEF Has, Straight, RowsInv
<1>5. /\ y \in ContextSet /\ y.ref = x.ref /\ y.status = from.status /\ y.order = from.order
      /\ y.title = from.title /\ y.at = ordersAt
  <2>1. x \in ContextSet /\ from \in ContextSet /\ ordersAt \in Nat
    BY <1>2, <1>4 DEF Tells, Straight, RowsInv
  <2>2. y = [x EXCEPT !.title = from.title, !.order = from.order, !.status = from.status, !.at = ordersAt]
    BY Zenon DEF Copied
  <2>3. /\ from.title \in ItemRef \cup {None} /\ from.order \in ItemRef \cup {None}
        /\ from.status \in Terminal \cup {"PENDING", "FAILED"}
    BY <2>1 DEF ContextSet
  <2> QED
    BY ONLY <2>1, <2>2, <2>3 DEF ContextSet
<1>6. Tells(y) /\ y # None
  BY <1>4, <1>5 DEF Tells, Straight, RowsInv, ProductContextAssumption
<1>7. /\ RowsInv'
      /\ \A e \in Conversation, l \in ItemRef : Has(e, l) => Has(e, l)'
      /\ \A e \in Conversation : context[e] # None /\ Final(e) => Final(e)'
      /\ \A t \in Service \ {s} : \A k : k = calling[t] /\ k.of # None => Asking(t, k)'
  <2>1. Stores(s, c, y)
    BY <1>1, <1>2, <1>5, <1>6 DEF Stores
  <2>2. LeavesTheRest(s)
    BY <2>1, Stored
  <2> QED
    BY <2>2 DEF LeavesTheRest
<1>8. MemoryInv'
  BY <1>1, <1>7 DEF Straight, MemoryInv, Has, Final
<1>9. CallInv'
  BY <1>1, <1>2, <1>7, OthersCall
<1>10. GoneInv'
  BY <1>1, <1>7 DEF Straight, GoneInv, Has, Final
<1> QED
  BY <1>7, <1>8, <1>9, <1>10 DEF Straight

\* A listing a sync asks for is not one it was told is gone.
LEMMA AskStep ==
    ASSUME ProductContextAssumption, OneSync, Straight, NEW s \in Service, NEW c \in Conversation,
           AskBrowse(s, c)
    PROVE  Straight'
<1> PICK x : x = Current(c)
  OBVIOUS
<1> PICK k : k = [of |-> c, row |-> x, new |-> context[c] = None, attempt |-> 1, refreshed |-> FALSE]
  OBVIOUS
<1>1. /\ Wanted(s, c) /\ ~StillUnavailable(c) /\ Cached(s, c, x.ref) = None
      /\ calling' = [calling EXCEPT ![s] = k]
      /\ again' = IF x.ref \in gone /\ s \notin Viewer THEN again \cup {x.ref} ELSE again
      /\ UNCHANGED <<reference, context, memory, lines, ordersAt, gone, told, moved>>
  BY DEF AskBrowse
<1>2. /\ Tells(x) /\ x.ref = reference[c] /\ x.ref \in ItemRef
      /\ context[c] # None => ~Final(c)
  BY <1>1, Enriching
<1>3. x.ref \notin gone
  BY <1>1, <1>2, CachedIs DEF Has
<1>4. Asking(s, k)
  <2>1. k.of = c /\ k.row = x /\ (k.new <=> context[c] = None)
    OBVIOUS
  <2>2. s \in Viewer => context[c] = None
    BY <1>1 DEF Wanted
  <2> QED
    BY <1>2, <1>3, <2>1, <2>2 DEF Asking
<1>5. RowsInv' /\ MemoryInv' /\ GoneInv'
  BY <1>1, <1>3 DEF Straight, RowsInv, Tells, MemoryInv, GoneInv, Has, Final
<1>6. CallInv'
  <2>1. DOMAIN calling' = Service /\ \A t \in Service : calling'[t] = IF t = s THEN k ELSE calling[t]
    BY <1>1 DEF Straight, CallInv
  <2>2. ASSUME NEW t \in Service, NEW j, j = calling'[t], j.of # None PROVE Asking(t, j)
    BY <1>4, <2>1, <2>2 DEF Straight, CallInv
  <2> QED
    BY <1>1, <2>1, <2>2 DEF CallInv, Asking, Final, Tells
<1> QED
  BY <1>5, <1>6 DEF Straight

LEMMA RetryStep ==
    ASSUME Straight, NEW s \in Service, NEW u \in BOOLEAN, RetryBrowse(s, u)
    PROVE  Straight'
<1> PICK k : k = calling[s]
  OBVIOUS
<1> PICK j : j = calling'[s]
  OBVIOUS
<1>1. k.of # None /\ UNCHANGED <<reference, context, memory, lines, ordersAt, gone, told, again, moved>>
  BY DEF RetryBrowse
<1>2. /\ DOMAIN calling' = Service /\ \A t \in Service \ {s} : calling'[t] = calling[t]
      /\ j.of = k.of /\ j.row = k.row /\ j.new = k.new
  BY DEF RetryBrowse, Straight, CallInv
<1>3. Asking(s, k)
  BY <1>1 DEF Straight, CallInv
<1>4. Asking(s, j)
  BY <1>2, <1>3 DEF Asking
<1>5. ASSUME NEW t \in Service, NEW i, i = calling'[t], i.of # None PROVE Asking(t, i)
  BY <1>2, <1>4, <1>5 DEF Straight, CallInv
<1>6. CallInv'
  BY <1>1, <1>2, <1>5 DEF CallInv, Asking, Final, Tells
<1>7. RowsInv' /\ MemoryInv' /\ GoneInv'
  BY <1>1 DEF Straight, RowsInv, Tells, MemoryInv, GoneInv, Has, Final
<1> QED
  BY <1>6, <1>7 DEF Straight

LEMMA AnswerStep ==
    ASSUME ProductContextAssumption, OneSync, Straight, NEW s \in Service,
           NEW answer \in {"item", "gone", "error"},
           BrowseAnswers(s, answer)
    PROVE  Straight'
<1> PICK k : k = calling[s]
  OBVIOUS
<1> PICK c, x, l : c = k.of /\ x = k.row /\ l = x.ref
  OBVIOUS
<1> PICK y : y = Answered(x, answer)
  OBVIOUS
<1>1. /\ c # None /\ (k.new => context[c] = None)
      /\ context' = [context EXCEPT ![c] = y] /\ Remember(s, l, c)
      /\ gone' = IF answer = "gone" /\ s \notin Viewer THEN gone \cup {l} ELSE gone
      /\ calling' = [calling EXCEPT ![s] = NoCall]
      /\ UNCHANGED <<reference, lines, ordersAt, again, moved>>
  BY DEF BrowseAnswers, Store
<1>2. Asking(s, k)
  BY <1>1 DEF Straight, CallInv
<1>3. c \in Conversation /\ Tells(x) /\ l = reference[c] /\ l \in ItemRef
  BY <1>2 DEF Asking, Tells, ContextSet
<1>4. /\ y \in ContextSet /\ y.ref = l /\ y.order = x.order /\ y.at = ordersAt
      /\ answer = "item" => y.status = "ENRICHED" /\ y.title = l
      /\ answer = "gone" => y.status = "UNAVAILABLE" /\ y.title = x.title
      /\ answer = "error" => y.status = "FAILED" /\ y.title = x.title
  <2>1. ordersAt \in Nat
    BY DEF Straight, RowsInv
  <2>2. CASE answer = "item"
    BY <1>3, <2>1, <2>2 DEF Answered, Tells, ContextSet, Terminal
  <2>3. CASE answer = "gone"
    BY <1>3, <2>1, <2>3 DEF Answered, Tells, ContextSet, Terminal
  <2>4. CASE answer = "error"
    BY <1>3, <2>1, <2>4 DEF Answered, Tells, ContextSet, Terminal
  <2> QED
    BY <2>2, <2>3, <2>4
<1>5. Tells(y) /\ y # None
  BY <1>3, <1>4 DEF Tells, Straight, RowsInv, ProductContextAssumption
<1>6. context[c] # None => ~Final(c)
  BY <1>1, <1>2 DEF Asking
<1>7. \A t \in Service \ {s} : calling[t].of = c => calling[t].new
  <2> SUFFICES ASSUME NEW t \in Service \ {s}, calling[t].of = c, ~calling[t].new PROVE FALSE
    OBVIOUS
  <2>1. t \notin Viewer /\ context[c] # None
    BY <1>1 DEF Straight, CallInv, Asking
  <2>2. s \notin Viewer
    BY <1>1, <1>2, <2>1 DEF Asking
  <2> QED
    BY <2>1, <2>2 DEF OneSync
<1>8. \A t \in Service \ {s} : t \in Viewer \/ gone' = gone
  BY <1>1 DEF OneSync
<1>9. /\ RowsInv'
      /\ \A d \in Conversation, m \in ItemRef : Has(d, m) => Has(d, m)'
      /\ \A d \in Conversation : context[d] # None /\ Final(d) => Final(d)'
      /\ \A t \in Service \ {s} : \A j : j = calling[t] /\ j.of # None => Asking(t, j)'
  <2>1. Stores(s, c, y)
    BY <1>1, <1>3, <1>4, <1>5, <1>6, <1>7, <1>8 DEF Stores
  <2>2. LeavesTheRest(s)
    BY <1>3, <2>1, Stored
  <2> QED
    BY <2>2 DEF LeavesTheRest
<1>10. Has(c, l)' /\ (answer = "gone" => Final(c)')
  BY <1>1, <1>3, <1>4, <1>5 DEF Has, Final, Straight, RowsInv, Terminal
<1>11. s \notin Viewer /\ l \in gone' => Final(c)'
  BY <1>1, <1>2, <1>10 DEF Asking
<1>12. MemoryInv'
  <2>1. gone' = gone \/ (gone' = gone \cup {l} /\ s \notin Viewer)
    BY <1>1
  <2> QED
    BY <1>1, <1>3, <1>9, <1>10, <1>11, <2>1, Remembered
<1>13. CallInv'
  <2>1. NoCall.of = None
    BY DEF NoCall
  <2> QED
    BY <1>1, <1>9, <2>1, OthersCall
<1>14. GoneInv'
  <2>1. again' = {} /\ gone' \subseteq ItemRef
    BY <1>1, <1>3 DEF Straight, GoneInv
  <2>2. ASSUME NEW m \in gone' PROVE \E d \in Conversation : Has(d, m)' /\ Final(d)'
    <3>1. CASE m \in gone
      BY <1>9, <3>1 DEF Straight, GoneInv, Has
    <3>2. CASE m \notin gone
      <4>1. m = l /\ answer = "gone"
        BY <1>1, <2>2, <3>2
      <4> QED
        BY <1>3, <1>10, <4>1
    <3> QED
      BY <3>1, <3>2
  <2> QED
    BY <2>1, <2>2 DEF GoneInv
<1> QED
  BY <1>9, <1>12, <1>13, <1>14 DEF Straight

LEMMA OutsideStep ==
    ASSUME ProductContextAssumption, Straight, moved' = {},
           \/ \E c \in Conversation, l \in ItemRef : SetReference(c, l)
           \/ \E l \in ItemRef, kind \in {"titled", "bare"} : OrdersSynced(l, kind)
           \/ \E s \in Service : SyncStarts(s) \/ InsertFails(s)
           \/ UNCHANGED productVars
    PROVE  Straight'
<1>1. ASSUME NEW c \in Conversation, NEW l \in ItemRef, SetReference(c, l) PROVE Straight'
  <2>1. /\ reference[c] = None /\ reference' = [reference EXCEPT ![c] = l]
        /\ UNCHANGED <<context, memory, calling, ordersAt, gone, again>>
    BY <1>1 DEF SetReference
  <2>2. RowsInv'
    BY <2>1 DEF Straight, RowsInv, Tells, ContextSet, ProductContextAssumption
  <2>3. MemoryInv' /\ GoneInv'
    BY <2>1 DEF Straight, MemoryInv, GoneInv, Has, Final
  <2>4. ASSUME NEW t \in Service, NEW j, j = calling[t], j.of # None PROVE Asking(t, j)'
    <3>1. Asking(t, j)
      BY <2>4 DEF Straight, CallInv
    <3>2. j.of # c
      BY <2>1, <3>1 DEF Asking, Tells, ContextSet, ProductContextAssumption
    <3> QED
      BY <2>1, <3>1, <3>2 DEF Asking, Final, Tells, Straight, RowsInv
  <2>5. CallInv'
    BY <2>1, <2>4 DEF Straight, CallInv
  <2> QED
    BY <2>2, <2>3, <2>5 DEF Straight
<1>2. ASSUME NEW l \in ItemRef, NEW kind \in {"titled", "bare"}, OrdersSynced(l, kind)
      PROVE  Straight'
  <2>1. /\ ordersAt' = ordersAt + 1 /\ ordersAt \in Nat
        /\ UNCHANGED <<reference, context, memory, calling, gone, again>>
    BY <1>2 DEF OrdersSynced, Straight, RowsInv
  <2>2. \A x : Tells(x) => Tells(x)'
    BY <2>1 DEF Tells
  <2>3. RowsInv' /\ MemoryInv' /\ GoneInv'
    BY <2>1, <2>2 DEF Straight, RowsInv, MemoryInv, GoneInv, Has, Final
  <2>4. CallInv'
    BY <2>1, <2>2 DEF Straight, CallInv, Asking, Final
  <2> QED
    BY <2>3, <2>4 DEF Straight
<1>3. ASSUME NEW s \in Service, SyncStarts(s) PROVE Straight'
  <2>1. memory' = [memory EXCEPT ![s] = Forgotten] /\ UNCHANGED <<reference, context, calling, ordersAt, gone, again>>
    BY <1>3 DEF SyncStarts
  <2>2. DOMAIN Forgotten = ItemRef /\ \A l \in ItemRef : Forgotten[l] = None
    BY DEF Forgotten
  <2>3. MemoryInv'
    BY <2>1, <2>2 DEF Straight, MemoryInv, Has, Final
  <2> QED
    BY <2>1, <2>3 DEF Straight, RowsInv, CallInv, GoneInv, Asking, Tells, Has, Final
<1>4. ASSUME NEW s \in Service, InsertFails(s) PROVE Straight'
  BY <1>4 DEF InsertFails
<1>5. CASE UNCHANGED productVars
  BY <1>5 DEF productVars, Straight, RowsInv, MemoryInv, CallInv, GoneInv, Asking, Tells, Has, Final
<1> QED
  BY <1>1, <1>2, <1>3, <1>4, <1>5

LEMMA InitInv == ASSUME ProductContextAssumption, ProductInit PROVE Straight
<1>1. RowsInv
  BY DEF ProductInit, RowsInv
<1>2. MemoryInv
  BY DEF ProductInit, MemoryInv, Forgotten, ProductContextAssumption
<1>3. CallInv /\ GoneInv
  BY DEF ProductInit, CallInv, GoneInv, NoCall
<1> QED
  BY <1>1, <1>2, <1>3 DEF Straight

LEMMA InvStep ==
    ASSUME ProductContextAssumption, OneSync, Inv, [ProductNext]_productVars
    PROVE  Inv'
<1> SUFFICES ASSUME moved' = {} PROVE Straight'
  BY DEF Inv
<1>1. moved = {}
  BY DEF ProductNext, productVars, SetReference, OrdersSynced, SyncStarts, InsertFails,
     EnrichLocally, EnrichFromCache,
         AskBrowse, RetryBrowse, BrowseAnswers
<1>2. Straight
  BY <1>1 DEF Inv
<1>3. ASSUME NEW s \in Service, NEW c \in Conversation,
             EnrichLocally(s, c) \/ EnrichFromCache(s, c) \/ AskBrowse(s, c)
      PROVE  Straight'
  BY <1>2, <1>3, LocallyStep, CacheStep, AskStep
<1>4. ASSUME NEW s \in Service, (\E u \in BOOLEAN : RetryBrowse(s, u))
                                \/ \E answer \in {"item", "gone", "error"} : BrowseAnswers(s, answer)
      PROVE  Straight'
  BY <1>2, <1>4, RetryStep, AnswerStep
<1>5. CASE \/ \E c \in Conversation, l \in ItemRef : SetReference(c, l)
           \/ \E l \in ItemRef, kind \in {"titled", "bare"} : OrdersSynced(l, kind)
           \/ \E s \in Service : SyncStarts(s) \/ InsertFails(s)
           \/ UNCHANGED productVars
  BY <1>2, <1>5, OutsideStep
<1> QED
  BY <1>3, <1>4, <1>5 DEF ProductNext

\* With one sync at a time beside any number of viewers, a context tells of the listing its
\* conversation is about, and no sync asks again for a listing eBay told a sync is gone: for
\* any conversations, listings, order syncs and retries.
THEOREM ContextsTellTheTruth ==
    ASSUME ProductContextAssumption, OneSync
    PROVE  ProductSpec => []ContextsFit
<1>1. ProductInit => Inv
  BY InitInv DEF Inv
<1>2. Inv /\ [ProductNext]_productVars => Inv'
  BY InvStep
<1>3. Inv => ContextsFit
  <2> SUFFICES ASSUME Inv, moved = {}
               PROVE  /\ again = {}
                      /\ \A c \in Conversation : context[c] # None => Tells(context[c])
    BY DEF ContextsFit, Contexts, Tells
  <2> QED
    BY DEF Inv, Straight, GoneInv, RowsInv
<1> QED
  BY <1>1, <1>2, <1>3, PTL DEF ProductSpec

(***************************************************************************)
(* The HTTP client (EbayClient): what a verdict says of one exchange.      *)
(***************************************************************************)
\* A reply whose 2xx or acknowledgement reports success follows a call that was applied,
\* and one that names a failure follows a call that was not.
LEMMA SaidOfResponse ==
    ASSUME NEW applied \in BOOLEAN, NEW r \in Says(applied)
    PROVE  /\ OfferResponse(r) = "ok" => applied
           /\ OfferResponse(r) = "failed" => ~applied
<1> SUFFICES ASSUME r.kind # "none"
             PROVE  /\ OfferResponse(r) = "ok" => applied
                    /\ OfferResponse(r) = "failed" => ~applied
  BY DEF OfferResponse
<1>1. CASE ~r.readable
  BY <1>1 DEF OfferResponse, Ambiguous, Confirmed, Acked, DefinitiveFailure
<1>2. CASE r.readable /\ applied
  <2>1. Confirmed(r) /\ r.kind = "ok"
    BY <1>2 DEF Says, Confirmed, Acked
  <2> QED
    BY <1>2, <2>1 DEF OfferResponse, Ambiguous
<1>3. CASE r.readable /\ ~applied
  <2>1. ~Confirmed(r)
    BY <1>3 DEF Says, Confirmed, Acked
  <2> QED
    BY <1>3, <2>1 DEF OfferResponse
<1> QED
  BY <1>1, <1>2, <1>3
LEMMA SaidOfTrading ==
    ASSUME NEW applied \in BOOLEAN, NEW r \in Says(applied), TradingCall(r) = "ok"
    PROVE  applied
<1>1. r.kind = "ok" /\ TradingAnswer(r) \in {"Success", "Warning"}
  BY DEF TradingCall
<1>2. r.readable /\ r.ack \in {"Success", "Warning"}
  BY <1>1 DEF TradingAnswer
<1> QED
  BY <1>1, <1>2 DEF Says

NoLineEmpty(body) == \A i \in DOMAIN body : body[i] # ""
\* What eBay shows of a body in which no line is left empty is all of it.
LEMMA EveryLineShown ==
    ASSUME NEW thread, NEW buyer, NEW body, NEW media, NEW listing,
           NEW request, request = Request(thread, buyer, body, media, listing),
           NoLineEmpty(body)
    PROVE  /\ Shown(request).thread = thread /\ Shown(request).buyer = buyer
           /\ Shown(request).listing = listing
           /\ DOMAIN Shown(request).body = DOMAIN body
           /\ \A i \in DOMAIN body : Shown(request).body[i] = body[i]
<1>1. {i \in DOMAIN body : body[i] # ""} = DOMAIN body
  BY DEF NoLineEmpty
<1> DEFINE whole == Restrict(body, {i \in DOMAIN body : body[i] # ""})
<1>2. whole = [i \in DOMAIN body |-> body[i]]
  BY <1>1 DEF Restrict
<1>3. DOMAIN whole = DOMAIN body /\ \A i \in DOMAIN body : whole[i] = body[i]
  BY <1>2
<1>4. request.body = body /\ request = Request(thread, buyer, body, media, listing)
  BY DEF Request
<1>5. PICK e : e = Shown(request) /\ e = [request EXCEPT !.body = whole]
  BY <1>4 DEF Shown
<1> HIDE DEF whole
<1> QED
  <2>1. e = [thread |-> thread, buyer |-> buyer, body |-> whole, media |-> media, listing |-> listing]
    BY ONLY <1>4, <1>5 DEF Request
  <2>2. e.thread = thread /\ e.buyer = buyer /\ e.listing = listing /\ e.body = whole
    BY ONLY <2>1
  <2> QED
    BY ONLY <1>3, <1>5, <2>2
LEMMA LinesKept ==
    ASSUME NEW body
    PROVE  /\ DOMAIN BodyForSend(body) = DOMAIN body
           /\ NoLineEmpty(BodyForSend(body))
           /\ \A i \in DOMAIN body : body[i] # "" => BodyForSend(body)[i] = body[i]
BY DEF BodyForSend, NoLineEmpty

\* What a send asks for, and what eBay holds when it does it.
SentAsAsked(asked, held) ==
    /\ asked.to \in {held.thread, held.buyer}
    /\ DOMAIN held.body = DOMAIN asked.body
    /\ \A i \in DOMAIN asked.body : asked.body[i] # "" => held.body[i] = asked.body[i]
    /\ held.listing = "item" <=> asked.listing = "item"
    /\ held.listing \in {Nil, "item"}
LEMMA MessageAsAsked ==
    ASSUME WireAssumption, NEW to, NEW body, NEW media, NEW listing \in Listing, NEW request,
           \/ request = SendConversationMessage(to, body, media, listing)
           \/ request = StartConversationMessage(to, body, media, listing)
    PROVE  SentAsAsked([to |-> to, body |-> body, media |-> media, listing |-> listing], Shown(request))
<1>1. PICK thread, buyer :
        /\ to \in {thread, buyer}
        /\ request = Request(thread, buyer, BodyForSend(body), media, Trimmed(listing))
  BY DEF SendConversationMessage, StartConversationMessage
<1>2. /\ Shown(request).thread = thread /\ Shown(request).buyer = buyer
      /\ Shown(request).listing = Trimmed(listing)
      /\ DOMAIN Shown(request).body = DOMAIN BodyForSend(body)
      /\ \A i \in DOMAIN BodyForSend(body) : Shown(request).body[i] = BodyForSend(body)[i]
  <2> DEFINE sent == BodyForSend(body)
  <2>1. NoLineEmpty(sent)
    BY LinesKept
  <2>2. request = Request(thread, buyer, sent, media, Trimmed(listing))
    BY <1>1
  <2> HIDE DEF sent
  <2>3. /\ Shown(request).thread = thread /\ Shown(request).buyer = buyer
        /\ Shown(request).listing = Trimmed(listing)
        /\ DOMAIN Shown(request).body = DOMAIN sent
        /\ \A i \in DOMAIN sent : Shown(request).body[i] = sent[i]
    BY ONLY <2>1, <2>2, EveryLineShown
  <2> QED
    BY <2>3 DEF sent
<1>3. Trimmed(listing) = "item" <=> listing = "item"
  BY DEF Trimmed, Listing, WireAssumption
<1>4. Trimmed(listing) \in {Nil, "item"}
  BY DEF Trimmed, Listing
<1> QED
  BY <1>1, <1>2, <1>3, <1>4, LinesKept DEF SentAsAsked
LEMMA TradingAsAsked ==
    ASSUME NEW call, NEW to, NEW media, NEW request,
           request = TradingMessage(call, "item", to, <<"text">>, media, Nil)
    PROVE  SentAsAsked([to |-> to, body |-> <<"text">>, media |-> media, listing |-> "item"], Shown(request))
<1>1. request = Request(Nil, to, <<"text">>, media, "item")
  BY DEF TradingMessage
<1> DEFINE body == <<"text">>
<1>2. /\ request = Request(Nil, to, body, media, "item")
      /\ NoLineEmpty(body)
  <2>1. DOMAIN body = {1} /\ body[1] = "text"
    OBVIOUS
  <2> QED
    BY <1>1, <2>1 DEF NoLineEmpty
<1> HIDE DEF body
<1>3. /\ Shown(request).thread = Nil /\ Shown(request).buyer = to
      /\ Shown(request).listing = "item"
      /\ DOMAIN Shown(request).body = DOMAIN body
      /\ \A i \in DOMAIN body : Shown(request).body[i] = body[i]
  BY ONLY <1>2, EveryLineShown
<1>4. SentAsAsked([to |-> to, body |-> body, media |-> media, listing |-> "item"], Shown(request))
  BY <1>3 DEF SentAsAsked
<1> QED
  BY <1>4 DEF body

LEMMA SendTruth ==
    ASSUME NEW op \in {"message", "trading"}, NEW asked, NEW request, NEW verdict,
           \A r \in Reply : verdict[r] = IF op = "trading" THEN TradingCall(r) ELSE MessageApi(r),
           SentAsAsked(asked, Shown(request)), Send(op, asked, request, verdict)
    PROVE  VerdictTruth'
<1>1. PICK applied \in BOOLEAN, r \in Reply :
        /\ r \in Says(applied)
        /\ r.kind = "ok" => (op = "trading" \/ applied)
        /\ Did(op, asked, applied, Shown(request), verdict[r])
  BY DEF Send, Says
<1>2. verdict[r] = "ok" => applied
  <2>1. CASE op = "trading"
    BY <1>1, <2>1, SaidOfTrading
  <2>2. CASE op # "trading"
    BY <1>1, <2>2 DEF MessageApi, Reply
  <2> QED
    BY <2>1, <2>2
<1>3. /\ exchange'.op = op /\ exchange'.asked = asked /\ exchange'.applied = applied
      /\ exchange'.held = Shown(request) /\ exchange'.verdict = verdict[r]
  BY <1>1 DEF Did
<1> QED
  BY <1>2, <1>3 DEF VerdictTruth, SentAsAsked

\* VerdictTruth of EbayClient, for any number of conversations, buyers and lines of text.
THEOREM VerdictsAreTrue == ASSUME WireAssumption PROVE WireSpec => []VerdictTruth
<1>1. WireInit => VerdictTruth
  BY DEF WireAssumption, WireInit, VerdictTruth
<1>2. VerdictTruth /\ [WireNext]_wireVars => VerdictTruth'
  <2> SUFFICES ASSUME VerdictTruth, [WireNext]_wireVars
               PROVE  VerdictTruth'
    OBVIOUS
  <2>1. CASE Respond
    <3>1. PICK applied \in BOOLEAN, r \in Reply :
            /\ r \in Says(applied)
            /\ Did("respond", Nil, applied, Nil, OfferResponse(r))
      BY <2>1 DEF Respond, Says
    <3>2. exchange'.op = "respond" /\ exchange'.applied = applied /\ exchange'.verdict = OfferResponse(r)
      BY <3>1 DEF Did
    <3> QED
      BY <3>1, <3>2, SaidOfResponse DEF VerdictTruth
  <2>2. CASE SendMessage
    <3>1. PICK body, listing, media, to, request :
            /\ listing \in Listing
            /\ \/ request = SendConversationMessage(to, body, media, listing)
               \/ request = StartConversationMessage(to, body, media, listing)
            /\ Send("message", [to |-> to, body |-> body, media |-> media, listing |-> listing],
                    request, [r \in Reply |-> MessageApi(r)])
      BY <2>2 DEF SendMessage
    <3>2. SentAsAsked([to |-> to, body |-> body, media |-> media, listing |-> listing], Shown(request))
      BY <3>1, MessageAsAsked
    <3> DEFINE asked == [to |-> to, body |-> body, media |-> media, listing |-> listing]
               verdict == [r \in Reply |-> MessageApi(r)]
    <3>3. \A r \in Reply : verdict[r] = IF "message" = "trading" THEN TradingCall(r) ELSE MessageApi(r)
      OBVIOUS
    <3>4. Send("message", asked, request, verdict) /\ SentAsAsked(asked, Shown(request))
      BY <3>1, <3>2
    <3> HIDE DEF asked, verdict
    <3> QED
      BY <3>3, <3>4, SendTruth
  <2>3. CASE SendTrading
    <3>1. PICK call, to, media, request :
            /\ request = TradingMessage(call, "item", to, <<"text">>, media, Nil)
            /\ Send("trading", [to |-> to, body |-> <<"text">>, media |-> media, listing |-> "item"],
                    request, [r \in Reply |-> TradingCall(r)])
      BY <2>3 DEF SendTrading
    <3> DEFINE asked == [to |-> to, body |-> <<"text">>, media |-> media, listing |-> "item"]
               verdict == [r \in Reply |-> TradingCall(r)]
    <3>2. SentAsAsked(asked, Shown(request))
      BY <3>1, TradingAsAsked
    <3>3. \A r \in Reply : verdict[r] = IF "trading" = "trading" THEN TradingCall(r) ELSE MessageApi(r)
      OBVIOUS
    <3>4. Send("trading", asked, request, verdict)
      BY <3>1
    <3> HIDE DEF asked, verdict
    <3> QED
      BY <3>2, <3>3, <3>4, SendTruth
  <2>4. CASE Read
    <3>1. PICK op \in Readings : exchange'.op = op
      BY <2>4 DEF Read, Did
    <3>2. op \notin {"respond", "message", "trading"}
      BY DEF Readings
    <3> QED
      BY <3>1, <3>2 DEF VerdictTruth
  <2>5. CASE Upload
    <3>1. exchange'.op = "upload"
      BY <2>5 DEF Upload, Did
    <3> QED
      BY <3>1 DEF VerdictTruth
  <2>6. CASE UNCHANGED wireVars
    BY <2>6 DEF wireVars, VerdictTruth
  <2> QED
    BY <2>1, <2>2, <2>3, <2>4, <2>5, <2>6 DEF WireNext
<1> QED
  BY <1>1, <1>2, PTL DEF WireSpec

(***************************************************************************)
(* Offers written by hand (OfferEntries): the entries, their audit trail   *)
(* and the requests between their reading and their commit.                *)
(***************************************************************************)
\* The columns of a row, and the rules of a closed one.
Well(v) == DOMAIN v = Field /\ v = [f \in Field |-> v[f]]
ClosedWell(v) ==
    v.status = "CLOSED" =>
        v.outcome \in ClosedOutcomes /\ v.remarks # Absent /\ v.follow = Absent

LEMMA Overlaid ==
    ASSUME NEW new, NEW old, DOMAIN new \subseteq Field, Well(old)
    PROVE  /\ Well(Over(new, old))
           /\ \A f \in Field : Over(new, old)[f] = IF f \in DOMAIN new THEN new[f] ELSE old[f]
<1>1. DOMAIN new \cup DOMAIN old = Field
  BY DEF Well
<1>2. Over(new, old) = [f \in Field |-> IF f \in DOMAIN new THEN new[f] ELSE old[f]]
  BY <1>1 DEF Over
<1> QED
  BY <1>2 DEF Well

\* _prepare_values(): what is stored of accepted values obeys the rules of a closed entry.
LEMMA PreparedWell ==
    ASSUME NEW values, DOMAIN values \subseteq Field, NEW old, Well(old), Accepted(Merged(values, old))
    PROVE  /\ DOMAIN PrepareValues(values, old) \subseteq Field
           /\ Well(Over(PrepareValues(values, old), old))
           /\ ClosedWell(Over(PrepareValues(values, old), old))
<1>1. PICK merged : merged = Merged(values, old)
  OBVIOUS
<1>2. /\ Well(merged)
      /\ \A f \in Field : merged[f] = IF f \in DOMAIN values THEN values[f] ELSE old[f]
  BY <1>1, Overlaid DEF Merged
<1>3. PICK high : high = IsHighValueAmount({merged.listed, merged.revised}, merged.quantity)
  OBVIOUS
<1>4. PICK closing : closing = Closing(values, merged)
  OBVIOUS
<1>5. PICK v : v = PrepareValues(values, old) /\ v = Over([high |-> high], closing)
  BY <1>1, <1>3, <1>4 DEF PrepareValues
<1>6. /\ DOMAIN closing \subseteq Field
      /\ \A f \in Field \ {"follow"} :
            /\ f \in DOMAIN closing <=> f \in DOMAIN values
            /\ f \in DOMAIN closing => closing[f] = values[f]
      /\ merged.status = "CLOSED" => "follow" \in DOMAIN closing /\ closing["follow"] = Absent
  <2>1. CASE merged.status = "CLOSED"
    <3>1. closing = Over([follow |-> Absent], values)
      BY <1>4, <2>1 DEF Closing
    <3>2. closing = [f \in {"follow"} \cup DOMAIN values |-> IF f \in {"follow"} THEN Absent ELSE values[f]]
      BY <3>1 DEF Over
    <3> QED
      BY <3>2 DEF Field
  <2>2. CASE merged.status # "CLOSED"
    BY <1>4, <2>2 DEF Closing
  <2> QED
    BY <2>1, <2>2
<1>7. /\ DOMAIN v = {"high"} \cup DOMAIN closing
      /\ \A f \in DOMAIN closing \ {"high"} : v[f] = closing[f]
  <2>1. v = [f \in {"high"} \cup DOMAIN closing |-> IF f \in {"high"} THEN high ELSE closing[f]]
    BY <1>5 DEF Over
  <2> QED
    BY <2>1
<1>8. DOMAIN v \subseteq Field
  BY <1>6, <1>7 DEF Field
<1>9. PICK o : o = Over(v, old) /\ Well(o) /\ \A f \in Field : o[f] = IF f \in DOMAIN v THEN v[f] ELSE old[f]
  BY <1>8, Overlaid
<1>10. \A f \in {"status", "outcome", "remarks"} : f \in Field /\ o[f] = merged[f]
  BY <1>2, <1>6, <1>7, <1>9 DEF Field
<1>11. merged.status = "CLOSED" => o["follow"] = Absent
  BY <1>6, <1>7, <1>9 DEF Field
<1>12. ClosedWell(o)
  BY <1>1, <1>10, <1>11 DEF ClosedWell, Accepted
<1> QED
  BY <1>5, <1>8, <1>9, <1>12

\* The changed columns, laid over the row that was loaded, make the row that was meant.
LEMMA ChangedOver ==
    ASSUME NEW values, DOMAIN values \subseteq Field, NEW old, Well(old)
    PROVE  /\ DOMAIN Changed(values, old) \subseteq Field
           /\ Over(Changed(values, old), old) = Over(values, old)
<1>1. PICK new : /\ new = Changed(values, old)
                 /\ DOMAIN new = {f \in DOMAIN values : values[f] # old[f]}
                 /\ \A f \in DOMAIN new : new[f] = values[f]
  <2> DEFINE fields == {f \in DOMAIN values : values[f] # old[f]}
  <2>1. Changed(values, old) = [f \in fields |-> values[f]]
    BY DEF Changed
  <2> QED
    BY <2>1
<1>2. DOMAIN new \subseteq Field
  BY <1>1
<1>3. \A f \in Field : Over(new, old)[f] = Over(values, old)[f]
  BY <1>1, <1>2, Overlaid
<1>4. Well(Over(new, old)) /\ Well(Over(values, old))
  BY <1>2, Overlaid
<1> QED
  BY <1>1, <1>2, <1>3, <1>4 DEF Well

\* The audit trail, replayed.
Sequence(h) == \E S : h \in Seq(S)
LEMMA LatestOf ==
    ASSUME NEW T \in SUBSET Nat, NEW x \in T, \A y \in T : y <= x
    PROVE  Max(T) = x
<1>1. \A z \in T : (\A y \in T : z >= y) => z = x
  OBVIOUS
<1>2. \A y \in T : x >= y
  OBVIOUS
<1> QED
  BY <1>1, <1>2 DEF Max
LEMMA ReplayedFirst ==
    ASSUME NEW v, Well(v)
    PROVE  Sequence(<<v>>) /\ Replayed(<<v>>) = v
<1>1. DOMAIN <<v>> = {1} /\ <<v>>[1] = v /\ <<v>> \in Seq({v})
  OBVIOUS
<1> DEFINE h == <<v>>
<1>2. \A f \in Field : {n \in DOMAIN h : f \in DOMAIN h[n]} = {1}
  BY <1>1 DEF Well
<1>3. Max({1}) = 1
  BY LatestOf
<1>4. Replayed(h) = [f \in Field |-> v[f]]
  BY <1>1, <1>2, <1>3 DEF Replayed
<1> QED
  BY <1>1, <1>4 DEF Well, Sequence
LEMMA ReplayedNext ==
    ASSUME NEW h, Sequence(h), NEW new, DOMAIN new \subseteq Field
    PROVE  Sequence(Append(h, new)) /\ Replayed(Append(h, new)) = Over(new, Replayed(h))
<1>1. PICK S : h \in Seq(S)
  BY DEF Sequence
<1>2. h \in Seq(S \cup {new})
  BY <1>1
<1>3. PICK g : g = Append(h, new)
  OBVIOUS
<1>4. PICK k \in Nat : /\ k = Len(h) /\ DOMAIN h = 1..k /\ DOMAIN g = 1..(k + 1)
                      /\ g[k + 1] = new /\ (\A n \in 1..k : g[n] = h[n]) /\ g \in Seq(S \cup {new})
  BY <1>2, <1>3
<1> DEFINE Lines(s, f) == {n \in DOMAIN s : f \in DOMAIN s[n]}
           Value(s, f) == IF Lines(s, f) = {} THEN Absent ELSE s[Max(Lines(s, f))][f]
<1>5. ASSUME NEW f \in DOMAIN new PROVE Value(g, f) = new[f]
  <2>1. k + 1 \in Lines(g, f) /\ Lines(g, f) \in SUBSET Nat /\ \A y \in Lines(g, f) : y <= k + 1
    BY <1>4, <1>5
  <2>2. Max(Lines(g, f)) = k + 1
    BY <2>1, LatestOf
  <2> QED
    BY <1>4, <2>1, <2>2
<1>6. ASSUME NEW f \in Field \ DOMAIN new PROVE Value(g, f) = Value(h, f)
  <2>1. Lines(g, f) = Lines(h, f)
    BY <1>4
  <2>2. CASE Lines(h, f) # {}
    <3>1. Lines(h, f) \in SUBSET Nat /\ \A y \in Lines(h, f) : y <= k
      BY <1>4
    <3>2. PICK x \in Lines(h, f) : \A y \in Lines(h, f) : y <= x
      BY <2>2, <3>1, GreatestElement
    <3>3. Max(Lines(h, f)) = x
      BY <3>1, <3>2, LatestOf
    <3> QED
      BY <1>4, <2>1, <3>2, <3>3
  <2> QED
    BY <2>1, <2>2
<1>7. Replayed(h) = [f \in Field |-> Value(h, f)] /\ Replayed(g) = [f \in Field |-> Value(g, f)]
  BY DEF Replayed
<1> HIDE DEF Value
<1>8. Well(Replayed(h)) /\ \A f \in Field : Replayed(h)[f] = Value(h, f)
  BY <1>7 DEF Well
<1>9. Over(new, Replayed(h)) = [f \in Field |-> IF f \in DOMAIN new THEN new[f] ELSE Value(h, f)]
  BY <1>8, Overlaid DEF Well
<1>10. \A f \in Field : Value(g, f) = IF f \in DOMAIN new THEN new[f] ELSE Value(h, f)
  BY <1>5, <1>6
<1> QED
  BY <1>3, <1>4, <1>7, <1>9, <1>10 DEF Sequence

\* A finite set of numbers has a greatest one.
LEMMA FiniteGreatest ==
    ASSUME NEW T \in SUBSET Nat, T # {}, IsFiniteSet(T)
    PROVE  \E x \in T : \A y \in T : y <= x
<1> DEFINE Bounded(s) == s = {} \/ \E x \in s : \A y \in s : y <= x
           P == {s \in SUBSET T : Bounded(s)}
<1>1. {} \in P
  OBVIOUS
<1>2. ASSUME NEW s \in SUBSET T, s # {}, \A x \in s : s \ {x} \in P
      PROVE  s \in P
  <2>1. PICK a \in s : TRUE
    BY <1>2
  <2>2. s \ {a} \in P
    BY <1>2
  <2>3. CASE s \ {a} = {}
    BY <2>3
  <2>4. CASE s \ {a} # {}
    <3>1. PICK b \in s \ {a} : \A y \in s \ {a} : y <= b
      BY <2>2, <2>4
    <3>2. a \in Nat /\ b \in Nat /\ \A y \in s : y \in Nat
      OBVIOUS
    <3>3. CASE a <= b
      BY <3>1, <3>3
    <3>4. CASE ~(a <= b)
      <4>1. \A y \in s : y <= a
        BY <3>1, <3>2, <3>4
      <4> QED
        BY <4>1
    <3> QED
      BY <3>3, <3>4
  <2> QED
    BY <2>3, <2>4
<1> HIDE DEF P
<1>3. SUBSET T \subseteq P
  <2>1. P \subseteq SUBSET T
    BY DEF P
  <2> QED
    BY ONLY <1>1, <1>2, <2>1, IsFiniteSet(T), SubsetInduction
<1>4. T \in P
  BY <1>3
<1> QED
  BY <1>4 DEF P

\* Of the first numbers after a set of used ones, one is free: the search for a row's number ends.
LEMMA NumberFree ==
    ASSUME NEW used \in SUBSET Nat, IsFiniteSet(used), NEW next \in Nat
    PROVE  \E n \in next .. next + Cardinality(used) :
             n \notin used /\ next .. n - 1 \subseteq used
<1> DEFINE k == Cardinality(used)
           R == next .. next + k
<1>1. k \in Nat
  BY FS_CardinalityType
<1> HIDE DEF k
<1>2. IsFiniteSet(R) /\ Cardinality(R) = k + 1
  BY <1>1, FS_Interval
<1>3. ~(R \subseteq used)
  <2> SUFFICES ASSUME R \subseteq used PROVE FALSE
    OBVIOUS
  <2>1. Cardinality(R) <= Cardinality(used)
    BY FS_Subset
  <2> QED
    BY <1>1, <1>2, <2>1 DEF k
<1> DEFINE F == {n \in R : n \notin used}
<1>4. F \in SUBSET Nat /\ F # {}
  BY <1>1, <1>3
<1>5. PICK n \in F : \A m \in F : n <= m
  BY <1>4, LeastElement
<1>6. \A m \in next .. n - 1 : m \in R /\ m \notin F
  BY <1>1, <1>5
<1>7. next .. n - 1 \subseteq used
  BY <1>6
<1> QED
  BY <1>5, <1>7 DEF k

\* The entries and their histories; numbers are unique.
EntriesInv ==
    /\ nextId \in Nat \ {0}
    /\ DOMAIN entries \subseteq 1 .. nextId - 1 /\ DOMAIN trail = DOMAIN entries
    /\ entries = [i \in DOMAIN entries |-> entries[i]] /\ trail = [i \in DOMAIN trail |-> trail[i]]
    /\ \A i \in DOMAIN entries :
         /\ entries[i] = [number |-> entries[i].number, values |-> entries[i].values]
         /\ entries[i].number \in Nat
         /\ Well(entries[i].values)
         /\ Sequence(trail[i]) /\ entries[i].values = Replayed(trail[i])
         /\ i \notin crossed => ClosedWell(entries[i].values)
    /\ \A i, j \in DOMAIN entries : entries[i].number = entries[j].number => i = j
    /\ \A r \in reports : r.said = r.stored

\* A request in flight, by itself.
RowWell(x) ==
    /\ x = [number |-> x.number, values |-> x.values]
    /\ x.number \in Nat /\ Well(x.values) /\ ClosedWell(x.values)
Legal(s) ==
    \/ s = Ready
    \/ s.at = "create" /\ s.number \in Nat /\ Well(s.values) /\ ClosedWell(s.values)
    \/ /\ s.at = "update"
       /\ DOMAIN s = {"at", "entry", "old", "over", "values"}
       /\ DOMAIN s.values \subseteq Field /\ Well(s.old) /\ ClosedWell(Over(s.values, s.old))
    \/ /\ s.at = "import"
       /\ DOMAIN s = {"at", "todo", "used", "next", "rows", "created", "skipped", "broken"}
       /\ s.todo \in Seq(SheetRows) /\ s.used \in SUBSET Nat /\ IsFiniteSet(s.used) /\ s.next \in Nat
       /\ Sequence(s.rows) /\ s.created = Len(s.rows)
       /\ \A k \in DOMAIN s.rows : RowWell(s.rows[k]) /\ s.rows[k].number \in s.used
       /\ \A j, k \in DOMAIN s.rows : s.rows[j].number = s.rows[k].number => j = k
\* An update that no other one overtook still has the row it loaded.
Abreast(s, es, n) ==
    s.at = "update" =>
        /\ s.entry \in 1 .. n - 1
        /\ ~s.over /\ s.entry \in DOMAIN es => es[s.entry].values = s.old
\* The numbers an import has given out are its own until it ends.
PendingOf(s) == IF s.at = "import" THEN {s.rows[k].number : k \in DOMAIN s.rows} ELSE {}
Taken(es) == {es[i].number : i \in DOMAIN es}
RequestsInv ==
    /\ DOMAIN serving = Clerk
    /\ \A w \in Clerk :
         /\ Legal(serving[w]) /\ Abreast(serving[w], entries, nextId)
         /\ PendingOf(serving[w]) \cap Taken(entries) = {}
    /\ \A w, o \in Clerk : w # o => PendingOf(serving[w]) \cap PendingOf(serving[o]) = {}

LEMMA PendingIs == (\A w : Pending(w) = PendingOf(serving[w])) /\ Numbers = Taken(entries)
BY DEF Pending, PendingOf, Numbers, Taken
LEMMA ReadyIs == Legal(Ready) /\ PendingOf(Ready) = {} /\ Ready.at = "free"
BY DEF Ready, Legal, PendingOf

LEMMA EntriesInitInv == EntriesInit => EntriesInv /\ RequestsInv
<1> SUFFICES ASSUME EntriesInit PROVE EntriesInv /\ RequestsInv
  OBVIOUS
<1>1. /\ entries = <<>> /\ trail = <<>> /\ nextId = 1 /\ reports = {} /\ crossed = {}
      /\ DOMAIN serving = Clerk /\ \A w \in Clerk : serving[w] = Ready
  BY DEF EntriesInit
<1>2. DOMAIN entries = {} /\ DOMAIN trail = {}
  BY <1>1
<1>3. EntriesInv
  <2>1. entries = [i \in DOMAIN entries |-> entries[i]] /\ trail = [i \in DOMAIN trail |-> trail[i]]
    BY <1>1
  <2> QED
    BY <1>1, <1>2, <2>1 DEF EntriesInv
<1>4. RequestsInv
  BY <1>1, <1>2, ReadyIs DEF RequestsInv, Abreast
<1> QED
  BY <1>3, <1>4

\* A step that changes one request, and nothing that is stored.
LEMMA RequestStep ==
    ASSUME EntriesInv, RequestsInv, NEW w \in Clerk, NEW s,
           serving' = [serving EXCEPT ![w] = s],
           UNCHANGED <<entries, trail, nextId, reports, crossed>>,
           Legal(s), Abreast(s, entries, nextId), PendingOf(s) \cap Taken(entries) = {},
           \A o \in Clerk \ {w} : PendingOf(s) \cap PendingOf(serving[o]) = {}
    PROVE  EntriesInv' /\ RequestsInv'
<1>1. EntriesInv'
  BY DEF EntriesInv
<1>2. DOMAIN serving' = Clerk /\ \A o \in Clerk : serving'[o] = IF o = w THEN s ELSE serving[o]
  BY DEF RequestsInv
<1>3. ASSUME NEW o \in Clerk
      PROVE  /\ Legal(serving'[o]) /\ Abreast(serving'[o], entries', nextId')
             /\ PendingOf(serving'[o]) \cap Taken(entries') = {}
  <2>1. CASE o = w
    BY <1>2, <2>1
  <2>2. CASE o # w
    BY <1>2, <2>2 DEF RequestsInv
  <2> QED
    BY <2>1, <2>2
<1>4. ASSUME NEW o \in Clerk, NEW p \in Clerk, o # p
      PROVE  PendingOf(serving'[o]) \cap PendingOf(serving'[p]) = {}
  <2>1. CASE o = w
    BY <1>2, <1>4, <2>1
  <2>2. CASE p = w
    BY <1>2, <1>4, <2>2
  <2>3. CASE o # w /\ p # w
    BY <1>2, <1>4, <2>3 DEF RequestsInv
  <2> QED
    BY <2>1, <2>2, <2>3
<1> QED
  BY <1>1, <1>2, <1>3, <1>4 DEF RequestsInv
LEMMA RequestEnds ==
    ASSUME EntriesInv, RequestsInv, NEW w \in Clerk, serving' = [serving EXCEPT ![w] = Ready],
           UNCHANGED <<entries, trail, nextId, reports, crossed>>
    PROVE  EntriesInv' /\ RequestsInv'
<1>1. Abreast(Ready, entries, nextId)
  BY ReadyIs DEF Abreast
<1> QED
  BY <1>1, ReadyIs, RequestStep

\* A step that inserts rows: of a creation or an import.
LEMMA InsertStep ==
    ASSUME EntriesInv, RequestsInv, NEW w \in Clerk, NEW new, Sequence(new), Inserted(w, new),
           serving' = [serving EXCEPT ![w] = Ready], crossed' = crossed,
           \A r \in reports' : r.said = r.stored,
           \A k \in DOMAIN new :
              /\ RowWell(new[k]) /\ new[k].number \notin Taken(entries)
              /\ \A o \in Clerk \ {w} : new[k].number \notin PendingOf(serving[o]),
           \A j, k \in DOMAIN new : new[j].number = new[k].number => j = k
    PROVE  EntriesInv' /\ RequestsInv'
<1>1. PICK len \in Nat : len = Len(new) /\ DOMAIN new = 1 .. len
  BY DEF Sequence
<1>2. nextId \in Nat \ {0} /\ DOMAIN entries \subseteq 1 .. nextId - 1 /\ DOMAIN trail = DOMAIN entries
  BY DEF EntriesInv
<1>3. /\ nextId' = nextId + len
      /\ DOMAIN entries' = DOMAIN entries \cup (nextId .. nextId + len - 1)
      /\ DOMAIN trail' = DOMAIN entries'
      /\ \A i \in DOMAIN entries' : entries'[i] = IF i < nextId THEN entries[i] ELSE new[i - nextId + 1]
      /\ \A i \in DOMAIN entries' : trail'[i] = IF i < nextId THEN trail[i] ELSE <<new[i - nextId + 1].values>>
      /\ entries' = [i \in DOMAIN entries' |-> entries'[i]] /\ trail' = [i \in DOMAIN trail' |-> trail'[i]]
  BY <1>1 DEF Inserted
<1>4. ASSUME NEW i \in DOMAIN entries'
      PROVE  \/ i < nextId /\ i \in DOMAIN entries /\ entries'[i] = entries[i] /\ trail'[i] = trail[i]
             \/ /\ i >= nextId /\ i - nextId + 1 \in DOMAIN new
                /\ entries'[i] = new[i - nextId + 1] /\ trail'[i] = <<new[i - nextId + 1].values>>
  <2>1. CASE i \in DOMAIN entries
    <3>1. i < nextId
      BY <1>2, <2>1
    <3> QED
      BY <1>3, <2>1, <3>1
  <2>2. CASE i \in nextId .. nextId + len - 1
    <3>1. i >= nextId /\ ~(i < nextId) /\ i - nextId + 1 \in 1 .. len
      BY <1>1, <1>2, <2>2
    <3> QED
      BY <1>1, <1>3, <3>1
  <2> QED
    BY <1>3, <2>1, <2>2
<1>5. ASSUME NEW i \in DOMAIN entries'
      PROVE  /\ entries'[i] = [number |-> entries'[i].number, values |-> entries'[i].values]
             /\ entries'[i].number \in Nat
             /\ Well(entries'[i].values)
             /\ Sequence(trail'[i]) /\ entries'[i].values = Replayed(trail'[i])
             /\ i \notin crossed' => ClosedWell(entries'[i].values)
  <2>1. CASE i \in DOMAIN entries /\ entries'[i] = entries[i] /\ trail'[i] = trail[i]
    BY <2>1 DEF EntriesInv
  <2>2. CASE /\ i - nextId + 1 \in DOMAIN new
             /\ entries'[i] = new[i - nextId + 1] /\ trail'[i] = <<new[i - nextId + 1].values>>
    <3>1. PICK x : x = new[i - nextId + 1] /\ RowWell(x)
      BY <2>2
    <3>2. Sequence(<<x.values>>) /\ Replayed(<<x.values>>) = x.values
      BY <3>1, ReplayedFirst DEF RowWell
    <3> QED
      BY <2>2, <3>1, <3>2 DEF RowWell
  <2> QED
    BY <1>4, <2>1, <2>2
<1>6. ASSUME NEW i \in DOMAIN entries', NEW j \in DOMAIN entries', entries'[i].number = entries'[j].number
      PROVE  i = j
  <2>1. \A k \in DOMAIN entries : \A m \in DOMAIN new : entries[k].number # new[m].number
    BY DEF Taken
  <2>2. CASE i < nextId /\ j < nextId
    <3>1. /\ i \in DOMAIN entries /\ entries'[i] = entries[i]
          /\ j \in DOMAIN entries /\ entries'[j] = entries[j]
      BY <1>2, <1>3, <2>2
    <3> QED
      BY <1>6, <3>1 DEF EntriesInv
  <2>3. CASE i >= nextId /\ j >= nextId
    <3>1. i - nextId + 1 = j - nextId + 1
      BY <1>2, <1>3, <1>4, <1>6, <2>3
    <3> QED
      BY <1>2, <1>3, <3>1
  <2>4. CASE ~(i < nextId /\ j < nextId) /\ ~(i >= nextId /\ j >= nextId)
    BY <1>2, <1>3, <1>4, <1>6, <2>1, <2>4
  <2> QED
    BY <2>2, <2>3, <2>4
<1>7. EntriesInv'
  <2>1. nextId' \in Nat \ {0} /\ DOMAIN entries' \subseteq 1 .. nextId' - 1
    BY <1>1, <1>2, <1>3
  <2> QED
    BY <1>3, <1>5, <1>6, <2>1 DEF EntriesInv
<1>8. Taken(entries') \subseteq Taken(entries) \cup {new[k].number : k \in DOMAIN new}
  BY <1>4 DEF Taken
<1>9. DOMAIN serving' = Clerk /\ \A o \in Clerk : serving'[o] = IF o = w THEN Ready ELSE serving[o]
  BY DEF RequestsInv
<1>10. ASSUME NEW o \in Clerk
       PROVE  /\ Legal(serving'[o]) /\ Abreast(serving'[o], entries', nextId')
              /\ PendingOf(serving'[o]) \cap Taken(entries') = {}
  <2>1. CASE o = w
    BY <1>9, <2>1, ReadyIs DEF Abreast
  <2>2. CASE o # w
    <3>1. serving'[o] = serving[o]
      BY <1>9, <2>2
    <3>2. PICK s : /\ s = serving[o] /\ Legal(s) /\ Abreast(s, entries, nextId)
                   /\ PendingOf(s) \cap Taken(entries) = {}
      BY DEF RequestsInv
    <3>3. PendingOf(s) \cap Taken(entries') = {}
      BY <1>8, <2>2, <3>2
    <3>4. ASSUME s.at = "update"
          PROVE  /\ s.entry \in 1 .. nextId' - 1
                 /\ ~s.over /\ s.entry \in DOMAIN entries' => entries'[s.entry].values = s.old
      <4>1. /\ s.entry \in 1 .. nextId - 1
            /\ ~s.over /\ s.entry \in DOMAIN entries => entries[s.entry].values = s.old
        BY <3>2, <3>4 DEF Abreast
      <4>2. s.entry \in 1 .. nextId' - 1 /\ s.entry < nextId
        BY <1>1, <1>2, <1>3, <4>1
      <4> QED
        BY <1>2, <1>4, <4>1, <4>2
    <3> QED
      BY <3>1, <3>2, <3>3, <3>4 DEF Abreast
  <2> QED
    BY <2>1, <2>2
<1>11. ASSUME NEW o \in Clerk, NEW p \in Clerk, o # p
       PROVE  PendingOf(serving'[o]) \cap PendingOf(serving'[p]) = {}
  BY <1>9, <1>11, ReadyIs DEF RequestsInv
<1> QED
  BY <1>7, <1>9, <1>10, <1>11 DEF RequestsInv

LEMMA NumbersTyped ==
    ASSUME EntriesInv
    PROVE  Numbers \in SUBSET Nat /\ IsFiniteSet(Numbers) /\ NextEntryNumber \in Nat
<1>1. IsFiniteSet(DOMAIN entries)
  <2>1. IsFiniteSet(1 .. nextId - 1)
    <3>1. 1 \in Int /\ nextId - 1 \in Int
      BY DEF EntriesInv
    <3> QED
      BY <3>1, FS_Interval
  <2> QED
    BY <2>1, FS_Subset DEF EntriesInv
<1>2. Numbers = {entries[i].number : i \in DOMAIN entries}
  BY DEF Numbers
<1>3. IsFiniteSet(Numbers)
  <2> DEFINE number == [i \in DOMAIN entries |-> entries[i].number]
  <2>1. number \in Surjection(DOMAIN entries, Numbers)
    BY <1>2 DEF Surjection
  <2> QED
    BY <1>1, <2>1, FS_Surjection
<1>4. Numbers \in SUBSET Nat
  BY <1>2 DEF EntriesInv
<1>5. IsFiniteSet(Numbers \cup {0}) /\ Numbers \cup {0} \in SUBSET Nat /\ Numbers \cup {0} # {}
  BY <1>3, <1>4, FS_AddElement
<1>6. PICK x \in Numbers \cup {0} : \A y \in Numbers \cup {0} : y <= x
  BY <1>5, FiniteGreatest
<1>7. Max(Numbers \cup {0}) = x /\ x \in Nat
  BY <1>5, <1>6, LatestOf
<1> QED
  BY <1>3, <1>4, <1>7 DEF NextEntryNumber

LEMMA BlankWell == Well(Blank)
BY DEF Well, Blank

LEMMA CreateReadsStep ==
    ASSUME OfferEntriesAssumption, EntriesInv, RequestsInv, NEW w \in Clerk, NEW form \in Forms,
           CreateReads(w, form)
    PROVE  EntriesInv' /\ RequestsInv'
<1> DEFINE values == Over(PrepareValues(form, Blank), Blank)
           s == [at |-> "create", number |-> NextEntryNumber, values |-> values]
<1>1. Well(values) /\ ClosedWell(values)
  BY BlankWell, PreparedWell DEF CreateReads, OfferEntriesAssumption
<1>2. serving' = [serving EXCEPT ![w] = s] /\ UNCHANGED <<entries, trail, nextId, reports, crossed>>
  BY DEF CreateReads
<1> HIDE DEF values
<1>3. /\ s.at = "create" /\ s.number \in Nat /\ s.values = values
  BY NumbersTyped
<1> HIDE DEF s
<1>4. Legal(s) /\ Abreast(s, entries, nextId) /\ PendingOf(s) = {}
  BY <1>1, <1>3 DEF Legal, Abreast, PendingOf
<1> QED
  BY <1>2, <1>4, RequestStep

LEMMA CreateCommitsStep ==
    ASSUME EntriesInv, RequestsInv, NEW w \in Clerk, CreateCommits(w)
    PROVE  EntriesInv' /\ RequestsInv'
<1>1. PICK s : /\ s = serving[w] /\ s.at = "create" /\ Legal(s)
               /\ ~Waits(w, s.number) /\ s.number \notin Numbers
               /\ Inserted(w, <<[number |-> s.number, values |-> s.values]>>)
               /\ serving' = [serving EXCEPT ![w] = Ready] /\ UNCHANGED <<reports, crossed>>
  BY DEF CreateCommits, RequestsInv
<1>2. s.number \in Nat /\ Well(s.values) /\ ClosedWell(s.values)
  BY <1>1, ReadyIs DEF Legal
<1> DEFINE x == [number |-> s.number, values |-> s.values]
           new == <<x>>
<1>3. RowWell(x) /\ x.number = s.number
  BY <1>2 DEF RowWell
<1> HIDE DEF x
<1>4. DOMAIN new = {1} /\ new[1] = x /\ new \in Seq({x})
  OBVIOUS
<1>5. /\ s.number \notin Taken(entries)
      /\ \A o \in Clerk \ {w} : s.number \notin PendingOf(serving[o])
  BY <1>1, PendingIs DEF Waits
<1>6. Inserted(w, new)
  BY <1>1 DEF x
<1> HIDE DEF new
<1>7. Sequence(new)
  BY <1>4 DEF Sequence
<1>8. \A k \in DOMAIN new :
         /\ RowWell(new[k]) /\ new[k].number \notin Taken(entries)
         /\ \A o \in Clerk \ {w} : new[k].number \notin PendingOf(serving[o])
  BY <1>3, <1>4, <1>5
<1>9. \A j, k \in DOMAIN new : new[j].number = new[k].number => j = k
  BY <1>4
<1>10. \A r \in reports' : r.said = r.stored
  BY <1>1 DEF EntriesInv
<1> QED
  BY <1>1, <1>6, <1>7, <1>8, <1>9, <1>10, InsertStep

LEMMA UpdateReadsStep ==
    ASSUME OfferEntriesAssumption, EntriesInv, RequestsInv, NEW w \in Clerk, NEW i, NEW edit \in Edits,
           UpdateReads(w, i, edit)
    PROVE  EntriesInv' /\ RequestsInv'
<1>1. PICK old : old = entries[i].values /\ Well(old) /\ i \in DOMAIN entries /\ Accepted(Merged(edit, old))
  BY DEF UpdateReads, EntriesInv
<1>2. PICK values : /\ values = PrepareValues(edit, old)
                    /\ DOMAIN values \subseteq Field /\ ClosedWell(Over(values, old))
  BY <1>1, PreparedWell DEF OfferEntriesAssumption
<1> DEFINE s == [at |-> "update", entry |-> i, old |-> old, over |-> FALSE, values |-> values]
<1>3. serving' = [serving EXCEPT ![w] = s] /\ UNCHANGED <<entries, trail, nextId, reports, crossed>>
  BY <1>1, <1>2 DEF UpdateReads
<1>4. /\ DOMAIN s = {"at", "entry", "old", "over", "values"}
      /\ s.at = "update" /\ s.entry = i /\ s.old = old /\ s.over = FALSE /\ s.values = values
  OBVIOUS
<1> HIDE DEF s
<1>5. i \in 1 .. nextId - 1
  BY <1>1 DEF EntriesInv
<1>6. Legal(s) /\ Abreast(s, entries, nextId) /\ PendingOf(s) = {}
  BY <1>1, <1>2, <1>4, <1>5 DEF Legal, Abreast, PendingOf
<1> QED
  BY <1>3, <1>6, RequestStep

\* The columns that an update changes, over the row as it is now, and its line of the trail.
LEMMA UpdateCommitsStep ==
    ASSUME EntriesInv, RequestsInv, NEW w \in Clerk, UpdateCommits(w)
    PROVE  EntriesInv' /\ RequestsInv'
<1>1. PICK s : s = serving[w] /\ s.at = "update" /\ s.entry \in DOMAIN entries
               /\ Legal(s) /\ Abreast(s, entries, nextId)
  BY DEF UpdateCommits, RequestsInv
<1>2. /\ DOMAIN s.values \subseteq Field /\ Well(s.old) /\ ClosedWell(Over(s.values, s.old))
  BY <1>1, ReadyIs DEF Legal
<1>3. PICK new : /\ new = Changed(s.values, s.old) /\ DOMAIN new \subseteq Field
                 /\ Over(new, s.old) = Over(s.values, s.old)
  BY <1>2, ChangedOver
<1>4. PICK e : e = s.entry
  OBVIOUS
<1>5. /\ entries' = [entries EXCEPT ![e].values = Over(new, @)]
      /\ trail' = [trail EXCEPT ![e] = IF DOMAIN new = {} THEN @ ELSE Append(@, new)]
      /\ crossed' = (IF s.over THEN crossed \cup {e} ELSE crossed)
      /\ DOMAIN serving' = Clerk
      /\ \A o \in Clerk : serving'[o] =
            IF o = w THEN Ready
            ELSE IF serving[o].at = "update" /\ serving[o].entry = e /\ DOMAIN new # {}
                 THEN [serving[o] EXCEPT !.over = TRUE]
            ELSE serving[o]
      /\ nextId' = nextId /\ reports' = reports
  BY <1>1, <1>3, <1>4 DEF UpdateCommits
<1>6. PICK v : v = entries[e].values /\ Well(v) /\ v = Replayed(trail[e]) /\ Sequence(trail[e])
  BY <1>1, <1>4 DEF EntriesInv
<1>7. PICK row : /\ row = Over(new, v) /\ Well(row)
                 /\ \A f \in Field : row[f] = IF f \in DOMAIN new THEN new[f] ELSE v[f]
  BY <1>3, <1>6, Overlaid
<1>8. DOMAIN new = {} => row = v
  BY <1>6, <1>7 DEF Well
<1>9. /\ DOMAIN entries' = DOMAIN entries /\ DOMAIN trail' = DOMAIN entries
      /\ entries' = [i \in DOMAIN entries' |-> entries'[i]] /\ trail' = [i \in DOMAIN trail' |-> trail'[i]]
      /\ \A i \in DOMAIN entries \ {e} : entries'[i] = entries[i] /\ trail'[i] = trail[i]
      /\ trail'[e] = IF DOMAIN new = {} THEN trail[e] ELSE Append(trail[e], new)
  <2>1. /\ DOMAIN trail = DOMAIN entries /\ e \in DOMAIN entries
        /\ entries = [i \in DOMAIN entries |-> entries[i]] /\ trail = [i \in DOMAIN trail |-> trail[i]]
    BY <1>1, <1>4 DEF EntriesInv
  <2>2. /\ DOMAIN entries' = DOMAIN entries
        /\ entries' = [i \in DOMAIN entries' |-> entries'[i]]
        /\ \A i \in DOMAIN entries \ {e} : entries'[i] = entries[i]
    BY ONLY <1>5, <2>1
  <2>3. PICK line : line = (IF DOMAIN new = {} THEN trail[e] ELSE Append(trail[e], new))
    OBVIOUS
  <2>4. trail' = [trail EXCEPT ![e] = line]
    BY ONLY <1>5, <2>3
  <2>5. /\ DOMAIN trail' = DOMAIN trail
        /\ trail' = [i \in DOMAIN trail' |-> trail'[i]]
        /\ \A i \in DOMAIN trail \ {e} : trail'[i] = trail[i]
        /\ trail'[e] = line
    BY ONLY <2>1, <2>4
  <2> QED
    BY <2>1, <2>2, <2>3, <2>5
<1>10. entries'[e] = [number |-> entries[e].number, values |-> row]
  <2>1. entries'[e] = [entries[e] EXCEPT !.values = row]
    BY <1>1, <1>4, <1>5, <1>6, <1>7 DEF EntriesInv
  <2>2. entries[e] = [number |-> entries[e].number, values |-> entries[e].values]
    BY <1>1, <1>4 DEF EntriesInv
  <2> QED
    BY <2>1, <2>2
<1>11. Sequence(trail'[e]) /\ row = Replayed(trail'[e])
  <2>1. CASE DOMAIN new = {}
    BY <1>6, <1>8, <1>9, <2>1
  <2>2. CASE DOMAIN new # {}
    <3>1. Sequence(Append(trail[e], new)) /\ Replayed(Append(trail[e], new)) = Over(new, Replayed(trail[e]))
      BY <1>3, <1>6, ReplayedNext
    <3> QED
      BY <1>6, <1>7, <1>9, <2>2, <3>1
  <2> QED
    BY <2>1, <2>2
<1>12. e \notin crossed' => ClosedWell(row)
  <2> SUFFICES ASSUME e \notin crossed' PROVE ClosedWell(row)
    OBVIOUS
  <2>1. ~s.over
    BY <1>5
  <2>2. v = s.old
    BY <1>1, <1>4, <1>6, <2>1 DEF Abreast
  <2> QED
    BY <1>2, <1>3, <1>7, <2>2
<1>13. ASSUME NEW i \in DOMAIN entries'
       PROVE  /\ entries'[i] = [number |-> entries'[i].number, values |-> entries'[i].values]
              /\ entries'[i].number = entries[i].number
              /\ entries'[i].number \in Nat
              /\ Well(entries'[i].values)
              /\ Sequence(trail'[i]) /\ entries'[i].values = Replayed(trail'[i])
              /\ i \notin crossed' => ClosedWell(entries'[i].values)
  <2>1. CASE i = e
    <3>1. entries[e].number \in Nat
      BY <1>1, <1>4 DEF EntriesInv
    <3> QED
      BY <1>7, <1>10, <1>11, <1>12, <2>1, <3>1
  <2>2. CASE i # e
    <3>1. i \in DOMAIN entries /\ entries'[i] = entries[i] /\ trail'[i] = trail[i]
      BY <1>9, <2>2
    <3>2. i \notin crossed' => i \notin crossed
      BY <1>5
    <3> QED
      BY <3>1, <3>2 DEF EntriesInv
  <2> QED
    BY <2>1, <2>2
<1>14. EntriesInv'
  <2>1. \A i, j \in DOMAIN entries' : entries'[i].number = entries'[j].number => i = j
    BY <1>9, <1>13 DEF EntriesInv
  <2>2. nextId' \in Nat \ {0} /\ DOMAIN entries' \subseteq 1 .. nextId' - 1
    BY <1>5, <1>9 DEF EntriesInv
  <2>3. \A r \in reports' : r.said = r.stored
    BY <1>5 DEF EntriesInv
  <2> QED
    BY <1>9, <1>13, <2>1, <2>2, <2>3 DEF EntriesInv
<1>15. Taken(entries') \subseteq Taken(entries)
  BY <1>9, <1>13 DEF Taken
<1>16. ASSUME NEW o \in Clerk
       PROVE  /\ Legal(serving'[o]) /\ Abreast(serving'[o], entries', nextId')
              /\ PendingOf(serving'[o]) \subseteq PendingOf(serving[o])
  <2>1. CASE o = w
    BY <1>5, <2>1, ReadyIs DEF Abreast
  <2> PICK r : r = serving[o] /\ Legal(r) /\ Abreast(r, entries, nextId)
    BY DEF RequestsInv
  <2>2. CASE o # w /\ r.at = "update" /\ r.entry = e /\ DOMAIN new # {}
    <3>1. /\ DOMAIN r = {"at", "entry", "old", "over", "values"}
          /\ DOMAIN r.values \subseteq Field /\ Well(r.old) /\ ClosedWell(Over(r.values, r.old))
      BY <2>2, ReadyIs DEF Legal
    <3>2. PICK q : q = serving'[o] /\ q = [r EXCEPT !.over = TRUE]
      BY <1>5, <2>2
    <3>4. /\ DOMAIN q = DOMAIN r
          /\ q.at = "update" /\ q.entry = r.entry /\ q.old = r.old /\ q.over = TRUE /\ q.values = r.values
      BY <2>2, <3>1, <3>2
    <3>5. Legal(q)
      BY <3>1, <3>4 DEF Legal
    <3>6. Abreast(q, entries', nextId') /\ PendingOf(q) = {}
      BY <1>5, <2>2, <3>4 DEF Abreast, PendingOf
    <3> QED
      BY <3>2, <3>5, <3>6
  <2>3. CASE o # w /\ ~(r.at = "update" /\ r.entry = e /\ DOMAIN new # {})
    <3>1. serving'[o] = r
      BY <1>5, <2>3
    <3>2. ASSUME r.at = "update", ~r.over, r.entry \in DOMAIN entries'
          PROVE  entries'[r.entry].values = r.old
      <4>1. r.entry \in DOMAIN entries /\ entries[r.entry].values = r.old
        BY <1>9, <3>2 DEF Abreast
      <4>2. CASE r.entry # e
        BY <1>9, <4>1, <4>2
      <4>3. CASE r.entry = e
        <5>1. row = v
          BY <1>8, <2>3, <3>2, <4>3
        <5> QED
          BY <1>6, <1>10, <4>1, <4>3, <5>1, entries'[e].values = row
      <4> QED
        BY <4>2, <4>3
    <3> QED
      BY <1>5, <3>1, <3>2 DEF Abreast
  <2> QED
    BY <2>1, <2>2, <2>3
<1>17. RequestsInv'
  <2>1. \A o \in Clerk : PendingOf(serving'[o]) \cap Taken(entries') = {}
    BY <1>15, <1>16 DEF RequestsInv
  <2>2. \A o, p \in Clerk : o # p => PendingOf(serving'[o]) \cap PendingOf(serving'[p]) = {}
    BY <1>16 DEF RequestsInv
  <2> QED
    BY <1>5, <1>16, <2>1, <2>2 DEF RequestsInv
<1> QED
  BY <1>14, <1>17

LEMMA DeleteManyStep ==
    ASSUME EntriesInv, RequestsInv, NEW ids, DeleteMany(ids)
    PROVE  EntriesInv' /\ RequestsInv'
<1>1. /\ DOMAIN entries' = DOMAIN entries \ ids /\ DOMAIN trail' = DOMAIN entries'
      /\ entries' = [i \in DOMAIN entries' |-> entries'[i]] /\ trail' = [i \in DOMAIN trail' |-> trail'[i]]
      /\ \A i \in DOMAIN entries' : entries'[i] = entries[i] /\ trail'[i] = trail[i]
      /\ UNCHANGED <<serving, nextId, reports, crossed>>
  BY DEF DeleteMany, EntriesInv
<1>2. EntriesInv'
  BY <1>1 DEF EntriesInv
<1>3. Taken(entries') \subseteq Taken(entries)
  BY <1>1 DEF Taken
<1>4. ASSUME NEW o \in Clerk PROVE Abreast(serving'[o], entries', nextId')
  BY <1>1 DEF RequestsInv, Abreast
<1> QED
  BY <1>1, <1>2, <1>3, <1>4 DEF RequestsInv

LEMMA ImportReadsStep ==
    ASSUME OfferEntriesAssumption, EntriesInv, RequestsInv, NEW w \in Clerk, NEW sheet \in Sheets,
           ImportReads(w, sheet)
    PROVE  EntriesInv' /\ RequestsInv'
<1>1. PICK used, next : /\ used = Numbers /\ next = NextEntryNumber
                        /\ used \in SUBSET Nat /\ IsFiniteSet(used) /\ next \in Nat
  BY NumbersTyped
<1> DEFINE s == [at |-> "import", todo |-> sheet, used |-> used, next |-> next,
                 rows |-> <<>>, created |-> 0, skipped |-> 0, broken |-> FALSE]
<1>2. serving' = [serving EXCEPT ![w] = s] /\ UNCHANGED <<entries, trail, nextId, reports, crossed>>
  BY <1>1 DEF ImportReads
<1>3. /\ DOMAIN s = {"at", "todo", "used", "next", "rows", "created", "skipped", "broken"}
      /\ s.at = "import" /\ s.todo = sheet /\ s.used = used /\ s.next = next /\ s.rows = <<>> /\ s.created = 0
  OBVIOUS
<1> HIDE DEF s
<1>4. sheet \in Seq(SheetRows)
  BY DEF OfferEntriesAssumption
<1>5. DOMAIN s.rows = {} /\ Len(s.rows) = 0 /\ Sequence(s.rows)
  <2>1. <<>> \in Seq({})
    OBVIOUS
  <2> QED
    BY <1>3, <2>1 DEF Sequence
<1>6. Legal(s) /\ Abreast(s, entries, nextId) /\ PendingOf(s) = {}
  BY <1>1, <1>3, <1>4, <1>5 DEF Legal, Abreast, PendingOf
<1> QED
  BY <1>2, <1>6, RequestStep

\* The number of a row is not used yet: asked for, or the next that is free.
LEMMA RowNumberFree ==
    ASSUME NEW s, s.used \in SUBSET Nat, IsFiniteSet(s.used), s.next \in Nat,
           NEW row, row.number \in Nat \cup {Absent}
    PROVE  RowNumber(s, row) \in Nat \ s.used
<1>1. CASE row.number # Absent /\ row.number \notin s.used
  BY <1>1 DEF RowNumber
<1>2. CASE ~(row.number # Absent /\ row.number \notin s.used)
  <2> DEFINE R == s.next .. s.next + Cardinality(s.used)
             Vacant(n) == n \notin s.used /\ s.next .. n - 1 \subseteq s.used
  <2>1. \E n \in R : Vacant(n)
    BY NumberFree
  <2>2. RowNumber(s, row) = CHOOSE n \in R : Vacant(n)
    BY <1>2 DEF RowNumber
  <2>3. R \subseteq Nat
    BY FS_CardinalityType
  <2> HIDE DEF R
  <2> QED
    BY <2>1, <2>2, <2>3
<1> QED
  BY <1>1, <1>2

LEMMA ImportRowStep ==
    ASSUME OfferEntriesAssumption, EntriesInv, RequestsInv, NEW w \in Clerk, ImportRow(w)
    PROVE  EntriesInv' /\ RequestsInv'
<1>1. PICK s, row, n :
        /\ s = serving[w] /\ row = Head(s.todo) /\ n = RowNumber(s, row)
        /\ s.at = "import" /\ s.todo # <<>>
        /\ (~s.broken /\ ~row.bad) => ~Waits(w, n)
        /\ serving' = [serving EXCEPT ![w] =
             IF s.broken \/ row.bad THEN Skipped(s)
             ELSE IF n \in Numbers THEN RowFails(s)
             ELSE [s EXCEPT !.todo = Tail(@), !.created = @ + 1, !.used = @ \cup {n}, !.next = Max({@, n + 1}),
                            !.rows = Append(@, [number |-> n, values |-> RowValues(row)])]]
        /\ UNCHANGED <<entries, trail, nextId, reports, crossed>>
  BY DEF ImportRow
<1>2. Legal(s) /\ PendingOf(s) \cap Taken(entries) = {}
      /\ \A o \in Clerk \ {w} : PendingOf(s) \cap PendingOf(serving[o]) = {}
  BY <1>1 DEF RequestsInv
<1>3. /\ DOMAIN s = {"at", "todo", "used", "next", "rows", "created", "skipped", "broken"}
      /\ s.todo \in Seq(SheetRows) /\ s.used \in SUBSET Nat /\ IsFiniteSet(s.used) /\ s.next \in Nat
      /\ Sequence(s.rows) /\ s.created = Len(s.rows)
      /\ \A k \in DOMAIN s.rows : RowWell(s.rows[k]) /\ s.rows[k].number \in s.used
      /\ \A j, k \in DOMAIN s.rows : s.rows[j].number = s.rows[k].number => j = k
  BY <1>1, <1>2, ReadyIs DEF Legal
<1>4. row \in SheetRows /\ Tail(s.todo) \in Seq(SheetRows)
  BY <1>1, <1>3
<1>6. n \in Nat \ s.used
  BY <1>1, <1>3, <1>4, RowNumberFree DEF OfferEntriesAssumption
\* A row that is skipped, whether or not it breaks the session.
<1>7. ASSUME NEW z, DOMAIN z = DOMAIN s,
             z.at = "import" /\ z.todo = Tail(s.todo) /\ z.used = s.used /\ z.next = s.next
               /\ z.rows = s.rows /\ z.created = s.created,
             serving' = [serving EXCEPT ![w] = z]
      PROVE  EntriesInv' /\ RequestsInv'
  <2>1. Legal(z) /\ Abreast(z, entries, nextId)
    BY <1>3, <1>4, <1>7 DEF Legal, Abreast
  <2>2. PendingOf(z) = PendingOf(s)
    BY <1>1, <1>7 DEF PendingOf
  <2>3. /\ PendingOf(z) \cap Taken(entries) = {}
        /\ \A o \in Clerk \ {w} : PendingOf(z) \cap PendingOf(serving[o]) = {}
    BY <1>2, <2>2
  <2>4. UNCHANGED <<entries, trail, nextId, reports, crossed>>
    BY <1>1
  <2> QED
    BY ONLY <1>7, <2>1, <2>3, <2>4, EntriesInv, RequestsInv, w \in Clerk, RequestStep
<1>8. CASE s.broken \/ row.bad
  <2>1. PICK z : z = Skipped(s)
    OBVIOUS
  <2>2. /\ DOMAIN z = DOMAIN s
        /\ z.at = s.at /\ z.todo = Tail(s.todo) /\ z.used = s.used /\ z.next = s.next
        /\ z.rows = s.rows /\ z.created = s.created
    BY <1>3, <2>1 DEF Skipped
  <2> QED
    BY <1>1, <1>7, <1>8, <2>1, <2>2
<1>9. CASE ~(s.broken \/ row.bad) /\ n \in Numbers
  <2>1. PICK y : y = Skipped(s)
    OBVIOUS
  <2>2. /\ DOMAIN y = DOMAIN s
        /\ y.at = s.at /\ y.todo = Tail(s.todo) /\ y.used = s.used /\ y.next = s.next
        /\ y.rows = s.rows /\ y.created = s.created
    BY <1>3, <2>1 DEF Skipped
  <2>3. PICK z : z = RowFails(s) /\ z = [y EXCEPT !.broken = TRUE]
    BY <2>1 DEF RowFails
  <2>4. /\ DOMAIN z = DOMAIN s
        /\ z.at = s.at /\ z.todo = Tail(s.todo) /\ z.used = s.used /\ z.next = s.next
        /\ z.rows = s.rows /\ z.created = s.created
    BY <1>3, <2>2, <2>3
  <2> QED
    BY <1>1, <1>7, <1>9, <2>3, <2>4
<1>10. CASE ~(s.broken \/ row.bad) /\ n \notin Numbers
  <2> DEFINE x == [number |-> n, values |-> RowValues(row)]
  <2>1. RowWell(x) /\ x.number = n
    <3>1. RowValues(row).status = "OPEN"
      BY DEF RowValues, Field
    <3>2. Well(RowValues(row))
      BY DEF RowValues, Well
    <3> QED
      BY <1>6, <3>1, <3>2 DEF RowWell, ClosedWell
  <2>2. PICK top : top = Max({s.next, n + 1}) /\ top \in Nat
    <3>1. \E y \in {s.next, n + 1} : \A m \in {s.next, n + 1} : y >= m
      BY <1>3, <1>6
    <3>2. Max({s.next, n + 1}) \in {s.next, n + 1}
      BY <3>1 DEF Max
    <3> QED
      BY <1>3, <1>6, <3>2
  <2> HIDE DEF x
  <2>3. PICK more : more = Append(s.rows, x)
    OBVIOUS
  <2>4. PICK k \in Nat : /\ k = Len(s.rows) /\ DOMAIN s.rows = 1 .. k /\ DOMAIN more = 1 .. (k + 1)
                         /\ more[k + 1] = x /\ (\A j \in 1 .. k : more[j] = s.rows[j])
                         /\ Sequence(more) /\ Len(more) = k + 1
    <3>1. PICK S : s.rows \in Seq(S)
      BY <1>3 DEF Sequence
    <3>2. s.rows \in Seq(S \cup {x})
      BY <3>1
    <3>3. more \in Seq(S \cup {x})
      BY <2>3, <3>2
    <3> QED
      BY <2>3, <3>2, <3>3 DEF Sequence
  <2>5. PICK z : z = [s EXCEPT !.todo = Tail(@), !.created = @ + 1, !.used = @ \cup {n},
                             !.next = Max({@, n + 1}), !.rows = Append(@, x)]
    OBVIOUS
  <2>6. serving' = [serving EXCEPT ![w] = z]
    BY <1>1, <1>10, <2>5 DEF x
  <2>7. /\ DOMAIN z = DOMAIN s
        /\ z.at = s.at /\ z.todo = Tail(s.todo) /\ z.used = s.used \cup {n} /\ z.next = top /\ z.rows = more
        /\ z.created = s.created + 1
    BY <1>3, <2>2, <2>3, <2>5
  <2>8. ASSUME NEW j \in DOMAIN more PROVE RowWell(more[j]) /\ more[j].number \in s.used \cup {n}
    <3>1. CASE j = k + 1
      BY <2>1, <2>4, <3>1
    <3>2. CASE j \in 1 .. k
      BY <1>3, <2>4, <3>2
    <3> QED
      BY <2>4, <3>1, <3>2
  <2>9. ASSUME NEW j \in DOMAIN more, NEW m \in DOMAIN more, more[j].number = more[m].number
        PROVE  j = m
    <3>1. \A i \in 1 .. k : more[i] = s.rows[i] /\ i \in DOMAIN s.rows /\ more[i].number \in s.used
      BY <1>3, <2>4
    <3>2. CASE j \in 1 .. k /\ m \in 1 .. k
      BY <1>3, <2>9, <3>1, <3>2
    <3>3. CASE j = k + 1 /\ m = k + 1
      BY <3>3
    <3>4. CASE j = k + 1 /\ m \in 1 .. k
      BY <1>6, <2>1, <2>4, <2>9, <3>1, <3>4
    <3>5. CASE m = k + 1 /\ j \in 1 .. k
      BY <1>6, <2>1, <2>4, <2>9, <3>1, <3>5
    <3> QED
      BY <2>4, <3>2, <3>3, <3>4, <3>5
  <2>10. Legal(z) /\ Abreast(z, entries, nextId)
    <3>1. IsFiniteSet(s.used \cup {n}) /\ s.used \cup {n} \in SUBSET Nat
      BY <1>3, <1>6, FS_AddElement
    <3>2. s.created + 1 = Len(more)
      BY <1>3, <2>4
    <3> QED
      BY <1>1, <1>3, <1>4, <2>2, <2>4, <2>7, <2>8, <2>9, <3>1, <3>2 DEF Legal, Abreast
  <2>11. PendingOf(z) \subseteq PendingOf(s) \cup {n}
    <3>1. PendingOf(s) = {s.rows[i].number : i \in DOMAIN s.rows}
      BY <1>1 DEF PendingOf
    <3>2. PendingOf(z) = {more[i].number : i \in DOMAIN more}
      BY <1>1, <2>7 DEF PendingOf
    <3> QED
      BY <2>1, <2>4, <3>1, <3>2
  <2>12. n \notin Taken(entries) /\ \A o \in Clerk \ {w} : n \notin PendingOf(serving[o])
    BY <1>1, <1>10, PendingIs DEF Waits
  <2> QED
    <3>1. /\ PendingOf(z) \cap Taken(entries) = {}
          /\ \A o \in Clerk \ {w} : PendingOf(z) \cap PendingOf(serving[o]) = {}
      BY <1>2, <2>11, <2>12
    <3>2. UNCHANGED <<entries, trail, nextId, reports, crossed>>
      BY <1>1
    <3> QED
      BY ONLY <2>6, <2>10, <3>1, <3>2, EntriesInv, RequestsInv, w \in Clerk, RequestStep
<1> QED
  BY <1>8, <1>9, <1>10

LEMMA ImportCommitsStep ==
    ASSUME EntriesInv, RequestsInv, NEW w \in Clerk, ImportCommits(w)
    PROVE  EntriesInv' /\ RequestsInv'
<1>1. PICK s : /\ s = serving[w] /\ s.at = "import" /\ Legal(s) /\ PendingOf(s) \cap Taken(entries) = {}
               /\ Inserted(w, s.rows)
               /\ reports' = reports \cup {[said |-> s.created, stored |-> Len(s.rows), rest |-> s.skipped]}
               /\ serving' = [serving EXCEPT ![w] = Ready] /\ crossed' = crossed
  BY DEF ImportCommits, RequestsInv
<1>2. /\ Sequence(s.rows) /\ s.created = Len(s.rows)
      /\ \A k \in DOMAIN s.rows : RowWell(s.rows[k])
      /\ \A j, k \in DOMAIN s.rows : s.rows[j].number = s.rows[k].number => j = k
  BY <1>1, ReadyIs DEF Legal
<1>3. \A r \in reports' : r.said = r.stored
  BY <1>1, <1>2 DEF EntriesInv
<1>4. \A k \in DOMAIN s.rows : s.rows[k].number \in PendingOf(s)
  BY <1>1 DEF PendingOf
<1>5. \A o \in Clerk \ {w} : PendingOf(s) \cap PendingOf(serving[o]) = {}
  BY <1>1 DEF RequestsInv
<1> PICK new : new = s.rows
  OBVIOUS
<1>6. \A k \in DOMAIN new :
         /\ RowWell(new[k]) /\ new[k].number \notin Taken(entries)
         /\ \A o \in Clerk \ {w} : new[k].number \notin PendingOf(serving[o])
  BY <1>1, <1>2, <1>4, <1>5
<1>7. /\ Sequence(new) /\ Inserted(w, new)
      /\ \A j, k \in DOMAIN new : new[j].number = new[k].number => j = k
  BY <1>1, <1>2
<1> QED
  BY ONLY <1>1, <1>3, <1>6, <1>7, InsertStep, EntriesInv, RequestsInv, w \in Clerk

LEMMA EntriesInvStep ==
    ASSUME OfferEntriesAssumption, EntriesInv, RequestsInv, [EntriesNext]_entryVars
    PROVE  EntriesInv' /\ RequestsInv'
<1>1. ASSUME NEW w \in Clerk, NEW form \in Forms, CreateReads(w, form)
      PROVE  EntriesInv' /\ RequestsInv'
  BY <1>1, CreateReadsStep
<1>2. ASSUME NEW w \in Clerk, CreateCommits(w) PROVE EntriesInv' /\ RequestsInv'
  BY <1>2, CreateCommitsStep
<1>3. ASSUME NEW w \in Clerk, CreateFails(w) \/ UpdateFails(w) \/ ImportFails(w)
      PROVE  EntriesInv' /\ RequestsInv'
  BY <1>3, RequestEnds DEF CreateFails, UpdateFails, ImportFails
<1>4. ASSUME NEW w \in Clerk, NEW i, NEW edit \in Edits, UpdateReads(w, i, edit)
      PROVE  EntriesInv' /\ RequestsInv'
  BY <1>4, UpdateReadsStep
<1>5. ASSUME NEW w \in Clerk, UpdateCommits(w) PROVE EntriesInv' /\ RequestsInv'
  BY <1>5, UpdateCommitsStep
<1>6. ASSUME NEW w \in Clerk, NEW sheet \in Sheets, ImportReads(w, sheet)
      PROVE  EntriesInv' /\ RequestsInv'
  BY <1>6, ImportReadsStep
<1>7. ASSUME NEW w \in Clerk, ImportRow(w) PROVE EntriesInv' /\ RequestsInv'
  BY <1>7, ImportRowStep
<1>8. ASSUME NEW w \in Clerk, ImportCommits(w) PROVE EntriesInv' /\ RequestsInv'
  BY <1>8, ImportCommitsStep
<1>9. ASSUME NEW ids, DeleteMany(ids) PROVE EntriesInv' /\ RequestsInv'
  BY <1>9, DeleteManyStep
<1>10. ASSUME UNCHANGED entryVars PROVE EntriesInv' /\ RequestsInv'
  BY <1>10 DEF entryVars, EntriesInv, RequestsInv
<1> QED
  BY <1>1, <1>2, <1>3, <1>4, <1>5, <1>6, <1>7, <1>8, <1>9, <1>10 DEF EntriesNext

\* EntriesExplained of OfferEntries, for any clerks, forms, edits and sheets, and any number of
\* entries and edits: a closed entry keeps its rules unless two edits of it overlapped, every
\* entry is what its audit trail replays to, whatever overlapped, numbers are unique over
\* creations and imports at once, and an import stored what it says.
THEOREM EntriesAreExplained ==
    ASSUME OfferEntriesAssumption PROVE EntriesSpec => []EntriesExplained
<1>1. EntriesInv /\ RequestsInv /\ [EntriesNext]_entryVars => EntriesInv' /\ RequestsInv'
  BY EntriesInvStep
<1>2. EntriesInv => EntriesExplained
  BY DEF EntriesInv, EntriesExplained, ClosedWell, OpenOffers, FollowUps
<1> QED
  BY <1>1, <1>2, EntriesInitInv, PTL DEF EntriesSpec

----------------------------------------------------------------------------
(***************************************************************************)
(* Sold postings (SoldPosting): pages that shift while a sync walks them,  *)
(* rows it holds until its commit, and the agents' edits of others.        *)
(***************************************************************************)
Sale == [payload : Payload, version : Nat]
ShownWell(o) ==
    /\ DOMAIN o = {"version", "status", "paid", "carrier", "condition", "created"}
    /\ o.version \in Nat /\ o.created \in Int
SaleRowWell(x) == DOMAIN x = {"order", "note", "copies"} /\ ShownWell(x.order) /\ x.copies \in Nat
VersionOf(sales, k) == sales[k[1]][k[2]].version

\* A function, and the keys of a page.
IsMap(f) == f = [k \in DOMAIN f |-> f[k]]
KeysOf(a, page) == {<<a, n>> : n \in ToSet(page)}
\* Rows of orders eBay has, no newer than they are there.
RowsOfSales(rows, sales) ==
    /\ IsMap(rows)
    /\ \A k \in DOMAIN rows :
         /\ k \in Account \X Nat /\ k[2] \in DOMAIN sales[k[1]]
         /\ SaleRowWell(rows[k]) /\ rows[k].order.version <= VersionOf(sales, k)

\* Of the orders a sync has to bring: it holds this one, or has committed it, at least as new.
AtLeast(rows, k, version) == k \in DOMAIN rows /\ rows[k].order.version >= version
Brought(s, rows, n) ==
    LET k == <<FirstOf(s.todo), n>> IN
    AtLeast(s.held, k, s.due[n].version) \/ AtLeast(rows, k, s.due[n].version)
\* Or it is on a page to come; unless the limit of pages has ended the sync.
ToCome(s, sales, n) ==
    IF s.at = "page" THEN Len(sales[FirstOf(s.todo)]) - n + 1 > s.offset ELSE s.pages >= MaxPages

WalkingWell(s, sales, rows) ==
    /\ DOMAIN s = {"at", "todo", "offset", "pages", "attempt", "refreshed", "held", "due"}
    /\ s.todo \subseteq Account /\ s.todo # {} /\ s.offset \in Nat /\ s.pages \in Nat
    /\ RowsOfSales(s.held, sales)
    /\ \A k \in DOMAIN s.held :
         /\ k[1] = FirstOf(s.todo) /\ s.held[k].copies = 0
         /\ k \in DOMAIN rows => rows[k].order.version <= s.held[k].order.version
    /\ s.due \in Seq(Sale) /\ Len(s.due) <= Len(sales[FirstOf(s.todo)])
    /\ \A n \in DOMAIN s.due :
         /\ s.due[n].version <= sales[FirstOf(s.todo)][n].version
         /\ Brought(s, rows, n) \/ ToCome(s, sales, n)
SyncWell(s, sales, rows) ==
    \/ s = AtRest
    \/ s.at = "account" /\ DOMAIN s = {"at", "todo"} /\ s.todo \subseteq Account
    \/ s.at \in {"page", "done"} /\ WalkingWell(s, sales, rows)

\* Two syncs hold no row together.
HeldOnce == \A p, q \in Process : p # q => \A k \in Account \X Nat : ~(Holds(p, k) /\ Holds(q, k))
SoldInv ==
    /\ sold \in [Account -> Seq(Sale)] /\ \A a \in Account : Len(sold[a]) <= MaxOrders
    /\ RowsOfSales(stored, sold)
    /\ marks \in [Account \X (1..MaxOrders) -> Nat]
    /\ \A k \in DOMAIN marks : marks[k] = IF k \in DOMAIN stored THEN stored[k].copies ELSE 0
    /\ DOMAIN syncing = Process /\ \A p \in Process : SyncWell(syncing[p], sold, stored)
    /\ HeldOnce
    /\ behind = {}

----------------------------------------------------------------------------
LEMMA FirstIn == ASSUME SoldPostingAssumption, NEW todo \in SUBSET Account, todo # {} PROVE FirstOf(todo) \in todo
<1> DEFINE T == {i \in DOMAIN Accounts : Accounts[i] \in todo}
<1>1. T \in SUBSET Nat /\ T # {}
  BY DEF SoldPostingAssumption, Account, ToSet
<1>2. PICK x \in T : \A y \in T : x <= y
  BY <1>1, LeastElement
<1>3. Min(T) \in T
  BY <1>1, <1>2 DEF Min
<1> QED
  BY <1>3 DEF FirstOf

LEMMA SmallerOf ==
    ASSUME NEW x \in Int, NEW y \in Int
    PROVE  Min({x, y}) = IF x <= y THEN x ELSE y
BY DEF Min

\* A page has the orders at the places behind the offset, from the newest on.
LEMMA PageIs ==
    ASSUME SoldPostingAssumption, NEW a \in Account, sold[a] \in Seq(Sale), NEW offset \in Nat
    PROVE  /\ ToSet(Page(a, offset)) \subseteq DOMAIN sold[a]
           /\ Len(Page(a, offset)) \in Nat
           /\ \A n \in DOMAIN sold[a] :
                Len(sold[a]) - n + 1 > offset /\ Len(sold[a]) - n + 1 <= offset + Len(Page(a, offset))
                => n \in ToSet(Page(a, offset))
           /\ LastPage(a, offset, Page(a, offset)) => offset + Len(Page(a, offset)) >= Len(sold[a])
<1> PICK size \in Nat : size = Len(sold[a]) /\ DOMAIN sold[a] = 1..size
  OBVIOUS
<1> PICK numbers : numbers = [n \in 1..size |-> n]
  OBVIOUS
<1>1. numbers \in Seq(1..size) /\ Len(numbers) = size /\ \A n \in 1..size : numbers[n] = n
  OBVIOUS
<1> PICK back : back = Reverse(numbers)
  OBVIOUS
<1>2. /\ \A i \in 1..size : back[i] = size - i + 1
      /\ \A i \in 1..size : back[i] \in 1..size
  BY <1>1 DEF Reverse
<1> PICK last \in Int : last = IF offset + PageSize <= size THEN offset + PageSize ELSE size
  BY DEF SoldPostingAssumption
<1>3. last = Min({offset + PageSize, size}) /\ last <= size /\ last <= offset + PageSize /\ PageSize \in Nat \ {0}
  BY SmallerOf, SMTT(60) DEF SoldPostingAssumption
<1> PICK page : page = Page(a, offset)
  OBVIOUS
<1>4. page = SubSeq(back, offset + 1, last)
  BY <1>3 DEF Page
<1>5. /\ page \in Seq(1..size)
      /\ Len(page) = IF offset + 1 <= last THEN last - offset ELSE 0
      /\ \A i \in 1..(last - offset) : page[i] = back[offset + i]
  <2>1. \A i \in (offset + 1)..last : back[i] \in 1..size
    BY <1>2, <1>3
  <2>2. /\ offset + 1 \in Int /\ last - (offset + 1) + 1 = last - offset
        /\ \A i \in 1..(last - offset) : offset + 1 + i - 1 = offset + i
    OBVIOUS
  <2> QED
    BY <1>4, <2>1, <2>2, SMTT(60)
<1>6. ToSet(page) \subseteq 1..size
  BY <1>5 DEF ToSet
<1>7. ASSUME NEW n \in 1..size, size - n + 1 > offset, size - n + 1 <= offset + Len(page)
      PROVE  n \in ToSet(page)
  <2>1. offset + 1 <= last /\ Len(page) = last - offset
    BY <1>5, <1>7
  <2>5. size - n + 1 - offset \in 1..(last - offset)
    BY <1>7, <2>1
  <2> PICK i \in 1..(last - offset) : i = size - n + 1 - offset
    BY <2>5
  <2>2. i \in DOMAIN page /\ offset + i \in 1..size
    BY <1>3, <1>5, <2>1, SMTT(60)
  <2>3. page[i] = back[offset + i]
    BY <1>5
  <2>4. back[offset + i] = n
    <3>1. size - (offset + i) + 1 = n
      OBVIOUS
    <3> QED
      BY <1>2, <2>2, <3>1
  <2> QED
    BY <2>2, <2>3, <2>4 DEF ToSet
<1>8. page = <<>> \/ offset + Len(page) >= size => offset + Len(page) >= size
  <2>1. CASE page = <<>>
    <3>1. ~(offset + 1 <= last)
      BY <1>5, <2>1
    <3> QED
      BY <1>3, <1>5, <3>1, <2>1
  <2> QED
    BY <2>1
<1>9. LastPage(a, offset, page) => offset + Len(page) >= size
  BY <1>8 DEF LastPage
<1>10. Len(page) \in Nat
  BY <1>5
<1>11. \A n \in 1..size : size - n + 1 > offset /\ size - n + 1 <= offset + Len(page) => n \in ToSet(page)
  BY <1>7
<1> QED
  BY ONLY <1>6, <1>9, <1>10, <1>11, page = Page(a, offset), size = Len(sold[a]) /\ DOMAIN sold[a] = 1..size

\* The rows a commit leaves: what the sync held of the order, the copies of the row.
RowsWell(rows) == IsMap(rows) /\ \A k \in DOMAIN rows : SaleRowWell(rows[k])
Joined(merged, rows, held) ==
    /\ DOMAIN merged = DOMAIN rows \cup DOMAIN held
    /\ \A k \in DOMAIN merged :
         /\ merged[k].order = IF k \in DOMAIN held THEN held[k].order ELSE rows[k].order
         /\ merged[k].copies = IF k \in DOMAIN rows THEN rows[k].copies ELSE held[k].copies

LEMMA MergedRows ==
    ASSUME NEW rows, NEW held, RowsWell(rows), RowsWell(held)
    PROVE  RowsWell(Merge(rows, held)) /\ Joined(Merge(rows, held), rows, held)
<1> PICK merged : merged = Merge(rows, held)
  OBVIOUS
<1>1. /\ DOMAIN merged = DOMAIN rows \cup DOMAIN held
      /\ IsMap(merged)
  BY DEF Merge, IsMap
<1>2. ASSUME NEW k \in DOMAIN merged
      PROVE  /\ SaleRowWell(merged[k])
             /\ merged[k].order = IF k \in DOMAIN held THEN held[k].order ELSE rows[k].order
             /\ merged[k].copies = IF k \in DOMAIN rows THEN rows[k].copies ELSE held[k].copies
  <2>1. CASE k \notin DOMAIN held
    <3>1. merged[k] = rows[k] /\ k \in DOMAIN rows
      BY <1>1, <2>1 DEF Merge
    <3> QED
      BY <2>1, <3>1 DEF RowsWell
  <2>2. CASE k \in DOMAIN held /\ k \notin DOMAIN rows
    <3>1. merged[k] = held[k]
      BY <1>1, <2>2 DEF Merge
    <3> QED
      BY <2>2, <3>1 DEF RowsWell
  <2>3. CASE k \in DOMAIN held /\ k \in DOMAIN rows
    <3>1. merged[k] = [rows[k] EXCEPT !.order = held[k].order]
      BY <1>1, <2>3 DEF Merge
    <3> QED
      BY <2>3, <3>1 DEF SaleRowWell, RowsWell
  <2> QED
    BY <2>1, <2>2, <2>3
<1> QED
  BY <1>1, <1>2 DEF RowsWell, Joined

\* eBay's orders grow in number and in version.
Later(sales, new) ==
    \A a \in Account :
        /\ Len(sales[a]) <= Len(new[a])
        /\ \A n \in DOMAIN sales[a] : sales[a][n].version <= new[a][n].version

LEMMA RowsLater ==
    ASSUME NEW sales \in [Account -> Seq(Sale)], NEW new \in [Account -> Seq(Sale)], Later(sales, new),
           NEW rows, RowsOfSales(rows, sales)
    PROVE  RowsOfSales(rows, new)
<1>1. ASSUME NEW k \in DOMAIN rows
      PROVE  /\ k \in Account \X Nat /\ k[2] \in DOMAIN new[k[1]]
             /\ SaleRowWell(rows[k]) /\ rows[k].order.version <= VersionOf(new, k)
  <2>1. /\ k \in Account \X Nat /\ k[2] \in DOMAIN sales[k[1]]
        /\ SaleRowWell(rows[k]) /\ rows[k].order.version <= VersionOf(sales, k)
    BY <1>1 DEF RowsOfSales
  <2> PICK a \in Account, n \in Nat : k = <<a, n>> /\ k[1] = a /\ k[2] = n
    BY <2>1
  <2> PICK old, after : old = sales[a] /\ after = new[a]
    OBVIOUS
  <2>2. old \in Seq(Sale) /\ after \in Seq(Sale) /\ n \in DOMAIN old /\ Len(old) <= Len(after) /\ old[n].version <= after[n].version
    BY <2>1 DEF Later
  <2>3. n \in DOMAIN after /\ old[n] \in Sale /\ after[n] \in Sale
    BY <2>2
  <2>4. old[n].version \in Nat /\ after[n].version \in Nat /\ rows[k].order.version \in Nat
    BY <2>1, <2>3 DEF Sale, SaleRowWell, ShownWell
  <2>5. rows[k].order.version <= old[n].version
    BY <2>1 DEF VersionOf
  <2>6. rows[k].order.version <= after[n].version
    BY <2>2, <2>4, <2>5
  <2> QED
    BY <2>1, <2>3, <2>6 DEF VersionOf
<1> QED
  BY <1>1 DEF RowsOfSales

\* What eBay adds, and what others commit, leaves a sync as well off.
LEMMA SyncLater ==
    ASSUME SoldPostingAssumption,
           NEW sales \in [Account -> Seq(Sale)], NEW new \in [Account -> Seq(Sale)], Later(sales, new),
           NEW rows, NEW others, RowsOfSales(rows, sales), RowsOfSales(others, new),
           NEW s, SyncWell(s, sales, rows),
           \A k \in DOMAIN rows : k \in DOMAIN others /\ rows[k].order.version <= others[k].order.version,
           s.at \in {"page", "done"} =>
             \A k \in DOMAIN s.held \cap DOMAIN others : others[k].order.version <= s.held[k].order.version
    PROVE  SyncWell(s, new, others)
<1> SUFFICES ASSUME s.at \in {"page", "done"}, WalkingWell(s, sales, rows) PROVE WalkingWell(s, new, others)
  BY DEF SyncWell
<1> PICK a \in Account : a = FirstOf(s.todo)
  BY FirstIn DEF WalkingWell
<1> PICK old, after : old = sales[a] /\ after = new[a]
  OBVIOUS
<1>1. /\ old \in Seq(Sale) /\ after \in Seq(Sale) /\ Len(old) <= Len(after)
      /\ \A n \in DOMAIN old : n \in DOMAIN after /\ old[n].version <= after[n].version
  BY DEF Later
<1>2. RowsOfSales(s.held, new)
  BY RowsLater DEF WalkingWell
<1>3. s.due \in Seq(Sale) /\ Len(s.due) <= Len(old) /\ s.offset \in Nat
  BY DEF WalkingWell
<1>4. ASSUME NEW n \in DOMAIN s.due
      PROVE  s.due[n].version <= after[n].version /\ (Brought(s, others, n) \/ ToCome(s, new, n))
  <2>1. n \in DOMAIN old /\ n \in DOMAIN after /\ n \in Nat
    BY <1>1, <1>3, <1>4
  <2>2. s.due[n].version \in Nat /\ old[n].version \in Nat /\ after[n].version \in Nat
    <3>1. s.due[n] \in Sale /\ old[n] \in Sale /\ after[n] \in Sale
      BY <1>1, <1>3, <1>4, <2>1
    <3> QED
      BY <3>1 DEF Sale
  <2>3. s.due[n].version <= old[n].version /\ (Brought(s, rows, n) \/ ToCome(s, sales, n))
    BY <1>4 DEF WalkingWell
  <2>4. s.due[n].version <= after[n].version
    BY <1>1, <2>1, <2>2, <2>3
  <2>5. ASSUME ToCome(s, sales, n) PROVE ToCome(s, new, n)
    BY <1>1, <1>3, <2>1, <2>5 DEF ToCome
  <2>6. ASSUME AtLeast(rows, <<a, n>>, s.due[n].version) PROVE AtLeast(others, <<a, n>>, s.due[n].version)
    <3> PICK k : k = <<a, n>>
      OBVIOUS
    <3>1. k \in DOMAIN rows /\ k \in DOMAIN others
      BY <2>6 DEF AtLeast
    <3>2. rows[k].order.version \in Nat /\ others[k].order.version \in Nat
      BY <3>1 DEF RowsOfSales, SaleRowWell, ShownWell
    <3> QED
      BY <2>2, <2>6, <3>1, <3>2 DEF AtLeast
  <2>7. ASSUME Brought(s, rows, n) PROVE Brought(s, others, n)
    BY <2>6, <2>7 DEF Brought
  <2> QED
    BY <2>3, <2>4, <2>5, <2>7
<1>5. Len(s.due) <= Len(after)
  BY <1>1, <1>3
<1> QED
  BY <1>2, <1>4, <1>5 DEF WalkingWell

LEMMA Unmoved == ASSUME NEW sales \in [Account -> Seq(Sale)] PROVE Later(sales, sales)
<1>1. ASSUME NEW a \in Account, NEW n \in DOMAIN sales[a] PROVE sales[a][n].version \in Nat
  <2> PICK list \in Seq(Sale) : list = sales[a]
    OBVIOUS
  <2>1. list[n] \in Sale
    BY <1>1
  <2> QED
    BY <2>1 DEF Sale
<1>2. \A a \in Account : Len(sales[a]) \in Nat
  OBVIOUS
<1> QED
  BY <1>1, <1>2 DEF Later

\* eBay's step: an order is sold or changes.
LEMMA SalesGrow ==
    ASSUME SoldPostingAssumption, SoldInv, sold' \in [Account -> Seq(Sale)], Later(sold, sold'),
           \A a \in Account : Len(sold'[a]) <= MaxOrders, UNCHANGED <<stored, marks, syncing, behind>>
    PROVE  SoldInv'
<1>1. RowsOfSales(stored, sold')
  BY RowsLater DEF SoldInv
<1>2. \A k \in DOMAIN stored : stored[k].order.version \in Nat
  BY DEF SoldInv, RowsOfSales, SaleRowWell, ShownWell
<1>3. ASSUME NEW p \in Process PROVE SyncWell(syncing[p], sold', stored)
  <2>1. SyncWell(syncing[p], sold, stored) /\ RowsOfSales(stored, sold) /\ sold \in [Account -> Seq(Sale)]
    BY DEF SoldInv
  <2>2. \A k \in DOMAIN stored : k \in DOMAIN stored /\ stored[k].order.version <= stored[k].order.version
    BY <1>2
  <2>3. syncing[p].at \in {"page", "done"} =>
          \A k \in DOMAIN syncing[p].held \cap DOMAIN stored : stored[k].order.version <= syncing[p].held[k].order.version
    <3>1. syncing[p].at = NoValue \/ syncing[p].at = "account" \/ WalkingWell(syncing[p], sold, stored)
      BY <2>1 DEF SyncWell, AtRest
    <3> QED
      BY <3>1 DEF WalkingWell, SoldPostingAssumption
  <2> QED
    BY <1>1, <2>1, <2>2, <2>3, SyncLater
<1>4. HeldOnce'
  BY DEF SoldInv, HeldOnce, Holds
<1> QED
  BY <1>1, <1>3, <1>4 DEF SoldInv

LEMMA SellStep ==
    ASSUME SoldPostingAssumption, SoldInv, NEW a \in Account, NEW o \in Payload, Sell(a, o)
    PROVE  SoldInv'
<1> PICK list \in Seq(Sale) : list = sold[a]
  BY DEF SoldInv
<1> PICK x \in Sale : x = [payload |-> o, version |-> 0]
  BY DEF Sale
<1>1. Len(list) < MaxOrders /\ sold' = [sold EXCEPT ![a] = Append(list, x)] /\ MaxOrders \in Nat
  BY DEF Sell, SoldPostingAssumption
<1>2. /\ Append(list, x) \in Seq(Sale) /\ Len(Append(list, x)) = Len(list) + 1
      /\ Len(list) <= Len(Append(list, x))
      /\ \A n \in DOMAIN list : Append(list, x)[n] = list[n]
  OBVIOUS
<1>3. sold' \in [Account -> Seq(Sale)] /\ \A b \in Account : sold'[b] = IF b = a THEN Append(list, x) ELSE sold[b]
  BY <1>1, <1>2 DEF SoldInv
<1>4. \A b \in Account : Len(sold'[b]) <= MaxOrders
  <2>1. Len(list) + 1 <= MaxOrders
    BY <1>1
  <2> QED
    BY <1>2, <1>3, <2>1 DEF SoldInv
<1>5. Later(sold, sold')
  <2>1. Later(sold, sold)
    BY Unmoved DEF SoldInv
  <2>2. ASSUME NEW n \in DOMAIN list PROVE list[n].version <= Append(list, x)[n].version
    <3>1. Append(list, x)[n] = list[n]
      BY <1>2
    <3> QED
      BY <2>1, <3>1 DEF Later
  <2>3. ASSUME NEW b \in Account
        PROVE  Len(sold[b]) <= Len(sold'[b]) /\ \A n \in DOMAIN sold[b] : sold[b][n].version <= sold'[b][n].version
    <3>1. CASE b = a
      <4>1. sold[b] = list /\ sold'[b] = Append(list, x)
        BY <3>1, <1>3
      <4> QED
        BY <4>1, <1>2, <2>2
    <3>2. CASE b # a
      BY <3>2, <1>3, <2>1 DEF Later
    <3> QED
      BY <3>1, <3>2
  <2> QED
    BY <2>3 DEF Later
<1> QED
  BY <1>3, <1>4, <1>5, SalesGrow DEF Sell

LEMMA ChangeStep ==
    ASSUME SoldPostingAssumption, SoldInv, NEW a \in Account, NEW m \in 1..MaxOrders, NEW o \in Payload, Change(a, m, o)
    PROVE  SoldInv'
<1> PICK list \in Seq(Sale) : list = sold[a]
  BY DEF SoldInv
<1>1. m \in DOMAIN list
  BY DEF Change
<1>2. list[m] \in Sale
  BY <1>1
<1> PICK v \in Nat : v = list[m].version
  BY <1>2 DEF Sale
<1> PICK x : x = [payload |-> o, version |-> v + 1]
  OBVIOUS
<1>3. x \in Sale /\ list[m].version <= x.version
  BY DEF Sale
<1> PICK changed : changed = [list EXCEPT ![m] = x]
  OBVIOUS
<1>4. sold' = [sold EXCEPT ![a] = changed]
  BY DEF Change
<1>5. /\ changed \in Seq(Sale) /\ Len(changed) = Len(list)
      /\ \A n \in DOMAIN list : changed[n] = IF n = m THEN x ELSE list[n]
  BY <1>1, <1>3
<1>6. sold' \in [Account -> Seq(Sale)] /\ \A b \in Account : sold'[b] = IF b = a THEN changed ELSE sold[b]
  BY <1>4, <1>5 DEF SoldInv
<1>7. \A b \in Account : Len(sold'[b]) <= MaxOrders
  BY <1>5, <1>6 DEF SoldInv
<1>8. Later(sold, sold')
  <2>1. Later(sold, sold)
    BY Unmoved DEF SoldInv
  <2>2. ASSUME NEW n \in DOMAIN list PROVE list[n].version <= changed[n].version
    BY <1>3, <1>5, <2>1, <2>2 DEF Later
  <2>3. ASSUME NEW b \in Account
        PROVE  Len(sold[b]) <= Len(sold'[b]) /\ \A n \in DOMAIN sold[b] : sold[b][n].version <= sold'[b][n].version
    <3>1. CASE b = a
      BY <3>1, <1>5, <1>6, <2>2, SMTT(60)
    <3>2. CASE b # a
      BY <3>2, <1>6, <2>1 DEF Later
    <3> QED
      BY <3>1, <3>2
  <2> QED
    BY <2>3 DEF Later
<1> QED
  BY <1>6, <1>7, <1>8, SalesGrow DEF Change

----------------------------------------------------------------------------
\* A step of one sync that commits nothing and takes no row another holds.
LEMMA MoveStep ==
    ASSUME SoldInv, NEW p \in Process, NEW t, syncing' = [syncing EXCEPT ![p] = t],
           SyncWell(t, sold, stored),
           t.at \in {"page", "done"} => \A q \in Process \ {p}, k \in DOMAIN t.held : ~Holds(q, k),
           UNCHANGED <<sold, stored, marks, behind>>
    PROVE  SoldInv'
<1>1. DOMAIN syncing' = Process /\ \A q \in Process : syncing'[q] = IF q = p THEN t ELSE syncing[q]
  BY DEF SoldInv
<1>2. \A q \in Process : SyncWell(syncing'[q], sold, stored)
  BY <1>1 DEF SoldInv
<1>3. HeldOnce'
  BY <1>1 DEF HeldOnce, Holds, SoldInv
<1> QED
  BY <1>1, <1>2, <1>3 DEF SoldInv

LEMMA Walks ==
    ASSUME SoldPostingAssumption, SoldInv, NEW p \in Process
    PROVE  /\ syncing[p].at \in {"page", "done"} => WalkingWell(syncing[p], sold, stored)
           /\ syncing[p].at = "account" => DOMAIN syncing[p] = {"at", "todo"} /\ syncing[p].todo \subseteq Account
BY DEF SoldInv, SyncWell, AtRest, SoldPostingAssumption

LEMMA SyncAllStartsStep ==
    ASSUME SoldPostingAssumption, SoldInv, NEW p \in Process, NEW on \in SUBSET Account, SyncAllStarts(p, on)
    PROVE  SoldInv'
<1> PICK t : t = [at |-> "account", todo |-> on]
  OBVIOUS
<1>1. SyncWell(t, sold, stored)
  BY DEF SyncWell
<1>2. syncing' = [syncing EXCEPT ![p] = t] /\ UNCHANGED <<sold, stored, marks, behind>>
  BY DEF SyncAllStarts
<1> QED
  BY <1>1, <1>2, MoveStep

LEMMA SyncAllEndsStep ==
    ASSUME SoldPostingAssumption, SoldInv, NEW p \in Process, SyncAllEnds(p)
    PROVE  SoldInv'
<1>1. SyncWell(AtRest, sold, stored) /\ AtRest.at \notin {"page", "done"}
  BY DEF SyncWell, AtRest, SoldPostingAssumption
<1>2. syncing' = [syncing EXCEPT ![p] = AtRest] /\ UNCHANGED <<sold, stored, marks, behind>>
  BY DEF SyncAllEnds
<1> QED
  BY <1>1, <1>2, MoveStep

LEMMA FailsStep ==
    ASSUME SoldPostingAssumption, SoldInv, NEW p \in Process, AccountSyncFails(p)
    PROVE  SoldInv'
<1> PICK t : t = NextAccount(syncing[p])
  OBVIOUS
<1>1. t.at = "account" /\ SyncWell(t, sold, stored)
  BY Walks DEF SyncWell, NextAccount, AccountSyncFails, WalkingWell
<1>2. syncing' = [syncing EXCEPT ![p] = t] /\ UNCHANGED <<sold, stored, marks, behind>>
  BY DEF AccountSyncFails
<1> QED
  BY <1>1, <1>2, MoveStep

LEMMA BusyStep ==
    ASSUME SoldPostingAssumption, SoldInv, NEW p \in Process, Busy(p)
    PROVE  SoldInv'
<1> PICK s : s = syncing[p]
  OBVIOUS
<1> PICK t : t = [s EXCEPT !.attempt = s.attempt + 1]
  OBVIOUS
<1>1. s.at = "page" /\ WalkingWell(s, sold, stored)
  BY Walks DEF Busy
<1>2. /\ DOMAIN t = DOMAIN s /\ t.at = "page" /\ t.todo = s.todo /\ t.offset = s.offset /\ t.pages = s.pages
      /\ t.held = s.held /\ t.due = s.due
  BY <1>1 DEF WalkingWell
<1>3. SyncWell(t, sold, stored)
  BY <1>1, <1>2 DEF SyncWell, WalkingWell, Brought, ToCome
<1>4. syncing' = [syncing EXCEPT ![p] = t] /\ UNCHANGED <<sold, stored, marks, behind>>
  BY <1>1 DEF Busy, SoldInv
<1>5. \A q \in Process \ {p}, k \in DOMAIN t.held : ~Holds(q, k)
  BY <1>1, <1>2 DEF SoldInv, HeldOnce, Holds, WalkingWell, RowsOfSales
<1> QED
  BY <1>3, <1>4, <1>5, MoveStep

LEMMA BeginStep ==
    ASSUME SoldPostingAssumption, SoldInv, NEW p \in Process, Begin(p)
    PROVE  SoldInv'
<1> PICK s, a : s = syncing[p] /\ a = FirstOf(s.todo)
  OBVIOUS
<1> PICK t : t = [at |-> "page", todo |-> s.todo, offset |-> 0, pages |-> 0, attempt |-> 1,
                  refreshed |-> FALSE, held |-> <<>>, due |-> sold[a]]
  OBVIOUS
<1>1. s.at = "account" /\ s.todo # {} /\ s.todo \subseteq Account
  BY Walks DEF Begin
<1>2. a \in Account
  BY <1>1, FirstIn
<1>3. sold[a] \in Seq(Sale)
  BY <1>2 DEF SoldInv
<1>4. RowsOfSales(<<>>, sold) /\ DOMAIN (<<>>) = {}
  BY DEF RowsOfSales, IsMap
<1>5. ASSUME NEW n \in DOMAIN t.due
      PROVE  t.due[n].version <= sold[a][n].version /\ ToCome(t, sold, n)
  <2>1. t.due = sold[a] /\ t.offset = 0 /\ t.at = "page" /\ FirstOf(t.todo) = a
    OBVIOUS
  <2>2. Later(sold, sold)
    BY Unmoved DEF SoldInv
  <2>3. n \in 1..Len(sold[a]) /\ Len(sold[a]) \in Nat
    BY <1>3, <1>5, <2>1
  <2> QED
    BY <1>2, <2>1, <2>2, <2>3 DEF Later, ToCome
<1>6. WalkingWell(t, sold, stored)
  <2>1. Len(t.due) <= Len(sold[a])
    BY <1>3
  <2> QED
    BY <1>1, <1>2, <1>3, <1>4, <1>5, <2>1 DEF WalkingWell
<1>7. syncing' = [syncing EXCEPT ![p] = t] /\ UNCHANGED <<sold, stored, marks, behind>>
  BY DEF Begin
<1> QED
  BY <1>4, <1>6, <1>7, MoveStep DEF SyncWell

\* The rows a page makes: eBay's orders as they are.
LEMMA UpsertedRows ==
    ASSUME SoldPostingAssumption, NEW a \in Account, sold[a] \in Seq(Sale),
           NEW page, ToSet(page) \subseteq DOMAIN sold[a], NEW up, up = Upserted(a, page)
    PROVE  /\ DOMAIN up = KeysOf(a, page)
           /\ IsMap(up)
           /\ \A n \in ToSet(page) :
                /\ SaleRowWell(up[<<a, n>>]) /\ up[<<a, n>>].copies = 0
                /\ up[<<a, n>>].order.version = sold[a][n].version
<1>1. DOMAIN up = KeysOf(a, page) /\ IsMap(up)
  BY DEF Upserted, IsMap, KeysOf
<1>2. ASSUME NEW n \in ToSet(page)
      PROVE  /\ SaleRowWell(up[<<a, n>>]) /\ up[<<a, n>>].copies = 0
             /\ up[<<a, n>>].order.version = sold[a][n].version
  <2> PICK x \in Sale : x = sold[a][n]
    <3>1. sold[a][n] \in Sale
      BY <1>2
    <3> QED
      BY <3>1
  <2> PICK k : k = <<a, n>>
    OBVIOUS
  <2>0. k[2] = n
    OBVIOUS
  <2>1. k \in {<<a, m>> : m \in ToSet(page)}
    BY <1>2
  <2>2. up[k] = [order |-> MapOrder(x.payload, x.version), note |-> FALSE, copies |-> 0]
    BY <2>0, <2>1 DEF Upserted
  <2>3. x.payload \in Payload /\ x.version \in Nat /\ x.payload.created \in Int
    BY DEF Sale, SoldPostingAssumption
  <2>4. up[k].order = MapOrder(x.payload, x.version)
    BY <2>2
  <2>5. ShownWell(up[k].order) /\ up[k].order.version = x.version
    BY <2>3, <2>4 DEF ShownWell, MapOrder
  <2> QED
    BY <2>2, <2>5 DEF SaleRowWell
<1> QED
  BY <1>1, <1>2

LEMMA PageStep ==
    ASSUME SoldPostingAssumption, SoldInv, NEW p \in Process, PageRead(p)
    PROVE  SoldInv'
<1> PICK s, a : s = syncing[p] /\ a = FirstOf(s.todo)
  OBVIOUS
<1> PICK page : page = Page(a, s.offset)
  OBVIOUS
<1> PICK up : up = Upserted(a, page)
  OBVIOUS
<1> PICK at, held, offset :
      /\ at = (IF LastPage(a, s.offset, page) \/ s.pages + 1 = MaxPages THEN "done" ELSE "page")
      /\ held = Merge(s.held, up) /\ offset = s.offset + Len(page)
  OBVIOUS
<1> PICK t : t = [s EXCEPT !.held = held, !.pages = s.pages + 1, !.attempt = 1, !.refreshed = FALSE,
                           !.at = at, !.offset = offset]
  OBVIOUS
<1>1. s.at = "page" /\ WalkingWell(s, sold, stored)
  BY Walks DEF PageRead
<1>2. a \in Account /\ sold[a] \in Seq(Sale) /\ s.todo \subseteq Account /\ s.todo # {}
  BY <1>1, FirstIn DEF WalkingWell, SoldInv
<1>3. /\ syncing' = [syncing EXCEPT ![p] = t] /\ UNCHANGED <<sold, stored, marks, behind>>
      /\ \A q \in Process \ {p}, n \in ToSet(page) : ~Holds(q, <<a, n>>)
  BY DEF PageRead, NextOffset
<1>4. s.offset \in Nat /\ s.pages \in Nat /\ MaxPages \in Nat
  BY <1>1 DEF WalkingWell, SoldPostingAssumption
<1> PICK size \in Nat : size = Len(sold[a]) /\ DOMAIN sold[a] = 1..size
  BY <1>2
<1>5. /\ ToSet(page) \subseteq 1..size /\ Len(page) \in Nat
      /\ \A n \in 1..size : size - n + 1 > s.offset /\ size - n + 1 <= offset => n \in ToSet(page)
      /\ LastPage(a, s.offset, page) => offset >= size
  BY <1>2, <1>4, PageIs
<1>6. /\ DOMAIN up = KeysOf(a, page) /\ IsMap(up)
      /\ \A n \in ToSet(page) :
           /\ SaleRowWell(up[<<a, n>>]) /\ up[<<a, n>>].copies = 0
           /\ up[<<a, n>>].order.version = sold[a][n].version
  <2>1. ToSet(page) \subseteq DOMAIN sold[a]
    BY <1>5
  <2> QED
    BY <1>2, <2>1, UpsertedRows, SMTT(60)
<1>7. RowsOfSales(s.held, sold) /\ \A k \in DOMAIN s.held :
         /\ k[1] = a /\ s.held[k].copies = 0
         /\ k \in DOMAIN stored => stored[k].order.version <= s.held[k].order.version
  BY <1>1 DEF WalkingWell
<1>8. /\ DOMAIN held = DOMAIN s.held \cup DOMAIN up
      /\ IsMap(held)
      /\ \A k \in DOMAIN held :
           /\ SaleRowWell(held[k])
           /\ held[k].order = IF k \in DOMAIN up THEN up[k].order ELSE s.held[k].order
           /\ held[k].copies = IF k \in DOMAIN s.held THEN s.held[k].copies ELSE up[k].copies
  <2>1. RowsWell(s.held)
    BY <1>7 DEF RowsOfSales, RowsWell
  <2>2. RowsWell(up)
    BY ONLY <1>6 DEF KeysOf, RowsWell
  <2>3. RowsWell(held) /\ Joined(held, s.held, up)
    BY <2>1, <2>2, MergedRows
  <2> QED
    BY ONLY <2>3 DEF RowsWell, Joined
<1>9. /\ DOMAIN t = DOMAIN s /\ t.at = at /\ t.todo = s.todo /\ t.offset = offset /\ t.pages = s.pages + 1
      /\ t.held = held /\ t.due = s.due
  BY <1>1 DEF WalkingWell
<1>10. ASSUME NEW n \in ToSet(page)
       PROVE  /\ <<a, n>> \in DOMAIN held /\ held[<<a, n>>].order.version = sold[a][n].version
              /\ sold[a][n].version \in Nat
  <2>1. sold[a][n] \in Sale
    BY <1>2, <1>5, <1>10
  <2> QED
    BY ONLY <1>6, <1>8, <1>10, <2>1 DEF Sale, KeysOf
<1>11. ASSUME NEW k \in DOMAIN held
       PROVE  /\ k \in Account \X Nat /\ k[2] \in DOMAIN sold[k[1]]
              /\ SaleRowWell(held[k]) /\ held[k].order.version <= VersionOf(sold, k)
              /\ k[1] = a /\ held[k].copies = 0
              /\ k \in DOMAIN stored => stored[k].order.version <= held[k].order.version
  <2>1. CASE k \in DOMAIN up
    <3> PICK n \in ToSet(page) : k = <<a, n>> /\ k[1] = a /\ k[2] = n
      BY ONLY <1>6, <2>1 DEF KeysOf
    <3>1. n \in 1..size /\ n \in Nat
      BY <1>5
    <3>2. held[k].order.version = sold[a][n].version /\ sold[a][n].version \in Nat
      BY <1>10
    <3>3. k \in DOMAIN stored => stored[k].order.version <= VersionOf(sold, k)
      BY DEF SoldInv, RowsOfSales
    <3>4. held[k].copies = 0
      <4>1. up[k].copies = 0
        BY ONLY <1>6, n \in ToSet(page), k = <<a, n>>
      <4>2. held[k].copies = IF k \in DOMAIN s.held THEN s.held[k].copies ELSE up[k].copies
        BY ONLY <1>8, k \in DOMAIN held
      <4> QED
        BY ONLY <1>7, <4>1, <4>2
    <3>5. VersionOf(sold, k) = sold[a][n].version
      BY DEF VersionOf
    <3>6. k \in Account \X Nat /\ k[2] \in DOMAIN sold[k[1]]
      BY <1>2, <3>1
    <3>7. held[k].order.version <= VersionOf(sold, k)
      BY <3>2, <3>5
    <3>8. k \in DOMAIN stored => stored[k].order.version <= held[k].order.version
      BY ONLY <3>2, <3>3, <3>5
    <3>9. SaleRowWell(held[k])
      BY ONLY <1>8, k \in DOMAIN held
    <3> QED
      BY ONLY <3>4, <3>6, <3>7, <3>8, <3>9, k[1] = a
  <2>2. CASE k \notin DOMAIN up
    <3>1. k \in DOMAIN s.held /\ held[k].order = s.held[k].order /\ held[k].copies = s.held[k].copies
      BY <1>8, <2>2
    <3>2. /\ k \in Account \X Nat /\ k[2] \in DOMAIN sold[k[1]] /\ s.held[k].order.version <= VersionOf(sold, k)
      BY <1>7, <3>1 DEF RowsOfSales
    <3>3. k[1] = a /\ s.held[k].copies = 0 /\ (k \in DOMAIN stored => stored[k].order.version <= s.held[k].order.version)
      BY <1>7, <3>1
    <3> QED
      BY <1>8, <3>1, <3>2, <3>3
  <2> QED
    BY <2>1, <2>2
<1>12. RowsOfSales(held, sold)
  <2>1. \A k \in DOMAIN held :
          /\ k \in Account \X Nat /\ k[2] \in DOMAIN sold[k[1]]
          /\ SaleRowWell(held[k]) /\ held[k].order.version <= VersionOf(sold, k)
    BY <1>11
  <2> QED
    BY ONLY <1>8, <2>1 DEF RowsOfSales
<1>13. s.due \in Seq(Sale) /\ Len(s.due) <= size
  BY <1>1 DEF WalkingWell
<1>14. ASSUME NEW n \in DOMAIN s.due
       PROVE  s.due[n].version <= sold[a][n].version /\ (Brought(t, stored, n) \/ ToCome(t, sold, n))
  <2>1. s.due[n].version <= sold[a][n].version /\ (Brought(s, stored, n) \/ ToCome(s, sold, n))
    BY <1>1 DEF WalkingWell
  <2>2. n \in 1..size
    BY <1>13, <1>14
  <2>3. CASE n \in ToSet(page)
    <3>1. AtLeast(held, <<a, n>>, s.due[n].version)
      BY <1>10, <2>1, <2>3 DEF AtLeast
    <3> QED
      BY <2>1, <3>1, <1>9 DEF Brought
  <2>4. CASE n \notin ToSet(page) /\ Brought(s, stored, n)
    <3>1. <<a, n>> \notin DOMAIN up
      BY <1>6, <2>4 DEF KeysOf
    <3>2. AtLeast(s.held, <<a, n>>, s.due[n].version) => AtLeast(held, <<a, n>>, s.due[n].version)
      BY <1>8, <3>1 DEF AtLeast
    <3> QED
      BY <1>9, <2>1, <2>4, <3>2 DEF Brought
  <2>5. CASE n \notin ToSet(page) /\ ToCome(s, sold, n)
    <3>1. size - n + 1 > s.offset
      BY <1>1, <2>5 DEF ToCome
    <3>2. size - n + 1 > offset
      BY <1>4, <1>5, <2>2, <2>5, <3>1
    <3>3. at = "page" \/ s.pages + 1 >= MaxPages
      BY <1>4, <1>5, <2>2, <3>2
    <3>4. t.at = "page" => ToCome(t, sold, n)
      BY <1>9, <3>2 DEF ToCome
    <3>5. t.at # "page" => ToCome(t, sold, n)
      BY <1>9, <3>3 DEF ToCome
    <3> QED
      BY <2>1, <3>4, <3>5
  <2> QED
    BY <2>1, <2>3, <2>4, <2>5
<1>15. WalkingWell(t, sold, stored)
  <2>1. DOMAIN t = {"at", "todo", "offset", "pages", "attempt", "refreshed", "held", "due"}
    BY <1>1, <1>9 DEF WalkingWell
  <2>2. t.todo \subseteq Account /\ t.todo # {} /\ t.offset \in Nat /\ t.pages \in Nat /\ FirstOf(t.todo) = a
    BY <1>2, <1>4, <1>5, <1>9
  <2>3. Len(t.due) <= Len(sold[a]) /\ t.due \in Seq(Sale)
    BY <1>9, <1>13
  <2>4. \A k \in DOMAIN t.held :
          /\ k[1] = FirstOf(t.todo) /\ t.held[k].copies = 0
          /\ k \in DOMAIN stored => stored[k].order.version <= t.held[k].order.version
    BY ONLY <1>9, <1>11, <2>2
  <2>5. RowsOfSales(t.held, sold)
    BY <1>9, <1>12
  <2>6. \A n \in DOMAIN t.due :
          /\ t.due[n].version <= sold[FirstOf(t.todo)][n].version
          /\ Brought(t, stored, n) \/ ToCome(t, sold, n)
    BY <1>9, <1>14, <2>2
  <2> QED
    BY <2>1, <2>2, <2>3, <2>4, <2>5, <2>6 DEF WalkingWell
<1>16. \A q \in Process \ {p}, k \in DOMAIN t.held : ~Holds(q, k)
  <2>1. \A q \in Process \ {p}, k \in DOMAIN s.held : ~Holds(q, k)
    BY <1>1, <1>7 DEF SoldInv, HeldOnce, Holds, RowsOfSales
  <2>2. \A q \in Process \ {p}, k \in DOMAIN up : ~Holds(q, k)
    BY ONLY <1>3, <1>6 DEF KeysOf
  <2> QED
    BY ONLY <2>1, <2>2, <1>8, <1>9
<1>17. SyncWell(t, sold, stored)
  BY <1>9, <1>15 DEF SyncWell
<1> QED
  BY <1>3, <1>16, <1>17, MoveStep

\* What a sync commits is rows again, none older than it was; what it brought is stored.
LEMMA Committed ==
    ASSUME SoldPostingAssumption, SoldInv, NEW p \in Process, NEW s, s = syncing[p], WalkingWell(s, sold, stored),
           NEW new, new = Merge(stored, s.held)
    PROVE  /\ RowsOfSales(new, sold) /\ Joined(new, stored, s.held)
           /\ \A k \in DOMAIN stored : k \in DOMAIN new /\ stored[k].order.version <= new[k].order.version
           /\ \A n \in DOMAIN s.due : Brought(s, stored, n) => AtLeast(new, <<FirstOf(s.todo), n>>, s.due[n].version)
<1>1. RowsOfSales(stored, sold) /\ RowsOfSales(s.held, sold)
  BY DEF SoldInv, WalkingWell
<1>2. RowsWell(new) /\ Joined(new, stored, s.held)
  BY <1>1, MergedRows DEF RowsOfSales, RowsWell
<1>3. RowsOfSales(new, sold)
  BY <1>1, <1>2 DEF RowsOfSales, RowsWell, Joined
<1>4. \A k \in DOMAIN stored : stored[k].order.version \in Nat
  BY <1>1 DEF RowsOfSales, SaleRowWell, ShownWell
<1>5. \A k \in DOMAIN new : new[k].order.version \in Nat
  BY <1>2 DEF RowsWell, SaleRowWell, ShownWell
<1>6. ASSUME NEW k \in DOMAIN stored PROVE k \in DOMAIN new /\ stored[k].order.version <= new[k].order.version
  BY <1>2, <1>4, <1>6 DEF Joined, WalkingWell
<1>7. ASSUME NEW n \in DOMAIN s.due, Brought(s, stored, n) PROVE AtLeast(new, <<FirstOf(s.todo), n>>, s.due[n].version)
  <2> PICK k : k = <<FirstOf(s.todo), n>>
    OBVIOUS
  <2>1. s.due[n].version \in Nat
    <3>1. s.due \in Seq(Sale)
      BY DEF WalkingWell
    <3>2. s.due[n] \in Sale
      BY <3>1, <1>7
    <3> QED
      BY <3>2 DEF Sale
  <2>2. ASSUME AtLeast(s.held, k, s.due[n].version) PROVE AtLeast(new, k, s.due[n].version)
    BY <2>2, <1>2 DEF AtLeast, Joined
  <2>3. ASSUME AtLeast(stored, k, s.due[n].version) PROVE AtLeast(new, k, s.due[n].version)
    BY <2>1, <2>3, <1>4, <1>5, <1>6 DEF AtLeast
  <2> QED
    BY <1>7, <2>2, <2>3 DEF Brought
<1> QED
  BY <1>2, <1>3, <1>6, <1>7

LEMMA CommitStep ==
    ASSUME SoldPostingAssumption, SoldInv, NEW p \in Process, NEW s, s = syncing[p], WalkingWell(s, sold, stored),
           s.at \in {"page", "done"}, stored' = Merge(stored, s.held),
           NEW t, syncing' = [syncing EXCEPT ![p] = t], SyncWell(t, sold, stored'),
           t.at \in {"page", "done"} => DOMAIN t.held = {},
           UNCHANGED <<sold, marks>>, behind' = {}
    PROVE  SoldInv'
<1>1. DOMAIN syncing' = Process /\ \A q \in Process : syncing'[q] = IF q = p THEN t ELSE syncing[q]
  BY DEF SoldInv
<1>2. /\ RowsOfSales(stored', sold) /\ Joined(stored', stored, s.held)
      /\ \A k \in DOMAIN stored : k \in DOMAIN stored' /\ stored[k].order.version <= stored'[k].order.version
  BY Committed
<1>3. \A k \in DOMAIN s.held : k \in Account \X Nat /\ Holds(p, k) /\ s.held[k].copies = 0
  BY DEF WalkingWell, RowsOfSales, Holds
<1>4. \A k \in DOMAIN marks : marks[k] = IF k \in DOMAIN stored' THEN stored'[k].copies ELSE 0
  BY <1>2, <1>3 DEF SoldInv, Joined
<1>5. ASSUME NEW q \in Process PROVE SyncWell(syncing'[q], sold, stored')
  <2>1. CASE q = p
    BY <1>1, <2>1
  <2>2. CASE q # p
    <3> PICK other : other = syncing[q]
      OBVIOUS
    <3>1. other = syncing'[q] /\ SyncWell(other, sold, stored) /\ sold \in [Account -> Seq(Sale)]
      BY <1>1, <2>2 DEF SoldInv
    <3>2. ASSUME other.at \in {"page", "done"}, NEW k \in DOMAIN other.held \cap DOMAIN stored'
          PROVE  stored'[k].order.version <= other.held[k].order.version
      <4>1. WalkingWell(other, sold, stored)
        BY <3>2, Walks
      <4>2. k \in Account \X Nat /\ Holds(q, k)
        BY <3>2, <4>1 DEF WalkingWell, RowsOfSales, Holds
      <4>3. k \notin DOMAIN s.held
        BY <1>3, <2>2, <4>2 DEF SoldInv, HeldOnce
      <4>4. k \in DOMAIN stored /\ stored'[k].order = stored[k].order
        BY <1>2, <3>2, <4>3 DEF Joined
      <4> QED
        BY <3>2, <4>1, <4>4 DEF WalkingWell
    <3>3. RowsOfSales(stored, sold) /\ Later(sold, sold)
      BY Unmoved DEF SoldInv
    <3>4. SyncWell(other, sold, stored')
      <4> PICK new : new = stored'
        OBVIOUS
      <4>1. RowsOfSales(new, sold) /\ \A k \in DOMAIN stored : k \in DOMAIN new /\ stored[k].order.version <= new[k].order.version
        BY <1>2
      <4>2. other.at \in {"page", "done"} =>
              \A k \in DOMAIN other.held \cap DOMAIN new : new[k].order.version <= other.held[k].order.version
        BY <3>2
      <4>3. SyncWell(other, sold, new)
        BY ONLY SoldPostingAssumption, <3>1, <3>3, <4>1, <4>2, SyncLater
      <4> QED
        BY <4>3
    <3> QED
      BY <3>1, <3>4
  <2> QED
    BY <2>1, <2>2
<1>6. HeldOnce'
  BY <1>1 DEF HeldOnce, Holds, SoldInv
<1> QED
  BY <1>1, <1>2, <1>4, <1>5, <1>6 DEF SoldInv

LEMMA TokenExpiredStep ==
    ASSUME SoldPostingAssumption, SoldInv, NEW p \in Process, TokenExpired(p)
    PROVE  SoldInv'
<1> PICK s : s = syncing[p]
  OBVIOUS
<1> PICK t : t = [s EXCEPT !.refreshed = TRUE, !.attempt = s.attempt + 1, !.held = <<>>]
  OBVIOUS
<1>1. s.at = "page" /\ WalkingWell(s, sold, stored)
  BY Walks DEF TokenExpired
<1>2. /\ DOMAIN t = DOMAIN s /\ t.at = "page" /\ t.todo = s.todo /\ t.offset = s.offset /\ t.pages = s.pages
      /\ t.held = <<>> /\ t.due = s.due
  BY <1>1 DEF WalkingWell
<1>3. /\ syncing' = [syncing EXCEPT ![p] = t] /\ stored' = Merge(stored, s.held)
      /\ UNCHANGED <<sold, marks, behind>>
  BY DEF TokenExpired
<1>4. \A n \in DOMAIN s.due : Brought(s, stored, n) => AtLeast(stored', <<FirstOf(s.todo), n>>, s.due[n].version)
  BY <1>1, <1>3, Committed
<1>5. RowsOfSales(<<>>, sold) /\ DOMAIN (<<>>) = {}
  BY DEF RowsOfSales, IsMap
<1>6. ASSUME NEW n \in DOMAIN t.due
      PROVE  /\ t.due[n].version <= sold[FirstOf(t.todo)][n].version
             /\ Brought(t, stored', n) \/ ToCome(t, sold, n)
  BY <1>1, <1>2, <1>4, <1>6 DEF WalkingWell, Brought, ToCome
<1>7. WalkingWell(t, sold, stored')
  BY <1>1, <1>2, <1>5, <1>6 DEF WalkingWell
<1>8. SyncWell(t, sold, stored')
  BY <1>2, <1>7 DEF SyncWell
<1>9. behind' = {}
  BY <1>3 DEF SoldInv
<1> QED
  BY <1>1, <1>2, <1>3, <1>5, <1>8, <1>9, CommitStep

LEMMA SucceedsStep ==
    ASSUME SoldPostingAssumption, SoldInv, NEW p \in Process, AccountSyncSucceeds(p)
    PROVE  SoldInv'
<1> PICK s, a : s = syncing[p] /\ a = FirstOf(s.todo)
  OBVIOUS
<1> PICK t : t = NextAccount(s)
  OBVIOUS
<1>1. s.at = "done" /\ WalkingWell(s, sold, stored)
  BY Walks DEF AccountSyncSucceeds
<1>2. /\ syncing' = [syncing EXCEPT ![p] = t] /\ stored' = Merge(stored, s.held) /\ UNCHANGED <<sold, marks>>
      /\ behind' = behind \cup
           {<<a, n>> : n \in {m \in DOMAIN s.due :
                /\ s.pages < MaxPages
                /\ \/ <<a, m>> \notin DOMAIN stored'
                   \/ stored'[<<a, m>>].order.version < s.due[m].version}}
  BY DEF AccountSyncSucceeds
<1>3. /\ RowsOfSales(stored', sold)
      /\ \A n \in DOMAIN s.due : Brought(s, stored, n) => AtLeast(stored', <<a, n>>, s.due[n].version)
  BY <1>1, <1>2, Committed
<1>4. ASSUME NEW m \in DOMAIN s.due, s.pages < MaxPages
      PROVE  <<a, m>> \in DOMAIN stored' /\ ~(stored'[<<a, m>>].order.version < s.due[m].version)
  <2>1. s.pages \in Nat /\ MaxPages \in Nat /\ s.due \in Seq(Sale)
    BY <1>1 DEF WalkingWell, SoldPostingAssumption
  <2>2. ~ToCome(s, sold, m)
    BY <1>1, <1>4, <2>1 DEF ToCome
  <2>3. AtLeast(stored', <<a, m>>, s.due[m].version)
    BY <1>1, <1>3, <1>4, <2>2 DEF WalkingWell
  <2>4. stored'[<<a, m>>].order.version \in Nat
    BY <1>3, <2>3 DEF AtLeast, RowsOfSales, SaleRowWell, ShownWell
  <2>5. s.due[m] \in Sale
    BY <2>1, <1>4
  <2> QED
    BY <2>3, <2>4, <2>5 DEF AtLeast, Sale
<1>5. behind' = {}
  BY <1>2, <1>4 DEF SoldInv
<1>6. t.at = "account" /\ SyncWell(t, sold, stored')
  BY <1>1 DEF SyncWell, NextAccount, WalkingWell
<1> QED
  BY <1>1, <1>2, <1>5, <1>6, CommitStep

\* An agent's edit of a row no sync holds.
LEMMA RowEdited ==
    ASSUME SoldPostingAssumption, SoldInv, DOMAIN stored' = DOMAIN stored, IsMap(stored'),
           \A k \in DOMAIN stored : SaleRowWell(stored'[k]) /\ stored'[k].order.version = stored[k].order.version,
           marks' \in [Account \X (1..MaxOrders) -> Nat],
           \A k \in DOMAIN marks' : marks'[k] = IF k \in DOMAIN stored THEN stored'[k].copies ELSE 0,
           UNCHANGED <<sold, syncing, behind>>
    PROVE  SoldInv'
<1>1. RowsOfSales(stored', sold) /\ RowsOfSales(stored, sold) /\ sold \in [Account -> Seq(Sale)] /\ Later(sold, sold)
  BY Unmoved DEF SoldInv, RowsOfSales
<1>2. \A k \in DOMAIN stored : k \in DOMAIN stored' /\ stored[k].order.version <= stored'[k].order.version
  BY <1>1 DEF RowsOfSales, SaleRowWell, ShownWell
<1>3. ASSUME NEW p \in Process PROVE SyncWell(syncing[p], sold, stored')
  <2>1. SyncWell(syncing[p], sold, stored)
    BY DEF SoldInv
  <2>2. syncing[p].at \in {"page", "done"} =>
          \A k \in DOMAIN syncing[p].held \cap DOMAIN stored' : stored'[k].order.version <= syncing[p].held[k].order.version
    BY Walks DEF WalkingWell
  <2> QED
    BY <1>1, <1>2, <2>1, <2>2, SyncLater
<1>4. HeldOnce'
  BY DEF SoldInv, HeldOnce, Holds
<1> QED
  BY <1>1, <1>3, <1>4 DEF SoldInv

LEMMA UpdateLineStep ==
    ASSUME SoldPostingAssumption, SoldInv, NEW k \in Account \X (1..MaxOrders), NEW b, UpdateLine(k, "SHIPPED", b)
    PROVE  SoldInv'
<1> PICK row, order : row = stored[k] /\ order = stored[k].order
  OBVIOUS
<1>1. k \in DOMAIN stored /\ IsMap(stored) /\ SaleRowWell(row)
  BY DEF UpdateLine, SoldInv, RowsOfSales
<1> PICK line : line = [[row EXCEPT !.order.status = "SHIPPED"] EXCEPT !.note = b]
  OBVIOUS
<1>2. /\ DOMAIN line = DOMAIN row /\ line.copies = row.copies
      /\ line.order = [order EXCEPT !.status = "SHIPPED"]
  BY <1>1 DEF SaleRowWell
<1>3. SaleRowWell(line) /\ line.order.version = order.version
  BY <1>1, <1>2 DEF SaleRowWell, ShownWell
<1>4. stored' = [stored EXCEPT ![k] = line] /\ UNCHANGED <<sold, marks, syncing, behind>>
  BY <1>1 DEF UpdateLine, IsMap
<1>5. DOMAIN stored' = DOMAIN stored /\ IsMap(stored') /\ \A j \in DOMAIN stored : stored'[j] = IF j = k THEN line ELSE stored[j]
  BY <1>1, <1>4 DEF IsMap
<1>6. \A j \in DOMAIN stored : SaleRowWell(stored'[j]) /\ stored'[j].order.version = stored[j].order.version
  BY <1>3, <1>5 DEF SoldInv, RowsOfSales
<1>7. \A j \in DOMAIN marks : marks[j] = IF j \in DOMAIN stored THEN stored'[j].copies ELSE 0
  BY <1>2, <1>5 DEF SoldInv
<1> QED
  BY <1>4, <1>5, <1>6, <1>7, RowEdited DEF SoldInv

LEMMA MarkCopiedStep ==
    ASSUME SoldPostingAssumption, SoldInv, NEW k \in Account \X (1..MaxOrders), MarkCopied(k)
    PROVE  SoldInv'
<1> PICK row : row = stored[k]
  OBVIOUS
<1>1. k \in DOMAIN stored /\ IsMap(stored) /\ SaleRowWell(row) /\ row.copies = marks[k] /\ marks[k] \in Nat
  BY DEF MarkCopied, SoldInv, RowsOfSales
<1> PICK line : line = [row EXCEPT !.copies = row.copies + 1]
  OBVIOUS
<1>2. /\ SaleRowWell(line) /\ line.order = row.order /\ line.copies = row.copies + 1
  BY <1>1 DEF SaleRowWell
<1>3. stored' = [stored EXCEPT ![k] = line] /\ marks' = [marks EXCEPT ![k] = marks[k] + 1]
      /\ UNCHANGED <<sold, syncing, behind>>
  BY <1>1 DEF MarkCopied, IsMap
<1>4. DOMAIN stored' = DOMAIN stored /\ IsMap(stored') /\ \A j \in DOMAIN stored : stored'[j] = IF j = k THEN line ELSE stored[j]
  BY <1>1, <1>3 DEF IsMap
<1>5. \A j \in DOMAIN stored : SaleRowWell(stored'[j]) /\ stored'[j].order.version = stored[j].order.version
  BY <1>2, <1>4 DEF SoldInv, RowsOfSales
<1>6. /\ marks' \in [Account \X (1..MaxOrders) -> Nat]
      /\ \A j \in DOMAIN marks' : marks'[j] = IF j = k THEN marks[k] + 1 ELSE marks[j]
  BY <1>1, <1>3 DEF SoldInv
<1>7. \A j \in DOMAIN marks' : marks'[j] = IF j \in DOMAIN stored THEN stored'[j].copies ELSE 0
  BY <1>1, <1>2, <1>4, <1>6 DEF SoldInv
<1> QED
  BY <1>3, <1>4, <1>5, <1>6, <1>7, RowEdited

----------------------------------------------------------------------------
LEMMA SoldInvInit == ASSUME SoldPostingAssumption, SoldInit PROVE SoldInv
<1>1. RowsOfSales(<<>>, sold) /\ DOMAIN (<<>>) = {} /\ stored = <<>>
  BY DEF RowsOfSales, IsMap, SoldInit
<1>2. HeldOnce
  BY DEF HeldOnce, Holds, SoldInit, AtRest, SoldPostingAssumption
<1>3. sold \in [Account -> Seq(Sale)] /\ \A a \in Account : Len(sold[a]) = 0
  BY DEF SoldInit
<1> QED
  BY <1>1, <1>2, <1>3 DEF SoldInit, SoldInv, SyncWell, SoldPostingAssumption

LEMMA SoldInvStep == ASSUME SoldPostingAssumption, SoldInv, [SoldNext]_soldVars PROVE SoldInv'
<1>1. ASSUME NEW a \in Account, NEW o \in Payload, Sell(a, o) \/ \E n \in 1..MaxOrders : Change(a, n, o)
      PROVE  SoldInv'
  BY <1>1, SellStep, ChangeStep
<1>2. ASSUME NEW p \in Process,
             \/ \E on \in SUBSET Account : SyncAllStarts(p, on)
             \/ Begin(p) \/ PageRead(p) \/ TokenExpired(p) \/ Busy(p)
             \/ AccountSyncFails(p) \/ AccountSyncSucceeds(p) \/ SyncAllEnds(p)
      PROVE  SoldInv'
  BY <1>2, SyncAllStartsStep, BeginStep, PageStep, TokenExpiredStep, BusyStep, FailsStep, SucceedsStep, SyncAllEndsStep
<1>3. ASSUME NEW k \in Account \X (1..MaxOrders), MarkCopied(k) \/ \E b \in BOOLEAN : UpdateLine(k, "SHIPPED", b)
      PROVE  SoldInv'
  BY <1>3, MarkCopiedStep, UpdateLineStep
<1>4. CASE UNCHANGED soldVars
  <2>1. UNCHANGED <<sold, stored, marks, syncing, behind>>
    BY <1>4 DEF soldVars
  <2> QED
    BY <2>1 DEF SoldInv, HeldOnce, Holds
<1> QED
  BY <1>1, <1>2, <1>3, <1>4 DEF SoldNext

\* A moment is within the bounds of exactly one Indian day, and of the days around it.
LEMMA OneIndianDay ==
    ASSUME NEW row, row.created \in Int
    PROVE  \E d \in DaysAround(row) : {e \in DaysAround(row) : ListedOn(row, e)} = {d}
<1> PICK t \in Int : t = row.created
  OBVIOUS
<1> PICK d \in Int, r \in Int : d = t \div 48 /\ r = t - 48 * d /\ 0 <= r /\ r < 48
  <2>1. t \div 48 \in Int /\ 48 * (t \div 48) <= t /\ t < 48 * (t \div 48) + 48
    OBVIOUS
  <2> QED
    BY <2>1
<1>1. DaysAround(row) = (d - 2)..(d + 2)
  BY DEF DaysAround
<1>2. ASSUME NEW e \in DaysAround(row) PROVE e \in Int /\ (ListedOn(row, e) <=> (48 * e - 11 <= t /\ t <= 48 * e + 36))
  <2>1. e \in Int
    BY <1>1
  <2> QED
    BY <2>1 DEF ListedOn, DateStart, DateEnd
<1>3. CASE r <= 36
  <2>1. ASSUME NEW e \in DaysAround(row) PROVE ListedOn(row, e) <=> e = d
    <3>1. e \in Int /\ (ListedOn(row, e) <=> (48 * e - 11 <= t /\ t <= 48 * e + 36))
      BY <1>2
    <3>2. t = 48 * d + r
      OBVIOUS
    <3>3. 48 * e - 11 <= 48 * d + r /\ 48 * d + r <= 48 * e + 36 <=> e = d
      <4>1. CASE e = d
        BY <3>1, <4>1, <1>3
      <4>2. CASE e < d
        <5>1. 48 * e + 48 <= 48 * (d)
          BY <3>1, <4>2
        <5> QED
          BY <3>1, <4>2, <5>1, <1>3
      <4>3. CASE d < e
        <5>1. 48 * e >= 48 * (d) + 48
          BY <3>1, <4>3
        <5> QED
          BY <3>1, <4>3, <5>1, <1>3
      <4>4. e = d \/ e < d \/ d < e
        BY ONLY d \in Int, <3>1
      <4> QED
        BY ONLY <4>1, <4>2, <4>3, <4>4, Zenon
    <3> QED
      BY ONLY <3>1, <3>2, <3>3, SMTT(60)
  <2>2. d \in DaysAround(row)
    BY <1>1
  <2>3. {e \in DaysAround(row) : ListedOn(row, e)} = {d}
    BY <2>1, <2>2
  <2> QED
    BY <2>2, <2>3
<1>4. CASE r > 36
  <2>1. ASSUME NEW e \in DaysAround(row) PROVE ListedOn(row, e) <=> e = d + 1
    <3>1. e \in Int /\ (ListedOn(row, e) <=> (48 * e - 11 <= t /\ t <= 48 * e + 36))
      BY <1>2
    <3>2. t = 48 * d + r
      OBVIOUS
    <3>3. 48 * e - 11 <= 48 * d + r /\ 48 * d + r <= 48 * e + 36 <=> e = d + 1
      <4>1. CASE e = d + 1
        BY <3>1, <4>1, <1>4
      <4>2. CASE e < d + 1
        <5>1. 48 * e + 48 <= 48 * (d + 1)
          BY <3>1, <4>2
        <5> QED
          BY <3>1, <4>2, <5>1, <1>4
      <4>3. CASE d + 1 < e
        <5>1. 48 * e >= 48 * (d + 1) + 48
          BY <3>1, <4>3
        <5> QED
          BY <3>1, <4>3, <5>1, <1>4
      <4>4. e = d + 1 \/ e < d + 1 \/ d + 1 < e
        BY ONLY d \in Int, <3>1
      <4> QED
        BY ONLY <4>1, <4>2, <4>3, <4>4, Zenon
    <3> QED
      BY ONLY <3>1, <3>2, <3>3
  <2>2. d + 1 \in DaysAround(row)
    <3>1. d + 1 \in (d - 2)..(d + 2)
      BY ONLY d \in Int
    <3> QED
      BY ONLY <1>1, <3>1
  <2>3. {e \in DaysAround(row) : ListedOn(row, e)} = {d + 1}
    BY <2>1, <2>2
  <2> QED
    BY <2>2, <2>3
<1> QED
  BY <1>3, <1>4

LEMMA SoldInvInvariant == ASSUME SoldPostingAssumption PROVE SoldSpec => []SoldInv
<1>1. SoldInit => SoldInv
  BY SoldInvInit
<1>2. SoldInv /\ [SoldNext]_soldVars => SoldInv'
  BY SoldInvStep
<1> QED
  BY <1>1, <1>2, PTL DEF SoldSpec

\* SalesCaughtUp, of SoldPosting: whatever eBay sells, changes and refuses while the processes
\* walk its pages, a sync that succeeds within the limit of pages leaves every order it had to
\* bring stored, as new as it was when the sync began; the copies marked survive every sync.
THEOREM SalesStayCaughtUp == ASSUME SoldPostingAssumption PROVE SoldSpec => []SalesCaughtUp
<1>1. SoldInv => SalesCaughtUp
  <2> SUFFICES ASSUME SoldInv PROVE SalesCaughtUp
    OBVIOUS
  <2>1. ASSUME NEW k \in DOMAIN stored
        PROVE  /\ stored[k].copies = marks[k]
               /\ \E d \in DaysAround(stored[k].order) :
                    {e \in DaysAround(stored[k].order) : ListedOn(stored[k].order, e)} = {d}
    <3>1. k \in Account \X Nat /\ k[2] \in DOMAIN sold[k[1]] /\ SaleRowWell(stored[k])
      BY <2>1 DEF SoldInv, RowsOfSales
    <3>2. k \in DOMAIN marks
      <4> PICK a \in Account, n \in Nat : k = <<a, n>> /\ k[1] = a /\ k[2] = n
        BY <3>1
      <4>1. n \in DOMAIN sold[a] /\ sold[a] \in Seq(Sale) /\ Len(sold[a]) <= MaxOrders /\ MaxOrders \in Nat
        BY <3>1 DEF SoldInv, SoldPostingAssumption
      <4>2. n \in 1..MaxOrders
        BY <4>1
      <4> QED
        BY <4>2 DEF SoldInv
    <3>3. stored[k].order.created \in Int
      BY <3>1 DEF SaleRowWell, ShownWell
    <3> QED
      BY <2>1, <3>2, <3>3, OneIndianDay DEF SoldInv
  <2> QED
    BY <2>1 DEF SoldInv, SalesCaughtUp
<1>2. SoldSpec => []SoldInv
  BY SoldInvInvariant
<1> QED
  BY <1>1, <1>2, PTL

----------------------------------------------------------------------------
(***************************************************************************)
(* Orders (OrderSync): a window of time that eBay's orders leave while a   *)
(* sync walks its pages, and the order each conversation shows.            *)
(***************************************************************************)
AccountOf(o) == Facts[o].account
Walked(p) == p.at \in {"pages", "match"}
WindowOf(a, p, modified) ==
    {o \in Order : /\ AccountOf(o) = a /\ modified[o] # Void
                   /\ p.from # Void => p.from <= modified[o] /\ modified[o] <= p.end}

\* A sync's window ends before this moment, and begins where the last one ended at the latest.
WalkTimes(p, synced, moment) ==
    /\ DOMAIN p = {"at", "from", "end", "offset", "attempt", "refreshed", "held"}
    /\ p.end \in Int /\ p.end <= moment - Lag /\ p.offset \in Nat
    /\ p.from = Void \/ (p.from \in Int /\ synced # Void /\ p.from <= synced)
    /\ synced # Void => synced <= p.end
\* It holds orders as they are, or they have been modified since its window.
HeldRight(a, p, modified) ==
    \A o \in DOMAIN p.held :
        /\ o \in Order /\ AccountOf(o) = a /\ p.held[o] \in Nat
        /\ modified[o] # Void /\ (p.held[o] = modified[o] \/ modified[o] > p.end)
\* Of the orders modified up to the end of its window, a sync holds this one as it is, or has
\* stored it, or it is on a page to come.
Got(o, p, modified, rows) ==
    \/ o \in DOMAIN p.held /\ p.held[o] = modified[o]
    \/ o \notin DOMAIN p.held /\ rows[o] = modified[o]
Ahead(o, a, p, modified) ==
    /\ p.at = "pages" /\ o \in WindowOf(a, p, modified)
    /\ Place(o, WindowOf(a, p, modified)) > p.offset
Covers(a, p, modified, rows, skipped) ==
    \A o \in Order \ skipped :
        AccountOf(o) = a /\ modified[o] # Void /\ modified[o] <= p.end
        => Got(o, p, modified, rows) \/ Ahead(o, a, p, modified)
PassWell(a, p, modified, rows, skipped, synced, moment) ==
    \/ p = Resting
    \/ /\ Walked(p) /\ WalkTimes(p, synced, moment)
       /\ HeldRight(a, p, modified) /\ Covers(a, p, modified, rows, skipped)

InStep(o, modified, rows, synced) ==
    LET s == synced[AccountOf(o)] IN
    modified[o] # Void /\ s # Void /\ modified[o] <= s => rows[o] = modified[o]
\* What a conversation shows: an order that is stored, of its account.
OwnOrder(o, c, rows) == o \in Order /\ rows[o] # Void /\ AccountOf(o) = About[c].account
ShownOrder(c, linked, mapped, kept, rows) ==
    /\ linked # Void => OwnOrder(linked, c, rows)
    /\ mapped.order # Void => OwnOrder(mapped.order, c, rows) /\ Facts[mapped.order].buyer = About[c].buyer
    /\ kept # Void => kept \in Order /\ mapped = [order |-> kept, strategy |-> "SOLD_POSTING"]

ModifiedInv ==
    /\ clock \in Nat
    /\ market \in [Order -> Nat \cup {Void}] /\ \A o \in Order : market[o] # Void => market[o] <= clock
OrderRowsInv == ordersStored \in [Order -> Nat \cup {Void}]
CursorInv == cursor \in [Shop -> Int \cup {Void}] /\ \A a \in Shop : cursor[a] # Void => cursor[a] <= clock - Lag
PassesInv ==
    /\ DOMAIN pass = Shop
    /\ \A a \in Shop : PassWell(a, pass[a], market, ordersStored, slipped, cursor[a], clock)
StepsInv == \A o \in Order \ slipped : InStep(o, market, ordersStored, cursor)
ShownInv ==
    /\ DOMAIN link = Inquiry /\ DOMAIN mapping = Inquiry /\ DOMAIN attached = Inquiry
    /\ \A c \in Inquiry : ShownOrder(c, link[c], mapping[c], attached[c], ordersStored)
OrderInv == ModifiedInv /\ OrderRowsInv /\ CursorInv /\ PassesInv /\ StepsInv /\ ShownInv

----------------------------------------------------------------------------
\* An order has a place of its own on eBay's list.
LEMMA Positions ==
    ASSUME OrderSyncAssumption
    PROVE  /\ IsFiniteSet(Order)
           /\ \A o \in Order : Position(o) \in Nat
           /\ \A o, q \in Order : Position(o) = Position(q) => o = q
<1>1. \A o \in Order : Position(o) \in DOMAIN Orders /\ Orders[Position(o)] = o
  BY DEF Order, ToSet, Position
<1>2. DOMAIN Orders = 1..Len(Orders) /\ Len(Orders) \in Nat
  BY DEF OrderSyncAssumption
<1>3. IsFiniteSet(Order)
  <2> DEFINE f == [o \in Order |-> Position(o)]
  <2>1. f \in Injection(Order, 1..Len(Orders))
    BY <1>1, <1>2 DEF Injection, IsInjective
  <2>2. IsFiniteSet(1..Len(Orders))
    BY <1>2, FS_Interval
  <2> QED
    BY <2>1, <2>2, FS_Injection
<1> QED
  BY <1>1, <1>2, <1>3

LEMMA Places ==
    ASSUME OrderSyncAssumption, NEW window \in SUBSET Order
    PROVE  /\ IsFiniteSet(window) /\ Cardinality(window) \in Nat
           /\ \A o \in window : Place(o, window) \in 1..Cardinality(window)
           /\ \A o, q \in window : Place(o, window) = Place(q, window) => o = q
<1> DEFINE UpTo(o) == {q \in window : Position(q) <= Position(o)}
<1>1. IsFiniteSet(window) /\ Cardinality(window) \in Nat
  BY Positions, FS_Subset, FS_CardinalityType
<1>2. ASSUME NEW o \in window
      PROVE  /\ IsFiniteSet(UpTo(o)) /\ Cardinality(UpTo(o)) \in Nat /\ Cardinality(UpTo(o)) <= Cardinality(window)
             /\ o \in UpTo(o) /\ Cardinality(UpTo(o)) # 0
  <2>1. UpTo(o) \in SUBSET window
    OBVIOUS
  <2>2. IsFiniteSet(UpTo(o)) /\ Cardinality(UpTo(o)) <= Cardinality(window) /\ Cardinality(UpTo(o)) \in Nat
    BY <1>1, <2>1, FS_Subset, FS_CardinalityType
  <2>3. o \in UpTo(o)
    BY Positions
  <2> QED
    BY <2>2, <2>3, FS_EmptySet
<1>3. ASSUME NEW o \in window, NEW q \in window, Position(q) < Position(o)
      PROVE  Cardinality(UpTo(q)) < Cardinality(UpTo(o))
  <2>0. Position(o) \in Nat /\ Position(q) \in Nat /\ \A r \in window : Position(r) \in Nat
    BY Positions
  <2>1. UpTo(q) \in SUBSET UpTo(o)
    BY <1>3, <2>0
  <2>2. o \notin UpTo(q) /\ o \in UpTo(o)
    BY <1>3, <2>0
  <2>3. UpTo(o) # UpTo(q)
    BY <2>2
  <2>4. Cardinality(UpTo(q)) <= Cardinality(UpTo(o)) /\ Cardinality(UpTo(q)) # Cardinality(UpTo(o))
    BY <1>2, <2>1, <2>3, FS_Subset
  <2> QED
    BY <1>2, <2>4
<1>4. \A o \in window : Place(o, window) = Cardinality(UpTo(o))
  BY DEF Place
<1>5. ASSUME NEW o \in window, NEW q \in window, Place(o, window) = Place(q, window) PROVE o = q
  <2>1. Cardinality(UpTo(o)) = Cardinality(UpTo(q)) /\ Cardinality(UpTo(o)) \in Nat
    BY <1>2, <1>4, <1>5
  <2>2. ~(Position(q) < Position(o)) /\ ~(Position(o) < Position(q))
    BY <1>3, <2>1
  <2> QED
    BY <2>2, Positions
<1>6. ASSUME NEW o \in window PROVE Place(o, window) \in 1..Cardinality(window)
  <2> PICK n, size : n = Cardinality(UpTo(o)) /\ size = Cardinality(window)
    OBVIOUS
  <2>1. n \in Nat /\ n # 0 /\ n <= size /\ size \in Nat /\ Place(o, window) = n
    BY <1>1, <1>2, <1>4
  <2> QED
    BY <2>1
<1> QED
  BY <1>1, <1>5, <1>6

LEMMA PlaceGrows ==
    ASSUME OrderSyncAssumption, NEW big \in SUBSET Order, NEW window \in SUBSET big, NEW o \in Order
    PROVE  /\ Place(o, window) \in Nat /\ Place(o, big) \in Nat
           /\ Place(o, window) <= Place(o, big)
<1> DEFINE S == {q \in window : Position(q) <= Position(o)}
           T == {q \in big : Position(q) <= Position(o)}
<1>1. S \in SUBSET T /\ T \in SUBSET Order
  OBVIOUS
<1>2. IsFiniteSet(T)
  BY <1>1, Positions, FS_Subset
<1>3. IsFiniteSet(S) /\ Cardinality(S) <= Cardinality(T)
  BY <1>1, <1>2, FS_Subset
<1>4. Cardinality(S) \in Nat /\ Cardinality(T) \in Nat
  BY <1>2, <1>3, FS_CardinalityType
<1> QED
  BY <1>3, <1>4 DEF Place

\* A page: at most PageLimit orders; and behind an order that is not on it nothing is skipped.
LEMMA Pages ==
    ASSUME OrderSyncAssumption, NEW a \in Shop, NEW p, p.offset \in Nat
    PROVE  /\ FetchPage(a, p) \subseteq Window(a, p) /\ Window(a, p) \subseteq Order
           /\ Cardinality(FetchPage(a, p)) \in Nat
           /\ \A o \in Window(a, p) \ FetchPage(a, p) :
                Place(o, Window(a, p)) > p.offset =>
                  /\ Place(o, Window(a, p)) > p.offset + Cardinality(FetchPage(a, p))
                  /\ HasMore(a, p) /\ FetchPage(a, p) # {}
<1> PICK window, page : window = Window(a, p) /\ page = FetchPage(a, p)
  OBVIOUS
<1> PICK offset \in Nat : offset = p.offset
  OBVIOUS
<1>1. window \subseteq Order
  BY DEF Window
<1>2. page = {o \in window : Place(o, window) \in (offset + 1)..(offset + PageLimit)}
  BY DEF FetchPage
<1>3. /\ IsFiniteSet(window) /\ Cardinality(window) \in Nat
      /\ \A o \in window : Place(o, window) \in 1..Cardinality(window)
      /\ \A o, q \in window : Place(o, window) = Place(q, window) => o = q
  BY <1>1, Places
<1> PICK limit \in Nat \ {0} : limit = PageLimit
  BY DEF OrderSyncAssumption
<1>4. IsFiniteSet(page) /\ Cardinality(page) \in Nat /\ Cardinality(page) <= limit
  <2> DEFINE f == [o \in page |-> Place(o, window)]
  <2>1. f \in Injection(page, (offset + 1)..(offset + limit))
    BY <1>2, <1>3 DEF Injection, IsInjective
  <2>2. /\ IsFiniteSet((offset + 1)..(offset + limit))
        /\ Cardinality((offset + 1)..(offset + limit)) = limit
    <3>1. offset + 1 \in Int /\ offset + limit \in Int /\ ~(offset + 1 > offset + limit)
          /\ (offset + limit) - (offset + 1) + 1 = limit
      OBVIOUS
    <3> QED
      BY <3>1, FS_Interval
  <2> HIDE DEF f
  <2>3. IsFiniteSet(page) /\ Cardinality(page) <= limit
    BY <2>1, <2>2, FS_Injection
  <2> QED
    BY <2>3, FS_CardinalityType
<1>5. ASSUME NEW o \in window \ page, Place(o, window) > offset
      PROVE  /\ Place(o, window) > offset + Cardinality(page)
             /\ offset + Cardinality(page) < Cardinality(window) /\ page # {}
  <2> PICK place \in Nat : place = Place(o, window)
    BY <1>3
  <2>1. place > offset + limit /\ place <= Cardinality(window)
    BY <1>2, <1>3, <1>5
  <2>2. place > offset + Cardinality(page) /\ offset + Cardinality(page) < Cardinality(window)
    BY <1>3, <1>4, <2>1
  <2>3. page # {}
    <3> DEFINE g == [q \in window |-> Place(q, window)]
    <3>1. g \in Injection(window, 1..Cardinality(window))
      BY <1>3 DEF Injection, IsInjective
    <3>2. /\ IsFiniteSet(1..Cardinality(window))
          /\ Cardinality(1..Cardinality(window)) = Cardinality(window)
      <4> PICK size \in Nat : size = Cardinality(window)
        BY <1>3
      <4>1. 1 \in Int /\ size \in Int /\ (1 > size => size = 0) /\ size - 1 + 1 = size
        OBVIOUS
      <4>2. IsFiniteSet(1..size) /\ Cardinality(1..size) = size
        BY <4>1, FS_Interval
      <4> QED
        BY <4>2
    <3> HIDE DEF g
    <3>3. g \in Surjection(window, 1..Cardinality(window))
      BY <3>1, <3>2, FS_Injection
    <3>4. offset + 1 \in 1..Cardinality(window)
      BY <1>3, <2>1
    <3>5. PICK q \in window : g[q] = offset + 1
      BY <3>3, <3>4 DEF Surjection
    <3>6. Place(q, window) = offset + 1
      BY <3>5 DEF g
    <3>7. offset + 1 \in (offset + 1)..(offset + PageLimit)
      <4>1. offset + 1 \in (offset + 1)..(offset + limit)
        OBVIOUS
      <4> QED
        BY <4>1
    <3> QED
      BY <1>2, <3>6, <3>7
  <2> QED
    BY <2>2, <2>3
<1>6. page \subseteq window
  BY <1>2
<1> QED
  BY <1>1, <1>4, <1>5, <1>6 DEF HasMore

----------------------------------------------------------------------------
\* A sync whose orders stay as they are, and what it stored with them, stays as well off.
LEMMA PassStays ==
    ASSUME OrderSyncAssumption, NEW a, NEW p, NEW modified, NEW rows, NEW skipped, NEW synced, NEW moment \in Int,
           NEW modified2, NEW rows2, NEW skipped2, NEW moment2 \in Int,
           PassWell(a, p, modified, rows, skipped, synced, moment), moment <= moment2, skipped \subseteq skipped2,
           \A o \in Order : AccountOf(o) = a => modified2[o] = modified[o],
           Walked(p) => \A o \in Order :
             AccountOf(o) = a /\ modified[o] # Void /\ o \notin DOMAIN p.held /\ rows[o] = modified[o] => rows2[o] = modified[o]
    PROVE  PassWell(a, p, modified2, rows2, skipped2, synced, moment2)
<1> SUFFICES ASSUME Walked(p), WalkTimes(p, synced, moment), HeldRight(a, p, modified), Covers(a, p, modified, rows, skipped)
             PROVE  WalkTimes(p, synced, moment2) /\ HeldRight(a, p, modified2) /\ Covers(a, p, modified2, rows2, skipped2)
  BY DEF PassWell
<1>1. WalkTimes(p, synced, moment2)
  BY DEF WalkTimes, OrderSyncAssumption
<1>2. HeldRight(a, p, modified2)
  BY DEF HeldRight
<1>3. WindowOf(a, p, modified2) = WindowOf(a, p, modified)
  BY DEF WindowOf
<1>4. ASSUME NEW o \in Order \ skipped2, AccountOf(o) = a, modified2[o] # Void, modified2[o] <= p.end
      PROVE  Got(o, p, modified2, rows2) \/ Ahead(o, a, p, modified2)
  <2>1. Got(o, p, modified, rows) \/ Ahead(o, a, p, modified)
    BY <1>4 DEF Covers
  <2> QED
    BY <1>3, <1>4, <2>1 DEF Got, Ahead
<1> QED
  BY <1>1, <1>2, <1>4 DEF Covers

LEMMA ShownStays ==
    ASSUME ShownInv, UNCHANGED <<link, mapping, attached>>,
           \A o \in Order : ordersStored[o] # Void => ordersStored'[o] # Void
    PROVE  ShownInv'
<1>1. \A o, c : OwnOrder(o, c, ordersStored) => OwnOrder(o, c, ordersStored')
  BY DEF OwnOrder
<1>2. ASSUME NEW c \in Inquiry PROVE ShownOrder(c, link[c], mapping[c], attached[c], ordersStored')
  BY <1>1 DEF ShownInv, ShownOrder
<1> QED
  BY <1>2 DEF ShownInv

LEMMA ClockTicksStep == ASSUME OrderSyncAssumption, OrderInv, ClockTicks PROVE OrderInv'
<1>1. clock \in Nat /\ clock' = clock + 1 /\ UNCHANGED <<market, ordersStored, cursor, pass, link, mapping, slipped, attached>>
  BY DEF ClockTicks, OrderInv, ModifiedInv
<1>2. \A o \in Order : market[o] \in Nat \cup {Void}
  BY DEF OrderInv, ModifiedInv
<1>3. ModifiedInv' /\ OrderRowsInv' /\ StepsInv' /\ ShownInv'
  BY <1>1, <1>2 DEF OrderInv, ModifiedInv, OrderRowsInv, StepsInv, ShownInv
<1>4. CursorInv'
  BY <1>1 DEF OrderInv, CursorInv, OrderSyncAssumption
<1>5. ASSUME NEW a \in Shop PROVE PassWell(a, pass[a], market, ordersStored, slipped, cursor[a], clock')
  <2>1. PassWell(a, pass[a], market, ordersStored, slipped, cursor[a], clock)
    BY DEF OrderInv, PassesInv
  <2> QED
    BY <1>1, <2>1, PassStays
<1>6. PassesInv'
  BY <1>1, <1>5 DEF OrderInv, PassesInv
<1> QED
  BY <1>3, <1>4, <1>6 DEF OrderInv

LEMMA ModifyStep == ASSUME OrderSyncAssumption, OrderInv, NEW o \in Order, Modify(o) PROVE OrderInv'
<1> PICK a \in Shop : a = AccountOf(o)
  BY DEF AccountOf, OrderSyncAssumption, Order
<1> PICK p : p = pass[a]
  OBVIOUS
<1>1. /\ market' = [market EXCEPT ![o] = clock]
      /\ slipped' = IF p.at = "pages" /\ InWindow(o, p)
                    THEN slipped \cup {q \in Order : InWindow(q, p) /\ q \notin DOMAIN p.held} ELSE slipped
      /\ UNCHANGED <<clock, ordersStored, cursor, pass, link, mapping, attached>>
  BY DEF Modify, AccountOf
<1>2. clock \in Nat /\ clock # Void /\ Lag \in Nat \ {0}
  BY DEF OrderInv, ModifiedInv, OrderSyncAssumption
<1>3. /\ market' \in [Order -> Nat \cup {Void}]
      /\ \A q \in Order : market'[q] = IF q = o THEN clock ELSE market[q]
  BY <1>1, <1>2 DEF OrderInv, ModifiedInv
<1>4. ModifiedInv'
  BY <1>1, <1>2, <1>3 DEF OrderInv, ModifiedInv
<1>5. OrderRowsInv' /\ CursorInv'
  BY <1>1 DEF OrderInv, OrderRowsInv, CursorInv
<1>6. ShownInv'
  BY <1>1, ShownStays DEF OrderInv
<1>7. slipped \subseteq slipped'
  BY <1>1
<1>8. ASSUME NEW q \in Order \ slipped' PROVE InStep(q, market', ordersStored, cursor)
  <2>1. InStep(q, market, ordersStored, cursor)
    BY <1>7 DEF OrderInv, StepsInv
  <2>2. CASE q # o
    BY <1>3, <2>1, <2>2 DEF InStep
  <2>3. CASE q = o
    <3>1. cursor[a] # Void => cursor[a] \in Int /\ cursor[a] <= clock - Lag
      BY DEF OrderInv, CursorInv
    <3>2. market'[q] = clock /\ ~(cursor[a] # Void /\ clock <= cursor[a])
      BY <1>2, <1>3, <2>3, <3>1
    <3> QED
      BY <2>3, <3>2 DEF InStep
  <2> QED
    BY <2>2, <2>3
<1>9. StepsInv'
  BY <1>1, <1>8 DEF StepsInv
<1>10. ASSUME NEW b \in Shop PROVE PassWell(b, pass[b], market', ordersStored, slipped', cursor[b], clock)
  <2>1. PassWell(b, pass[b], market, ordersStored, slipped, cursor[b], clock)
    BY DEF OrderInv, PassesInv
  <2>2. CASE b # a
    <3>1. \A q \in Order : AccountOf(q) = b => market'[q] = market[q]
      BY <1>3, <2>2
    <3> PICK modified2, skipped2 : modified2 = market' /\ skipped2 = slipped'
      OBVIOUS
    <3> QED
      BY <1>2, <1>7, <2>1, <3>1, PassStays
  <2>3. CASE b = a /\ p # Resting
    <3>1. Walked(p) /\ WalkTimes(p, cursor[a], clock) /\ HeldRight(a, p, market) /\ Covers(a, p, market, ordersStored, slipped)
      BY <2>1, <2>3 DEF PassWell
    <3>2. p.end \in Int /\ p.end < clock /\ p.offset \in Nat
      BY <1>2, <3>1 DEF WalkTimes
    <3>3. HeldRight(a, p, market')
      BY <1>2, <1>3, <3>1, <3>2 DEF HeldRight
    <3>4. ASSUME NEW q \in Order \ slipped', AccountOf(q) = a, market'[q] # Void, market'[q] <= p.end
          PROVE  Got(q, p, market', ordersStored) \/ Ahead(q, a, p, market')
      <4>1. q # o /\ market'[q] = market[q] /\ market[q] \in Nat
        BY <1>2, <1>3, <3>2, <3>4 DEF OrderInv, ModifiedInv
      <4>2. Got(q, p, market, ordersStored) \/ Ahead(q, a, p, market)
        BY <1>7, <3>1, <3>4, <4>1 DEF Covers
      <4>3. CASE Got(q, p, market, ordersStored)
        BY <4>1, <4>3 DEF Got
      <4>4. CASE Ahead(q, a, p, market) /\ InWindow(o, p)
        <5>1. q \in DOMAIN p.held
          BY <1>1, <3>4, <4>4 DEF Ahead, WindowOf, InWindow
        <5>2. p.held[q] = market[q]
          BY <3>1, <3>2, <3>4, <4>1, <5>1 DEF HeldRight
        <5> QED
          BY <4>1, <5>1, <5>2 DEF Got
      <4>5. CASE Ahead(q, a, p, market) /\ ~InWindow(o, p)
        <5> PICK before, after : before = WindowOf(a, p, market) /\ after = WindowOf(a, p, market')
          OBVIOUS
        <5>1. before \in SUBSET after
          <6>1. ASSUME NEW r \in before PROVE r \in after
            <7>1. r \in Order /\ r # o
              BY <4>5, <6>1 DEF WindowOf, InWindow
            <7> QED
              BY <1>3, <6>1, <7>1 DEF WindowOf
          <6> QED
            BY <6>1
        <5>2. after \in SUBSET Order
          BY DEF WindowOf
        <5>3. Place(q, before) \in Nat /\ Place(q, after) \in Nat /\ Place(q, before) <= Place(q, after)
          BY <5>1, <5>2, PlaceGrows
        <5> QED
          BY <3>2, <4>5, <5>1, <5>3 DEF Ahead
      <4> QED
        BY <4>2, <4>3, <4>4, <4>5
    <3>5. Covers(a, p, market', ordersStored, slipped')
      BY <3>4 DEF Covers
    <3> QED
      BY <2>3, <3>1, <3>3, <3>5 DEF PassWell
  <2> QED
    BY <2>2, <2>3 DEF PassWell
<1>11. PassesInv'
  BY <1>1, <1>10 DEF OrderInv, PassesInv
<1> QED
  BY <1>4, <1>5, <1>6, <1>9, <1>11 DEF OrderInv

LEMMA SyncBeginsStep == ASSUME OrderSyncAssumption, OrderInv, NEW a \in Shop, SyncBegins(a) PROVE OrderInv'
<1> PICK end \in Int : end = clock - Lag
  BY DEF OrderInv, ModifiedInv, OrderSyncAssumption
<1> PICK from : from = FilterFrom(a, end)
  OBVIOUS
<1> PICK p : p = [at |-> "pages", from |-> from, end |-> end, offset |-> 0,
                  attempt |-> 1, refreshed |-> FALSE, held |-> <<>>]
  OBVIOUS
<1>1. pass' = [pass EXCEPT ![a] = p] /\ UNCHANGED <<clock, market, ordersStored, cursor, link, mapping, slipped, attached>>
  BY DEF SyncBegins
<1>2. cursor[a] \in Int \cup {Void} /\ (cursor[a] # Void => cursor[a] <= end) /\ Overlap \in Nat
  BY DEF OrderInv, CursorInv, OrderSyncAssumption
<1>3. /\ cursor[a] = Void => from = Void
      /\ cursor[a] # Void => from \in Int /\ from <= cursor[a]
  BY <1>2 DEF FilterFrom
<1>4. WalkTimes(p, cursor[a], clock)
  BY <1>2, <1>3 DEF WalkTimes
<1>5. DOMAIN p.held = {}
  OBVIOUS
<1>6. ASSUME NEW o \in Order \ slipped, AccountOf(o) = a, market[o] # Void, market[o] <= p.end
      PROVE  Got(o, p, market, ordersStored) \/ Ahead(o, a, p, market)
  <2>1. market[o] \in Nat
    BY <1>6 DEF OrderInv, ModifiedInv
  <2>2. CASE from # Void /\ market[o] < from
    <3>1. cursor[a] # Void /\ market[o] <= cursor[a]
      BY <1>2, <1>3, <2>1, <2>2
    <3>2. ordersStored[o] = market[o]
      BY <1>6, <3>1 DEF OrderInv, StepsInv, InStep
    <3> QED
      BY <1>5, <3>2 DEF Got
  <2>3. CASE ~(from # Void /\ market[o] < from)
    <3> PICK window : window = WindowOf(a, p, market)
      OBVIOUS
    <3>1. from # Void => from <= market[o]
      BY <1>2, <1>3, <2>1, <2>3
    <3>2. o \in window
      BY <1>6, <3>1 DEF WindowOf
    <3>3. Place(o, window) \in 1..Cardinality(window) /\ Cardinality(window) \in Nat
      BY <3>2, Places DEF WindowOf
    <3>4. Place(o, window) > p.offset
      BY <3>3
    <3> QED
      BY <3>2, <3>4 DEF Ahead
  <2> QED
    BY <2>2, <2>3
<1>7. PassWell(a, p, market, ordersStored, slipped, cursor[a], clock)
  BY <1>4, <1>5, <1>6 DEF PassWell, Walked, HeldRight, Covers
<1>8. PassesInv'
  BY <1>1, <1>7 DEF OrderInv, PassesInv
<1> QED
  BY <1>1, <1>8 DEF OrderInv, ModifiedInv, OrderRowsInv, CursorInv, StepsInv, ShownInv

\* What a sync writes: its orders' rows, each as it holds it.
LEMMA FlushedRows ==
    ASSUME OrderSyncAssumption, OrderInv, NEW a \in Shop, NEW p, p = pass[a], Walked(p), NEW rows, rows = Flushed(p)
    PROVE  /\ rows \in [Order -> Nat \cup {Void}]
           /\ \A o \in Order : rows[o] = IF o \in DOMAIN p.held THEN p.held[o] ELSE ordersStored[o]
           /\ \A o \in Order : ordersStored[o] # Void => rows[o] # Void
           /\ \A o \in Order : AccountOf(o) # a => rows[o] = ordersStored[o]
           /\ \A o \in Order \ slipped : InStep(o, market, rows, cursor)
           /\ \A b \in Shop : PassWell(b, pass[b], market, rows, slipped, cursor[b], clock)
<1>1. WalkTimes(p, cursor[a], clock) /\ HeldRight(a, p, market) /\ Covers(a, p, market, ordersStored, slipped)
  BY DEF OrderInv, PassesInv, PassWell, Walked, Resting, OrderSyncAssumption
<1>2. rows = [o \in Order |-> IF o \in DOMAIN p.held THEN p.held[o] ELSE ordersStored[o]]
  BY DEF Flushed
<1>3. \A o \in DOMAIN p.held : p.held[o] \in Nat /\ p.held[o] # Void /\ AccountOf(o) = a
  BY <1>1 DEF HeldRight, OrderSyncAssumption
<1>4. /\ rows \in [Order -> Nat \cup {Void}]
      /\ \A o \in Order : rows[o] = IF o \in DOMAIN p.held THEN p.held[o] ELSE ordersStored[o]
      /\ \A o \in Order : ordersStored[o] # Void => rows[o] # Void
      /\ \A o \in Order : AccountOf(o) # a => rows[o] = ordersStored[o]
  BY <1>2, <1>3 DEF OrderInv, OrderRowsInv
<1>5. ASSUME NEW o \in Order \ slipped PROVE InStep(o, market, rows, cursor)
  <2>1. InStep(o, market, ordersStored, cursor)
    BY DEF OrderInv, StepsInv
  <2>2. CASE o \in DOMAIN p.held
    <3>1. AccountOf(o) = a /\ rows[o] = p.held[o] /\ (p.held[o] = market[o] \/ market[o] > p.end) /\ market[o] # Void
      BY <1>1, <1>4, <2>2 DEF HeldRight
    <3>2. market[o] \in Nat /\ p.end \in Int /\ cursor[a] \in Int \cup {Void} /\ (cursor[a] # Void => cursor[a] <= p.end)
      BY <1>1, <3>1 DEF OrderInv, ModifiedInv, CursorInv, WalkTimes
    <3> QED
      BY <3>1, <3>2 DEF InStep
  <2>3. CASE o \notin DOMAIN p.held
    BY <1>4, <2>1, <2>3 DEF InStep
  <2> QED
    BY <2>2, <2>3
<1>6. ASSUME NEW b \in Shop PROVE PassWell(b, pass[b], market, rows, slipped, cursor[b], clock)
  <2> PICK t : t = pass[b]
    OBVIOUS
  <2>1. PassWell(b, t, market, ordersStored, slipped, cursor[b], clock)
    BY DEF OrderInv, PassesInv
  <2>2. \A o \in Order :
          AccountOf(o) = b /\ market[o] # Void /\ o \notin DOMAIN t.held /\ ordersStored[o] = market[o] => rows[o] = market[o]
    BY <1>4
  <2>3. clock \in Int /\ clock <= clock
    BY DEF OrderInv, ModifiedInv
  <2> QED
    BY <2>1, <2>2, <2>3, PassStays
<1> QED
  BY <1>4, <1>5, <1>6

LEMMA TokenRefreshedStep == ASSUME OrderSyncAssumption, OrderInv, NEW a \in Shop, TokenRefreshed(a) PROVE OrderInv'
<1> PICK p : p = pass[a]
  OBVIOUS
<1> PICK t : t = [[p EXCEPT !.refreshed = TRUE] EXCEPT !.attempt = p.attempt + 1]
  OBVIOUS
<1>1. p.at = "pages" /\ Walked(p) /\ ordersStored' = Flushed(p) /\ UNCHANGED <<clock, market, cursor, link, mapping, slipped, attached>>
  BY DEF TokenRefreshed, Walked
<1> PICK rows : rows = ordersStored'
  OBVIOUS
<1>2. /\ rows \in [Order -> Nat \cup {Void}]
      /\ \A o \in Order : ordersStored[o] # Void => rows[o] # Void
      /\ \A o \in Order \ slipped : InStep(o, market, rows, cursor)
      /\ \A b \in Shop : PassWell(b, pass[b], market, rows, slipped, cursor[b], clock)
  BY <1>1, FlushedRows
<1>3. WalkTimes(p, cursor[a], clock) /\ HeldRight(a, p, market) /\ Covers(a, p, market, rows, slipped)
  BY <1>1, <1>2 DEF PassWell, Walked, Resting, OrderSyncAssumption
<1>4. /\ DOMAIN t = DOMAIN p /\ t.at = p.at /\ t.from = p.from /\ t.end = p.end /\ t.offset = p.offset /\ t.held = p.held
  BY <1>3 DEF WalkTimes
<1>5. WindowOf(a, t, market) = WindowOf(a, p, market)
  BY <1>4 DEF WindowOf
<1>6. PassWell(a, t, market, rows, slipped, cursor[a], clock)
  <2>1. Walked(t) /\ WalkTimes(t, cursor[a], clock)
    BY <1>1, <1>3, <1>4 DEF Walked, WalkTimes
  <2>2. HeldRight(a, t, market)
    BY <1>3, <1>4 DEF HeldRight
  <2>3. Covers(a, t, market, rows, slipped)
    BY <1>3, <1>4, <1>5 DEF Covers, Got, Ahead
  <2> QED
    BY <2>1, <2>2, <2>3 DEF PassWell
<1>7. pass' = [pass EXCEPT ![a] = t]
  BY <1>3 DEF TokenRefreshed, OrderInv, PassesInv
<1>8. PassesInv'
  BY <1>1, <1>2, <1>6, <1>7 DEF OrderInv, PassesInv
<1>9. ShownInv'
  BY <1>1, <1>2, ShownStays DEF OrderInv
<1> QED
  BY <1>1, <1>2, <1>8, <1>9 DEF OrderInv, ModifiedInv, OrderRowsInv, CursorInv, StepsInv

LEMMA SyncFailsStep == ASSUME OrderSyncAssumption, OrderInv, NEW a \in Shop, SyncFails(a) PROVE OrderInv'
<1> PICK p : p = pass[a]
  OBVIOUS
<1>1. /\ Walked(p) /\ ordersStored' = Flushed(p) /\ pass' = [pass EXCEPT ![a] = Resting]
      /\ UNCHANGED <<clock, market, cursor, link, mapping, slipped, attached>>
  BY DEF SyncFails, Walked
<1> PICK rows : rows = ordersStored'
  OBVIOUS
<1>2. /\ rows \in [Order -> Nat \cup {Void}]
      /\ \A o \in Order : ordersStored[o] # Void => rows[o] # Void
      /\ \A o \in Order \ slipped : InStep(o, market, rows, cursor)
      /\ \A b \in Shop : PassWell(b, pass[b], market, rows, slipped, cursor[b], clock)
  BY <1>1, FlushedRows
<1>3. PassWell(a, Resting, market, rows, slipped, cursor[a], clock)
  BY DEF PassWell
<1>4. PassesInv'
  BY <1>1, <1>2, <1>3 DEF OrderInv, PassesInv
<1>5. ShownInv'
  BY <1>1, <1>2, ShownStays DEF OrderInv
<1> QED
  BY <1>1, <1>2, <1>4, <1>5 DEF OrderInv, ModifiedInv, OrderRowsInv, CursorInv, StepsInv

LEMMA PageUpsertedStep ==
    ASSUME OrderSyncAssumption, OrderInv, NEW a \in Shop, NEW bad \in SUBSET Order, PageUpserted(a, bad)
    PROVE  OrderInv'
<1> PICK p, page, window : p = pass[a] /\ page = FetchPage(a, p) /\ window = Window(a, p)
  OBVIOUS
<1> PICK at, held, n :
      /\ at = (IF HasMore(a, p) /\ page # {} THEN "pages" ELSE "match")
      /\ held = Held(a, p, bad) /\ n = Cardinality(page)
  OBVIOUS
<1> PICK t : t = [p EXCEPT !.held = held, !.offset = p.offset + n, !.attempt = 1, !.refreshed = FALSE, !.at = at]
  OBVIOUS
<1>1. /\ p.at = "pages" /\ bad \subseteq page /\ pass' = [pass EXCEPT ![a] = t] /\ slipped' = slipped \cup bad
      /\ UNCHANGED <<clock, market, ordersStored, cursor, link, mapping, attached>>
  BY DEF PageUpserted
<1>2. WalkTimes(p, cursor[a], clock) /\ HeldRight(a, p, market) /\ Covers(a, p, market, ordersStored, slipped)
  BY <1>1 DEF OrderInv, PassesInv, PassWell, Walked, Resting, OrderSyncAssumption
<1>3. /\ page \subseteq window /\ window \subseteq Order /\ n \in Nat
      /\ \A o \in window \ page : Place(o, window) > p.offset => Place(o, window) > p.offset + n /\ at = "pages"
  <2>1. p.offset \in Nat
    BY <1>2 DEF WalkTimes
  <2> QED
    BY <2>1, Pages
<1>4. window = WindowOf(a, p, market)
  BY DEF Window, InWindow, WindowOf, AccountOf
<1>5. /\ DOMAIN t = DOMAIN p /\ t.at = at /\ t.from = p.from /\ t.end = p.end /\ t.offset = p.offset + n /\ t.held = held
  BY <1>2 DEF WalkTimes
<1>6. WindowOf(a, t, market) = window
  BY <1>4, <1>5 DEF WindowOf
<1>7. /\ DOMAIN held = (page \ bad) \cup DOMAIN p.held
      /\ \A o \in DOMAIN held : held[o] = IF o \in page \ bad THEN market[o] ELSE p.held[o]
  BY DEF Held
<1>8. HeldRight(a, t, market)
  <2>1. ASSUME NEW o \in DOMAIN held, o \in page \ bad
        PROVE  o \in Order /\ AccountOf(o) = a /\ held[o] \in Nat /\ market[o] # Void /\ held[o] = market[o]
    <3>1. o \in Order /\ AccountOf(o) = a /\ market[o] # Void
      BY <1>3, <1>4, <2>1 DEF WindowOf
    <3> QED
      BY <1>7, <2>1, <3>1 DEF OrderInv, ModifiedInv
  <2> QED
    BY <1>2, <1>5, <1>7, <2>1 DEF HeldRight
<1>9. ASSUME NEW o \in Order \ slipped', AccountOf(o) = a, market[o] # Void, market[o] <= t.end
      PROVE  Got(o, t, market, ordersStored) \/ Ahead(o, a, t, market)
  <2>1. o \notin bad /\ (Got(o, p, market, ordersStored) \/ Ahead(o, a, p, market))
    BY <1>1, <1>2, <1>5, <1>9 DEF Covers
  <2>2. CASE o \in page
    BY <1>5, <1>7, <2>1, <2>2 DEF Got
  <2>3. CASE o \notin page /\ Got(o, p, market, ordersStored)
    BY <1>5, <1>7, <2>3 DEF Got
  <2>4. CASE o \notin page /\ Ahead(o, a, p, market)
    <3>1. o \in window \ page /\ Place(o, window) > p.offset
      BY <1>4, <2>4 DEF Ahead
    <3> QED
      BY <1>3, <1>5, <1>6, <3>1 DEF Ahead
  <2> QED
    BY <2>1, <2>2, <2>3, <2>4
<1>10. PassWell(a, t, market, ordersStored, slipped', cursor[a], clock)
  <2>1. Walked(t)
    BY <1>5 DEF Walked
  <2>2. WalkTimes(t, cursor[a], clock)
    BY <1>2, <1>3, <1>5 DEF WalkTimes
  <2>3. Covers(a, t, market, ordersStored, slipped')
    BY <1>9 DEF Covers
  <2> QED
    BY <1>8, <2>1, <2>2, <2>3 DEF PassWell
<1>11. ASSUME NEW b \in Shop PROVE PassWell(b, pass[b], market, ordersStored, slipped', cursor[b], clock)
  <2>1. PassWell(b, pass[b], market, ordersStored, slipped, cursor[b], clock)
    BY DEF OrderInv, PassesInv
  <2>2. clock \in Int /\ clock <= clock /\ slipped \subseteq slipped'
    BY <1>1 DEF OrderInv, ModifiedInv
  <2> QED
    BY <2>1, <2>2, PassStays
<1>12. PassesInv'
  BY <1>1, <1>10, <1>11 DEF OrderInv, PassesInv
<1>13. StepsInv'
  BY <1>1 DEF OrderInv, StepsInv
<1> QED
  BY <1>1, <1>12, <1>13 DEF OrderInv, ModifiedInv, OrderRowsInv, CursorInv, ShownInv

----------------------------------------------------------------------------
\* Of candidates there is a nearest one, and the first by id of those.
LEMMA BestIsOne ==
    ASSUME OrderSyncAssumption, NEW c \in Inquiry, NEW os \in SUBSET Order, os # {}
    PROVE  BestOrder(c, os) \in os
<1>1. \A o \in os : Apart(o, c) \in Nat /\ Position(o) \in Nat
  BY Positions DEF Apart, OrderSyncAssumption, Order
<1> DEFINE Distances == {Apart(o, c) : o \in os}
<1>2. Distances \in SUBSET Nat /\ Distances # {}
  BY <1>1
<1> HIDE DEF Distances
<1>3. PICK d \in Distances : \A e \in Distances : d <= e
  BY <1>2, LeastElement
<1> DEFINE Nearest == {Position(o) : o \in {q \in os : Apart(q, c) = d}}
<1>4. Nearest \in SUBSET Nat /\ Nearest # {}
  BY <1>1, <1>3 DEF Distances
<1> HIDE DEF Nearest
<1>5. PICK i \in Nearest : \A j \in Nearest : i <= j
  BY <1>4, LeastElement
<1>6. PICK o \in os : Apart(o, c) = d /\ Position(o) = i
  BY <1>5 DEF Nearest
<1>7. ASSUME NEW q \in os
      PROVE  Apart(o, c) < Apart(q, c) \/ (Apart(o, c) = Apart(q, c) /\ Position(o) <= Position(q))
  <2>1. d <= Apart(q, c) /\ d \in Nat /\ Apart(q, c) \in Nat
    BY <1>1, <1>2, <1>3 DEF Distances
  <2>2. CASE Apart(q, c) = d
    BY <1>5, <1>6, <2>2 DEF Nearest
  <2>3. CASE Apart(q, c) # d
    BY <1>6, <2>1, <2>3
  <2> QED
    BY <2>2, <2>3
<1> QED
  BY <1>7 DEF BestOrder

\* What matching finds is an order of the conversation's account and buyer.
LEMMA MatchIsOwn ==
    ASSUME OrderSyncAssumption, NEW c \in Inquiry, NEW rows \in SUBSET Order, MatchOf(c, rows).order # Void
    PROVE  MatchOf(c, rows).order \in OfBuyer(c, rows)
<1> PICK found, near : found = FindCandidates(c, rows) /\ near = FindNearby(c, rows)
  OBVIOUS
<1>1. found \in SUBSET OfBuyer(c, rows) /\ near \in SUBSET OfBuyer(c, rows) /\ OfBuyer(c, rows) \in SUBSET Order
  BY DEF FindCandidates, FindNearby, Newest, OfBuyer
<1>2. IsFiniteSet(found) /\ IsFiniteSet(near)
  BY <1>1, Positions, FS_Subset
<1>3. (Cardinality(found) \in Nat /\ (Cardinality(found) >= 1 => found # {}))
      /\ (Cardinality(near) \in Nat /\ (Cardinality(near) >= 1 => near # {}))
  BY <1>2, FS_CardinalityType, FS_EmptySet
<1>4. (found # {} => BestOrder(c, found) \in found) /\ (near # {} => BestOrder(c, near) \in near)
  BY <1>1, BestIsOne
<1> PICK first, second : first = BestOrder(c, found) /\ second = BestOrder(c, near)
  OBVIOUS
<1>5. \/ found # {} /\ MatchOf(c, rows).order = first
      \/ near # {} /\ MatchOf(c, rows).order = second
      \/ MatchOf(c, rows) = NoMapping
  <2> PICK n, k \in Nat : n = Cardinality(found) /\ k = Cardinality(near)
    BY <1>3
  <2>1. MatchOf(c, rows) =
          CASE n = 1 -> [order |-> first, strategy |-> "BUYER_ITEM_MATCH"]
            [] n > 1 -> [order |-> first, strategy |-> "BUYER_ITEM_DATE_MATCH"]
            [] found = {} /\ k = 1 -> [order |-> second, strategy |-> "BUYER_NEARBY_ORDER"]
            [] found = {} /\ k > 1 -> [order |-> second, strategy |-> "BUYER_NEARBY_DATE_MATCH"]
            [] OTHER -> NoMapping
    BY DEF MatchOf
  <2>2. (n >= 1 <=> found # {}) /\ (k >= 1 => near # {})
    BY <1>2, <1>3, FS_EmptySet
  <2> QED
    BY <2>1, <2>2
<1>6. NoMapping.order = Void
  BY DEF NoMapping
<1> QED
  BY <1>1, <1>3, <1>4, <1>5, <1>6

LEMMA MatchAndCommitStep == ASSUME OrderSyncAssumption, OrderInv, NEW a \in Shop, MatchAndCommit(a) PROVE OrderInv'
<1> PICK p : p = pass[a]
  OBVIOUS
<1> PICK rows : rows = ordersStored'
  OBVIOUS
<1> PICK known : known = {o \in Order : rows[o] # Void}
  OBVIOUS
<1> PICK matched : matched = {c \in Inquiry :
                      About[c].account = a /\ ~Preserved(c) /\ MatchOf(c, known).order # Void}
  OBVIOUS
<1>1. /\ p.at = "match" /\ rows = Flushed(p)
      /\ mapping' = [c \in Inquiry |-> IF c \in matched THEN MatchOf(c, known) ELSE mapping[c]]
      /\ link' = [c \in Inquiry |-> IF c \in matched THEN MatchOf(c, known).order ELSE link[c]]
      /\ cursor' = [cursor EXCEPT ![a] = p.end]
      /\ pass' = [pass EXCEPT ![a] = Resting]
      /\ UNCHANGED <<clock, market, slipped, attached>>
  BY DEF MatchAndCommit, Cursor
<1>2. Walked(p)
  BY <1>1 DEF Walked
<1>3. /\ rows \in [Order -> Nat \cup {Void}]
      /\ \A o \in Order : rows[o] = IF o \in DOMAIN p.held THEN p.held[o] ELSE ordersStored[o]
      /\ \A o \in Order : ordersStored[o] # Void => rows[o] # Void
      /\ \A o \in Order \ slipped : InStep(o, market, rows, cursor)
      /\ \A b \in Shop : PassWell(b, pass[b], market, rows, slipped, cursor[b], clock)
  BY <1>1, <1>2, FlushedRows
<1>4. WalkTimes(p, cursor[a], clock) /\ HeldRight(a, p, market) /\ Covers(a, p, market, ordersStored, slipped)
  BY <1>2 DEF OrderInv, PassesInv, PassWell, Walked, Resting, OrderSyncAssumption
<1>5. \A b \in Shop : cursor'[b] = IF b = a THEN p.end ELSE cursor[b]
  BY <1>1 DEF OrderInv, CursorInv
<1>6. CursorInv'
  BY <1>1, <1>4, <1>5 DEF OrderInv, CursorInv, WalkTimes
<1>7. ASSUME NEW o \in Order \ slipped PROVE InStep(o, market, rows, cursor')
  <2>1. AccountOf(o) \in Shop
    BY DEF AccountOf, OrderSyncAssumption, Order
  <2>2. CASE AccountOf(o) # a
    BY <1>3, <1>5, <2>1, <2>2 DEF InStep
  <2>3. CASE AccountOf(o) = a
    <3> SUFFICES ASSUME market[o] # Void, market[o] <= p.end PROVE rows[o] = market[o]
      BY <1>5, <2>1, <2>3 DEF InStep
    <3>1. ~Ahead(o, a, p, market)
      BY <1>1 DEF Ahead
    <3>2. Got(o, p, market, ordersStored)
      BY <1>4, <2>3, <3>1 DEF Covers
    <3> QED
      BY <1>3, <3>2 DEF Got
  <2> QED
    BY <2>2, <2>3
<1>8. StepsInv'
  BY <1>1, <1>7 DEF StepsInv
<1>9. PassesInv'
  <2>1. PassWell(a, Resting, market, rows, slipped, cursor'[a], clock)
    BY DEF PassWell
  <2>2. \A b \in Shop : pass'[b] = IF b = a THEN Resting ELSE pass[b]
    BY <1>1 DEF OrderInv, PassesInv
  <2>3. ASSUME NEW b \in Shop PROVE PassWell(b, pass'[b], market, rows, slipped, cursor'[b], clock)
    BY <1>3, <1>5, <2>1, <2>2
  <2> QED
    BY <1>1, <2>3 DEF OrderInv, PassesInv
<1>10. ASSUME NEW c \in Inquiry PROVE ShownOrder(c, link'[c], mapping'[c], attached[c], rows)
  <2>1. ShownOrder(c, link[c], mapping[c], attached[c], ordersStored)
    BY DEF OrderInv, ShownInv
  <2>2. CASE c \in matched
    <3> PICK m : m = MatchOf(c, known)
      OBVIOUS
    <3>1. link'[c] = m.order /\ mapping'[c] = m
      BY <1>1, <2>2
    <3>2. About[c].account = a /\ ~Preserved(c) /\ m.order # Void
      BY <2>2
    <3>3. m.order \in OfBuyer(c, known)
      BY <3>2, MatchIsOwn
    <3>4. OwnOrder(m.order, c, rows) /\ Facts[m.order].buyer = About[c].buyer
      BY <3>3 DEF OfBuyer, OwnOrder, AccountOf
    <3>5. attached[c] = Void
      BY <2>1, <3>2 DEF ShownOrder, Preserved
    <3> QED
      BY <3>1, <3>4, <3>5 DEF ShownOrder
  <2>3. CASE c \notin matched
    <3>1. link'[c] = link[c] /\ mapping'[c] = mapping[c]
      BY <1>1, <2>3
    <3> QED
      BY <1>3, <2>1, <3>1 DEF ShownOrder, OwnOrder
  <2> QED
    BY <2>2, <2>3
<1>11. ShownInv'
  BY <1>1, <1>10 DEF OrderInv, ShownInv
<1>12. OrderRowsInv' /\ ModifiedInv'
  BY <1>1, <1>3 DEF OrderInv, OrderRowsInv, ModifiedInv
<1> QED
  BY <1>6, <1>8, <1>9, <1>11, <1>12 DEF OrderInv

LEMMA SelectOrderStep ==
    ASSUME OrderSyncAssumption, OrderInv, NEW c \in Inquiry, NEW o \in Order \cup {Void}, SelectOrder(c, o)
    PROVE  OrderInv'
<1>1. /\ o # Void => OwnOrder(o, c, ordersStored)
      /\ link' = [link EXCEPT ![c] = o]
      /\ UNCHANGED <<clock, market, ordersStored, cursor, pass, mapping, slipped, attached>>
  BY DEF SelectOrder, OwnOrder, AccountOf
<1>2. ASSUME NEW d \in Inquiry PROVE ShownOrder(d, link'[d], mapping[d], attached[d], ordersStored)
  BY <1>1 DEF OrderInv, ShownInv, ShownOrder
<1>3. ShownInv'
  BY <1>1, <1>2 DEF OrderInv, ShownInv
<1> QED
  BY <1>1, <1>3 DEF OrderInv, ModifiedInv, OrderRowsInv, CursorInv, PassesInv, StepsInv

LEMMA AttachOrderStep ==
    ASSUME OrderSyncAssumption, OrderInv, NEW c \in Inquiry, NEW o \in Order, AttachOrder(c, o)
    PROVE  OrderInv'
<1> PICK a \in Shop : a = AccountOf(o)
  BY DEF AccountOf, OrderSyncAssumption, Order
<1> PICK rows : rows = ordersStored'
  OBVIOUS
<1> PICK m : m = [order |-> o, strategy |-> "SOLD_POSTING"]
  OBVIOUS
<1>1. /\ market[o] # Void /\ a = About[c].account /\ Facts[o].buyer = About[c].buyer
      /\ ordersStored[o] = Void /\ pass[a] # Resting => o \notin DOMAIN pass[a].held
      /\ rows = [ordersStored EXCEPT ![o] = IF ordersStored[o] = Void THEN market[o] ELSE ordersStored[o]]
      /\ mapping' = [mapping EXCEPT ![c] = m] /\ link' = [link EXCEPT ![c] = o] /\ attached' = [attached EXCEPT ![c] = o]
      /\ UNCHANGED <<clock, market, cursor, pass, slipped>>
  BY DEF AttachOrder, AccountOf, OrderInv, OrderRowsInv
<1>2. market[o] \in Nat
  BY <1>1 DEF OrderInv, ModifiedInv
<1>3. /\ rows \in [Order -> Nat \cup {Void}]
      /\ \A q \in Order : rows[q] = IF q = o /\ ordersStored[o] = Void THEN market[o] ELSE ordersStored[q]
      /\ \A q \in Order : ordersStored[q] # Void => rows[q] # Void
      /\ rows[o] # Void
  BY <1>1, <1>2 DEF OrderInv, OrderRowsInv
<1>4. ASSUME NEW q \in Order \ slipped PROVE InStep(q, market, rows, cursor)
  BY <1>3 DEF OrderInv, StepsInv, InStep
<1>5. ASSUME NEW b \in Shop PROVE PassWell(b, pass[b], market, rows, slipped, cursor[b], clock)
  <2> PICK t : t = pass[b]
    OBVIOUS
  <2>1. PassWell(b, t, market, ordersStored, slipped, cursor[b], clock)
    BY DEF OrderInv, PassesInv
  <2>2. \A q \in Order :
          AccountOf(q) = b /\ market[q] # Void /\ q \notin DOMAIN t.held /\ ordersStored[q] = market[q] => rows[q] = market[q]
    BY <1>3
  <2>3. clock \in Int /\ clock <= clock
    BY DEF OrderInv, ModifiedInv
  <2> QED
    BY <2>1, <2>2, <2>3, PassStays
<1>6. ASSUME NEW d \in Inquiry PROVE ShownOrder(d, link'[d], mapping'[d], attached'[d], rows)
  <2>1. ShownOrder(d, link[d], mapping[d], attached[d], ordersStored)
    BY DEF OrderInv, ShownInv
  <2>2. CASE d = c
    <3>1. link'[d] = o /\ mapping'[d] = m /\ attached'[d] = o
      BY <1>1, <2>2 DEF OrderInv, ShownInv
    <3>2. OwnOrder(o, c, rows)
      BY <1>1, <1>3 DEF OwnOrder
    <3> QED
      BY <1>1, <2>2, <3>1, <3>2 DEF ShownOrder
  <2>3. CASE d # c
    <3>1. link'[d] = link[d] /\ mapping'[d] = mapping[d] /\ attached'[d] = attached[d]
      BY <1>1, <2>3
    <3> QED
      BY <1>3, <2>1, <3>1 DEF ShownOrder, OwnOrder
  <2> QED
    BY <2>2, <2>3
<1>7. ShownInv'
  BY <1>1, <1>6 DEF OrderInv, ShownInv
<1>8. PassesInv' /\ StepsInv'
  BY <1>1, <1>4, <1>5 DEF OrderInv, PassesInv, StepsInv
<1> QED
  BY <1>1, <1>3, <1>7, <1>8 DEF OrderInv, ModifiedInv, OrderRowsInv, CursorInv

----------------------------------------------------------------------------
LEMMA OrderInvInit == ASSUME OrderSyncAssumption, OrderInit PROVE OrderInv
<1>1. ModifiedInv /\ OrderRowsInv /\ CursorInv
  BY DEF OrderInit, ModifiedInv, OrderRowsInv, CursorInv
<1>2. PassesInv /\ StepsInv
  BY DEF OrderInit, PassesInv, StepsInv, PassWell, InStep
<1>3. ShownInv
  BY DEF OrderInit, ShownInv, ShownOrder, NoMapping
<1> QED
  BY <1>1, <1>2, <1>3 DEF OrderInv

LEMMA OrderInvStep == ASSUME OrderSyncAssumption, OrderInv, [OrderNext]_orderVars PROVE OrderInv'
<1>1. CASE ClockTicks
  BY <1>1, ClockTicksStep
<1>2. ASSUME NEW o \in Order, Modify(o) PROVE OrderInv'
  BY <1>2, ModifyStep
<1>3. ASSUME NEW a \in Shop,
             \/ SyncBegins(a) \/ TokenRefreshed(a) \/ SyncFails(a) \/ MatchAndCommit(a)
             \/ \E bad \in SUBSET Order : PageUpserted(a, bad)
      PROVE  OrderInv'
  BY <1>3, SyncBeginsStep, TokenRefreshedStep, SyncFailsStep, MatchAndCommitStep, PageUpsertedStep
<1>4. ASSUME NEW c \in Inquiry,
             \/ \E o \in Order \cup {Void} : SelectOrder(c, o)
             \/ \E o \in Order : AttachOrder(c, o)
      PROVE  OrderInv'
  BY <1>4, SelectOrderStep, AttachOrderStep
<1>5. CASE UNCHANGED orderVars
  <2>1. UNCHANGED <<clock, market, ordersStored, cursor, pass, link, mapping, slipped, attached>>
    BY <1>5 DEF orderVars
  <2> QED
    BY <2>1 DEF OrderInv, ModifiedInv, OrderRowsInv, CursorInv, PassesInv, StepsInv, ShownInv
<1> QED
  BY <1>1, <1>2, <1>3, <1>4, <1>5 DEF OrderNext

LEMMA OrderInvInvariant == ASSUME OrderSyncAssumption PROVE OrderSpec => []OrderInv
<1>1. OrderInit => OrderInv
  BY OrderInvInit
<1>2. OrderInv /\ [OrderNext]_orderVars => OrderInv'
  BY OrderInvStep
<1> QED
  BY <1>1, <1>2, PTL DEF OrderSpec

\* OrdersInStep, of OrderSync: whatever eBay modifies while the syncs walk the pages of their
\* windows, an order modified up to an account's cursor is stored as modified, unless it was
\* skipped on the record; every conversation shows an order that is stored, of its account,
\* and its matched one is of its buyer; and an attached order stays.
THEOREM OrdersStayInStep == ASSUME OrderSyncAssumption PROVE OrderSpec => []OrdersInStep
<1>1. OrderInv => OrdersInStep
  <2> SUFFICES ASSUME OrderInv PROVE OrdersInStep
    OBVIOUS
  <2>1. ASSUME NEW o \in Order \ slipped, market[o] # Void, cursor[Facts[o].account] # Void,
               market[o] <= cursor[Facts[o].account]
        PROVE  ordersStored[o] = market[o]
    BY <2>1 DEF OrderInv, StepsInv, InStep, AccountOf
  <2>2. ASSUME NEW c \in Inquiry
        PROVE  /\ SelectedOrder(c) # Void =>
                    ordersStored[SelectedOrder(c)] # Void /\ Facts[SelectedOrder(c)].account = About[c].account
               /\ mapping[c].order # Void =>
                    /\ Facts[mapping[c].order].account = About[c].account
                    /\ Facts[mapping[c].order].buyer = About[c].buyer
               /\ attached[c] # Void => mapping[c] = [order |-> attached[c], strategy |-> "SOLD_POSTING"]
    BY DEF OrderInv, ShownInv, ShownOrder, OwnOrder, AccountOf, SelectedOrder
  <2> QED
    BY <2>1, <2>2 DEF OrdersInStep
<1>2. OrderSpec => []OrderInv
  BY OrderInvInvariant
<1> QED
  BY <1>1, <1>2, PTL
=============================================================================
