---------------------------- MODULE OfficeProofs ----------------------------
(***************************************************************************)
(* The leave ledger against the requests it is made of; the monthly scores *)
(* and the Employee of the Month computed from them; the weights that bulk *)
(* assignments of tasks leave an agent; what the inbox and the reports     *)
(* show of a conversation; an agent's day, its work and its breaks; and    *)
(* the response time of a conversation: for any number of agents,          *)
(* requests, tasks, messages and breaks, and any policies, weights,        *)
(* scores, response times and office hours.                                *)
(***************************************************************************)
EXTENDS AgentDay, InboxViews, Performance, SlaTime, TaskAssignments, Induction

\* The greater and the lesser of two integers.
LEMMA MaxOfTwo ==
    ASSUME NEW a \in Int, NEW b \in Int
    PROVE  Max({a, b}) \in {a, b} /\ Max({a, b}) >= a /\ Max({a, b}) >= b
<1>1. \E x \in {a, b} : \A y \in {a, b} : x >= y
  <2>1. CASE a >= b
    BY <2>1
  <2>2. CASE b >= a
    BY <2>2
  <2> QED
    BY <2>1, <2>2
<1> QED
  BY <1>1 DEF Max

LEMMA MinOfTwo ==
    ASSUME NEW a \in Int, NEW b \in Int
    PROVE  Min({a, b}) \in {a, b} /\ Min({a, b}) <= a /\ Min({a, b}) <= b
<1>1. \E x \in {a, b} : \A y \in {a, b} : x <= y
  <2>1. CASE a <= b
    BY <2>1
  <2>2. CASE b <= a
    BY <2>2
  <2> QED
    BY <2>1, <2>2
<1> QED
  BY <1>1 DEF Min

\* The days of a request are a number.
LEMMA DaysNat == \A r \in Req : Days(r) \in Nat
<1> SUFFICES ASSUME NEW r \in Req PROVE Days(r) \in Nat
  OBVIOUS
<1>1. IsFiniteSet(Form[r].first .. Form[r].last)
  BY FormAssumption, FS_Interval
<1>2. IsFiniteSet(Form[r].first .. Form[r].last \ Sunday)
  BY <1>1, FS_Subset
<1> QED
  BY <1>2, FS_CardinalityType DEF Days

\* Sums in the ledger are the sums of Induction.
LEMMA SumOverIs == \A f, S : SumOver(f, S) = Sum(f, S)
BY DEF SumOver, Sum

LEMMA OfFinite == \A u : \A S \in SUBSET Of(u) : IsFiniteSet(S)
BY FormAssumption, FS_Subset DEF Of

----------------------------------------------------------------------------
(* Types.                                                                  *)
LedgerRow == [paid : Int, unpaid : Int]
Approval == [op : {"approve"}, seen : Seq(LedgerRow), paid : Int, unpaid : Int]
Txn == {NoTxn} \cup [op : {"create"}] \cup Approval

LeaveTypes ==
    /\ status \in [Req -> {"none", "PENDING", "APPROVED", "REJECTED", "CANCELLED"}]
    /\ paid \in [Req -> Int] /\ excess \in [Req -> Int]
    /\ ledger \in [Agents -> Seq(LedgerRow)]
    /\ adh \in [Agents -> Int] /\ carry \in [Agents -> Int]
    /\ policy \in Policies
    /\ txn \in [Req -> Txn] /\ cancelling \subseteq Req

\* What a transaction leaves in the ledger are rows.
LEMMA WrittenTyped ==
    ASSUME NEW table \in Seq(LedgerRow), NEW seen \in Seq(LedgerRow), NEW row \in LedgerRow
    PROVE  Written(table, seen, row) \in Seq(LedgerRow)
<1>1. Len(seen) + 1 \in Int /\ Len(seen) \in Nat
  OBVIOUS
<1>2. CASE seen = <<>>
  BY <1>2 DEF Written
<1>3. CASE seen # <<>>
  <2>1. Len(seen) >= 1
    BY <1>3
  <2>2. SubSeq(table, Len(seen) + 1, Len(table)) \in Seq(LedgerRow)
    BY <1>1, <2>1
  <2>3. <<row>> \in Seq(LedgerRow)
    OBVIOUS
  <2> QED
    BY <1>3, <2>2, <2>3 DEF Written
<1> QED
  BY <1>2, <1>3

\* The paid days an approval may grant are an integer between 0 and the days asked for.
LEMMA ShareTyped ==
    ASSUME LeaveTypes, NEW r \in Req
    PROVE  /\ Available(Form[r].user) \in Nat
           /\ Min({Days(r), Available(Form[r].user)}) \in 0 .. Days(r)
<1> DEFINE u == Form[r].user
           left == policy.allowance + carry[u] - PaidUsed(u)
<1>1. u \in Agents /\ policy.allowance \in Nat /\ carry[u] \in Int
  BY FormAssumption DEF LeaveTypes
<1>2. PaidUsed(u) \in Int
  <2>1. CASE ledger[u] # <<>>
    <3>1. Head(ledger[u]) \in LedgerRow
      BY <1>1, <2>1 DEF LeaveTypes
    <3> QED
      BY <2>1, <3>1 DEF PaidUsed, LedgerRow
  <2>2. CASE ledger[u] = <<>>
    <3>1. IsFiniteSet(Of(u)) /\ \A x \in Of(u) : paid[x] \in Int
      BY OfFinite DEF LeaveTypes, Of
    <3>2. Sum(paid, Of(u)) \in Int
      BY <3>1, SumInt
    <3> QED
      BY <2>2, <3>2, SumOverIs DEF PaidUsed
  <2> QED
    BY <2>1, <2>2
<1>3. left \in Int
  BY <1>1, <1>2
<1>4. Available(u) = Max({left, 0})
  BY DEF Available
<1> HIDE DEF left
<1>5. Max({left, 0}) \in {left, 0} /\ Max({left, 0}) >= 0
  <2>1. 0 \in Int
    OBVIOUS
  <2> QED
    BY <1>3, <2>1, MaxOfTwo, Zenon
<1>6. Available(u) \in Nat
  BY <1>3, <1>4, <1>5
<1>7. Days(r) \in Nat
  BY DaysNat
<1> DEFINE a == Available(u)
           d == Days(r)
<1> HIDE DEF a, d
<1>8. a \in Nat /\ d \in Nat
  BY <1>6, <1>7 DEF a, d
<1>9. Min({d, a}) \in 0 .. d
  <2>1. d \in Int /\ a \in Int
    BY <1>8
  <2>2. Min({d, a}) \in {d, a} /\ Min({d, a}) <= d
    BY <2>1, MinOfTwo, Zenon
  <2> QED
    BY <1>8, <2>2
<1> QED
  BY <1>6, <1>9 DEF a, d

\* What a transaction under way is, from its operation.
LEMMA TxnCases ==
    ASSUME LeaveTypes, NEW r \in Req
    PROVE  /\ txn[r].op = "approve" => txn[r] \in Approval
           /\ txn[r].op = "create" => txn[r] \in [op : {"create"}]
           /\ txn[r] = NoTxn <=> txn[r].op = "none"
<1>1. txn[r] \in Txn
  BY DEF LeaveTypes
<1> QED
  BY <1>1 DEF Txn, Approval, NoTxn

\* Every step keeps the types.
LEMMA LeaveTypesInit == LeaveInit => LeaveTypes
<1>1. <<>> \in Seq(LedgerRow)
  OBVIOUS
<1> QED
  BY <1>1, FormAssumption DEF LeaveInit, LeaveTypes, Txn, NoTxn

LEMMA LeaveTypesNext ==
    ASSUME LeaveTypes, [LeaveNext]_leaveVars
    PROVE  LeaveTypes'
<1>1. ASSUME NEW r \in Req, CreateCheck(r) PROVE LeaveTypes'
  BY <1>1 DEF LeaveTypes, CreateCheck, Txn
<1>2. ASSUME NEW r \in Req, CreateCommit(r) PROVE LeaveTypes'
  BY <1>2 DEF LeaveTypes, CreateCommit, Commit, Txn
<1>3. ASSUME NEW r \in Req, ApproveRead(r) PROVE LeaveTypes'
  <2> DEFINE u == Form[r].user
             share == IF Form[r].type = "PAID" THEN Min({Days(r), Available(u)}) ELSE 0
             rest == IF Form[r].type = "PAID" THEN Days(r) - share ELSE 0
  <2>1. Min({Days(r), Available(u)}) \in 0 .. Days(r) /\ Days(r) \in Nat
    BY ShareTyped, DaysNat
  <2>2. share \in Int /\ rest \in Int
    BY <2>1
  <2>3. ledger[u] \in Seq(LedgerRow)
    BY FormAssumption DEF LeaveTypes
  <2>4. txn' = [txn EXCEPT ![r] = [op |-> "approve", seen |-> ledger[u],
                                   paid |-> share, unpaid |-> rest]]
    BY <1>3 DEF ApproveRead
  <2> HIDE DEF share, rest, u
  <2>5. [op |-> "approve", seen |-> ledger[u], paid |-> share, unpaid |-> rest] \in Approval
    BY <2>2, <2>3 DEF Approval
  <2>6. txn' \in [Req -> Txn]
    BY <2>4, <2>5 DEF LeaveTypes, Txn
  <2> QED
    BY <1>3, <2>6 DEF LeaveTypes, ApproveRead
<1>4. ASSUME NEW r \in Req, ApproveCommit(r) PROVE LeaveTypes'
  <2> DEFINE u == Form[r].user
  <2>1. txn[r] \in Approval /\ u \in Agents
    BY <1>4, TxnCases, FormAssumption DEF ApproveCommit
  <2>2. txn[r].paid \in Int /\ txn[r].unpaid \in Int /\ txn[r].seen \in Seq(LedgerRow)
    BY <2>1 DEF Approval
  <2>3. ledger' \in [Agents -> Seq(LedgerRow)]
    <3>1. CASE Form[r].type # "PAID"
      BY <1>4, <3>1 DEF LeaveTypes, ApproveCommit
    <3>2. CASE Form[r].type = "PAID"
      <4> DEFINE found == Entered(txn[r].seen)
                 row == [paid |-> found.paid + txn[r].paid, unpaid |-> found.unpaid + txn[r].unpaid]
      <4>1. found \in LedgerRow
        <5>1. CASE txn[r].seen = <<>>
          BY <5>1 DEF Entered, LedgerRow
        <5>2. CASE txn[r].seen # <<>>
          BY <2>2, <5>2 DEF Entered
        <5> QED
          BY <5>1, <5>2
      <4>2. row \in LedgerRow
        BY <2>2, <4>1 DEF LedgerRow
      <4>3. ledger[u] \in Seq(LedgerRow)
        BY <2>1 DEF LeaveTypes
      <4>4. ledger' = [ledger EXCEPT ![u] = Written(ledger[u], txn[r].seen, row)]
        BY <1>4, <3>2 DEF ApproveCommit, LedgerAfter
      <4> HIDE DEF row, u
      <4>5. Written(ledger[u], txn[r].seen, row) \in Seq(LedgerRow)
        BY <2>2, <4>2, <4>3, WrittenTyped
      <4> QED
        BY <4>4, <4>5 DEF LeaveTypes
    <3> QED
      BY <3>1, <3>2
  <2> QED
    BY <1>4, <2>2, <2>3 DEF LeaveTypes, ApproveCommit, Commit, Txn
<1>5. ASSUME NEW r \in Req, ApproveFails(r) PROVE LeaveTypes'
  BY <1>5 DEF LeaveTypes, ApproveFails, Txn
<1>6. ASSUME NEW r \in Req, Reject(r) PROVE LeaveTypes'
  BY <1>6 DEF LeaveTypes, Reject, Commit, Txn
<1>7. ASSUME NEW r \in Req, CancelRead(r) PROVE LeaveTypes'
  BY <1>7 DEF LeaveTypes, CancelRead
<1>8. ASSUME NEW r \in Req, CancelCommit(r) PROVE LeaveTypes'
  BY <1>8 DEF LeaveTypes, CancelCommit
<1>9. ASSUME NEW u \in Agents, NEW totals \in Totals, SetTotals(u, totals) PROVE LeaveTypes'
  <2>1. totals.paid \in Int /\ totals.unpaid \in Int /\ totals.adh \in Int
    BY FormAssumption
  <2>2. [paid |-> totals.paid, unpaid |-> totals.unpaid] \in LedgerRow
    BY <2>1 DEF LedgerRow
  <2>3. <<[paid |-> totals.paid, unpaid |-> totals.unpaid]>> \in Seq(LedgerRow)
    BY <2>2
  <2> QED
    BY <1>9, <2>1, <2>3 DEF LeaveTypes, SetTotals
<1>10. ASSUME NEW u \in Agents, NEW halves \in Carries, SetCarry(u, halves) PROVE LeaveTypes'
  BY <1>10, FormAssumption DEF LeaveTypes, SetCarry
<1>11. ASSUME NEW new \in Policies, UpdatePolicy(new) PROVE LeaveTypes'
  BY <1>11 DEF LeaveTypes, UpdatePolicy
<1>12. CASE UNCHANGED leaveVars
  BY <1>12 DEF LeaveTypes, leaveVars
<1> QED
  BY <1>1, <1>2, <1>3, <1>4, <1>5, <1>6, <1>7, <1>8, <1>9, <1>10, <1>11, <1>12 DEF LeaveNext

----------------------------------------------------------------------------
(* A user none of whose transactions overlapped: what the ledger holds, and *)
(* what a transaction under way has read, are what the requests say.        *)
Granted(u) == {r \in Of(u) : status[r] = "APPROVED" /\ Form[r].type = "PAID"}

Sums(u) ==
    /\ Len(ledger[u]) <= 1
    /\ Entered(ledger[u]).paid = Sum(paid, Granted(u))
    /\ Entered(ledger[u]).unpaid = Sum(excess, Granted(u))
    /\ \A r \in Granted(u) : paid[r] + excess[r] = Days(r)

Apart(u) == \A r, s \in Of(u) : Active(r) /\ Active(s) /\ r # s => ~Overlap(r, s)

Creatable(r) ==
    status[r] = "none" /\ \A s \in Of(Form[r].user) : Active(s) => ~Overlap(r, s)
Approvable(r) ==
    /\ status[r] = "PENDING" /\ txn[r].seen = ledger[Form[r].user]
    /\ Form[r].type = "PAID" => txn[r].paid + txn[r].unpaid = Days(r)
UpToDate(r) ==
    /\ txn[r].op = "create" => Creatable(r)
    /\ txn[r].op = "approve" => Approvable(r)
    /\ r \in cancelling => status[r] = "PENDING"

Quiet(u) == Sums(u) /\ Apart(u) /\ \A r \in Of(u) : UpToDate(r)
QuietInv == \A u \in Agents \ (raced \cup edited) : Quiet(u)

\* The sums depend on the rows that are granted and on the ledger.
LEMMA SumsKept ==
    ASSUME LeaveTypes, LeaveTypes', NEW u \in Agents, Sums(u),
           Granted(u)' = Granted(u), ledger'[u] = ledger[u],
           \A r \in Granted(u) : paid'[r] = paid[r] /\ excess'[r] = excess[r]
    PROVE  Sums(u)'
<1> DEFINE G == Granted(u)
<1>1. IsFiniteSet(G) /\ G \subseteq Req
  BY OfFinite, FormAssumption DEF Granted, Of
<1> HIDE DEF G
<1>2. \A r \in G : paid[r] \in Int /\ excess[r] \in Int /\ paid'[r] \in Int /\ excess'[r] \in Int
  BY <1>1 DEF LeaveTypes
<1>3. \A r \in G : paid'[r] = paid[r] /\ excess'[r] = excess[r]
  BY DEF G
<1>4. Sum(paid', G) = Sum(paid, G)
  BY <1>1, <1>2, <1>3, SumSame
<1>5. Sum(excess', G) = Sum(excess, G)
  BY <1>1, <1>2, <1>3, SumSame
<1>6. Sums(u)' = /\ Len(ledger'[u]) <= 1
                 /\ Entered(ledger'[u]).paid = Sum(paid', Granted(u)')
                 /\ Entered(ledger'[u]).unpaid = Sum(excess', Granted(u)')
                 /\ \A r \in Granted(u)' : paid'[r] + excess'[r] = Days(r)
  BY DEF Sums, Entered, Days
<1> QED
  BY <1>3, <1>4, <1>5, <1>6 DEF Sums, G

\* A step that touches nothing of a user leaves the user quiet.
Untouched(u) ==
    /\ \A r \in Of(u) : /\ status'[r] = status[r] /\ txn'[r] = txn[r]
                        /\ paid'[r] = paid[r] /\ excess'[r] = excess[r]
                        /\ r \in cancelling' <=> r \in cancelling
    /\ ledger'[u] = ledger[u]

LEMMA UntouchedQuiet ==
    ASSUME LeaveTypes, LeaveTypes', NEW u \in Agents, Untouched(u), Quiet(u)
    PROVE  Quiet(u)'
<1>1. Granted(u)' = Granted(u) /\ Granted(u) \subseteq Of(u)
  BY DEF Granted, Untouched, Of
<1>2. Sums(u)'
  BY <1>1, SumsKept DEF Quiet, Untouched
<1>3. Apart(u)'
  BY DEF Quiet, Apart, Untouched, Active, Overlap, Of
<1>4. ASSUME NEW r \in Of(u) PROVE UpToDate(r)'
  <2>1. Form[r].user = u /\ UpToDate(r)
    BY <1>4 DEF Quiet, Of
  <2> QED
    BY <1>4, <2>1 DEF UpToDate, Creatable, Approvable, Untouched, Active, Overlap, Of, Days
<1> QED
  BY <1>2, <1>3, <1>4 DEF Quiet, Of

\* A row is written over the one that was read, when that is still there.
LEMMA WrittenOverSeen ==
    ASSUME NEW table \in Seq(LedgerRow), Len(table) <= 1, NEW row \in LedgerRow
    PROVE  Written(table, table, row) = <<row>>
<1>1. CASE table = <<>>
  BY <1>1 DEF Written
<1>2. CASE table # <<>>
  <2> DEFINE rest == SubSeq(table, Len(table) + 1, Len(table))
  <2>1. rest \in Seq(LedgerRow) /\ Len(rest) = 0
    BY <1>2
  <2>2. Written(table, table, row) = <<row>> \o rest
    BY <1>2 DEF Written
  <2> HIDE DEF rest
  <2>3. <<row>> \o rest = <<row>>
    BY <2>1
  <2> QED
    BY <2>2, <2>3
<1> QED
  BY <1>1, <1>2

LEMMA QuietInit == LeaveInit => QuietInv
<1> SUFFICES ASSUME LeaveInit, NEW u \in Agents PROVE Quiet(u)
  BY DEF QuietInv
<1>1. Granted(u) = {} /\ ledger[u] = <<>>
  BY DEF LeaveInit, Granted, Of
<1>2. Sum(paid, {}) = 0 /\ Sum(excess, {}) = 0
  BY SumOfNone
<1>3. Sums(u)
  BY <1>1, <1>2 DEF Sums, Entered
<1>4. Apart(u)
  BY DEF LeaveInit, Apart, Active, Of
<1>5. \A r \in Of(u) : UpToDate(r)
  BY DEF LeaveInit, UpToDate, Of, NoTxn
<1> QED
  BY <1>3, <1>4, <1>5 DEF Quiet

\* A step by one request touches nothing of the other users.
LEMMA OthersUntouched ==
    ASSUME LeaveTypes, NEW r \in Req, NEW u \in Agents, u # Form[r].user,
           \/ CreateCheck(r) \/ CreateCommit(r) \/ ApproveRead(r) \/ ApproveCommit(r)
           \/ ApproveFails(r) \/ Reject(r) \/ CancelRead(r) \/ CancelCommit(r)
    PROVE  Untouched(u)
<1>1. \A s \in Of(u) : s # r /\ s \in Req
  BY DEF Of
<1>2. ledger'[u] = ledger[u]
  BY DEF LeaveTypes, CreateCheck, CreateCommit, ApproveRead, ApproveCommit, ApproveFails, Reject,
         CancelRead, CancelCommit, LedgerAfter
<1>3. \A s \in Of(u) : /\ status'[s] = status[s] /\ txn'[s] = txn[s]
                       /\ paid'[s] = paid[s] /\ excess'[s] = excess[s]
                       /\ s \in cancelling' <=> s \in cancelling
  <2>1. CASE CreateCheck(r)
    BY <1>1, <2>1 DEF LeaveTypes, CreateCheck
  <2>2. CASE CreateCommit(r)
    BY <1>1, <2>2 DEF LeaveTypes, CreateCommit, Commit
  <2>3. CASE ApproveRead(r)
    BY <1>1, <2>3 DEF LeaveTypes, ApproveRead
  <2>4. CASE ApproveCommit(r)
    BY <1>1, <2>4 DEF LeaveTypes, ApproveCommit, Commit
  <2>5. CASE ApproveFails(r)
    BY <1>1, <2>5 DEF LeaveTypes, ApproveFails
  <2>6. CASE Reject(r)
    BY <1>1, <2>6 DEF LeaveTypes, Reject, Commit
  <2>7. CASE CancelRead(r)
    BY <1>1, <2>7 DEF LeaveTypes, CancelRead
  <2>8. CASE CancelCommit(r)
    BY <1>1, <2>8 DEF LeaveTypes, CancelCommit
  <2> QED
    BY <2>1, <2>2, <2>3, <2>4, <2>5, <2>6, <2>7, <2>8
<1> QED
  BY <1>2, <1>3 DEF Untouched

\* When nothing of the user was under way beside it, a commit finds no other
\* transaction to outdate.
LEMMA Alone ==
    ASSUME NEW r \in Req, Commit(r), Form[r].user \notin raced'
    PROVE  \A s \in Of(Form[r].user) : s # r => txn[s] = NoTxn /\ s \notin cancelling
BY DEF Commit, Busy, Of

\* Overlapping is symmetric.
LEMMA OverlapSymmetric == \A r, s \in Req : Overlap(r, s) <=> Overlap(s, r)
BY FormAssumption DEF Overlap

\* A row that is not granted before or after leaves the granted rows as they are.
LEMMA GrantedKept ==
    ASSUME LeaveTypes, NEW r \in Req, NEW new, new # "APPROVED",
           status[r] \in {"none", "PENDING"}, status' = [status EXCEPT ![r] = new]
    PROVE  \A u : Granted(u)' = Granted(u)
BY DEF LeaveTypes, Granted, Of

LEMMA QuietCreateCheck ==
    ASSUME LeaveTypes, LeaveTypes', NEW r \in Req, CreateCheck(r), Quiet(Form[r].user)
    PROVE  Quiet(Form[r].user)'
<1> DEFINE u == Form[r].user
<1>1. u \in Agents /\ UNCHANGED <<status, paid, excess, ledger, cancelling>>
  BY FormAssumption DEF CreateCheck
<1>2. Granted(u)' = Granted(u)
  BY <1>1 DEF Granted
<1>3. Sums(u)' /\ Apart(u)'
  <2>1. Sums(u)'
    BY <1>1, <1>2, SumsKept DEF Quiet
  <2> QED
    BY <1>1, <2>1 DEF Quiet, Apart, Active
<1>4. ASSUME NEW s \in Of(u) PROVE UpToDate(s)'
  <2>1. UpToDate(s) /\ s \in Req /\ Form[s].user = u
    BY <1>4 DEF Quiet, Of
  <2>2. CASE s # r
    <3>1. txn'[s] = txn[s]
      BY <2>1, <2>2 DEF CreateCheck, LeaveTypes
    <3> QED
      BY <1>1, <2>1, <3>1 DEF UpToDate, Creatable, Approvable, Active
  <2>3. CASE s = r
    <3>1. txn'[r].op = "create" /\ status[r] = "none"
          /\ \A q \in Of(u) : Active(q) => ~Overlap(r, q)
      BY DEF CreateCheck, LeaveTypes
    <3>2. (UpToDate(r))' <=> /\ (txn'[r].op = "create" => Creatable(r)')
                             /\ (txn'[r].op = "approve" => Approvable(r)')
                             /\ (r \in cancelling' => status'[r] = "PENDING")
      BY DEF UpToDate
    <3>3. Creatable(r)'
      BY <1>1, <3>1 DEF Creatable, Active
    <3> QED
      BY <1>1, <2>1, <2>3, <3>1, <3>2, <3>3 DEF UpToDate
  <2> QED
    BY <2>2, <2>3
<1> QED
  BY <1>3, <1>4 DEF Quiet, Of

LEMMA QuietCreateCommit ==
    ASSUME LeaveTypes, LeaveTypes', NEW r \in Req, CreateCommit(r), Quiet(Form[r].user),
           Form[r].user \notin raced'
    PROVE  Quiet(Form[r].user)'
<1> DEFINE u == Form[r].user
<1>1. u \in Agents /\ r \in Of(u) /\ UNCHANGED <<paid, excess, ledger, cancelling>>
      /\ status' = [status EXCEPT ![r] = "PENDING"] /\ txn' = [txn EXCEPT ![r] = NoTxn]
  BY FormAssumption DEF CreateCommit, Commit, Of
<1>2. Creatable(r) /\ status'[r] = "PENDING"
  BY <1>1 DEF CreateCommit, Quiet, UpToDate, LeaveTypes
<1>3. Granted(u)' = Granted(u)
  BY <1>1, <1>2, GrantedKept DEF Creatable
<1>4. Sums(u)'
  BY <1>1, <1>3, SumsKept DEF Quiet
<1>5. Apart(u)'
  <2> SUFFICES ASSUME NEW p \in Of(u), NEW q \in Of(u), Active(p)', Active(q)', p # q
               PROVE  ~Overlap(p, q)
    BY DEF Apart, Overlap, Of
  <2>1. (p # r => Active(p)) /\ (q # r => Active(q)) /\ p \in Req /\ q \in Req
    BY <1>1 DEF Active, LeaveTypes, Of
  <2>2. CASE p = r
    BY <1>2, <2>1, <2>2 DEF Creatable
  <2>3. CASE q = r
    BY <1>2, <2>1, <2>3, OverlapSymmetric DEF Creatable
  <2> QED
    BY <2>1, <2>2, <2>3 DEF Quiet, Apart
<1>6. ASSUME NEW s \in Of(u) PROVE UpToDate(s)'
  <2>1. CASE s = r
    BY <1>1, <1>2, <2>1 DEF UpToDate, LeaveTypes, NoTxn
  <2>2. CASE s # r
    <3>1. txn[s] = NoTxn /\ s \notin cancelling /\ s \in Req
      BY <2>2, Alone DEF CreateCommit, Of
    <3>2. txn'[s].op = "none"
      BY <1>1, <2>2, <3>1 DEF LeaveTypes, NoTxn
    <3> QED
      BY <1>1, <3>1, <3>2 DEF UpToDate
  <2> QED
    BY <2>1, <2>2
<1> QED
  BY <1>4, <1>5, <1>6 DEF Quiet, Of

LEMMA QuietApproveRead ==
    ASSUME LeaveTypes, LeaveTypes', NEW r \in Req, ApproveRead(r), Quiet(Form[r].user)
    PROVE  Quiet(Form[r].user)'
<1> DEFINE u == Form[r].user
           share == IF Form[r].type = "PAID" THEN Min({Days(r), Available(u)}) ELSE 0
           rest == IF Form[r].type = "PAID" THEN Days(r) - share ELSE 0
<1>1. u \in Agents /\ UNCHANGED <<status, paid, excess, ledger, cancelling>>
  BY FormAssumption DEF ApproveRead
<1>2. Granted(u)' = Granted(u)
  BY <1>1 DEF Granted
<1>3. Sums(u)' /\ Apart(u)'
  <2>1. Sums(u)'
    BY <1>1, <1>2, SumsKept DEF Quiet
  <2> QED
    BY <1>1, <2>1 DEF Quiet, Apart, Active
<1>4. share \in Int /\ Days(r) \in Int /\ (Form[r].type = "PAID" => rest = Days(r) - share)
  <2>1. Min({Days(r), Available(u)}) \in 0 .. Days(r) /\ Days(r) \in Nat
    BY ShareTyped, DaysNat
  <2> QED
    BY <2>1
<1>5. txn' = [txn EXCEPT ![r] = [op |-> "approve", seen |-> ledger[u],
                                 paid |-> share, unpaid |-> rest]] /\ status[r] = "PENDING"
  BY DEF ApproveRead
<1> HIDE DEF share, rest
<1>6. /\ txn'[r].op = "approve" /\ txn'[r].seen = ledger[u]
      /\ txn'[r].paid = share /\ txn'[r].unpaid = rest
  BY <1>5 DEF LeaveTypes
<1>7. Form[r].type = "PAID" => txn'[r].paid + txn'[r].unpaid = Days(r)
  BY <1>4, <1>6
<1>8. ASSUME NEW s \in Of(u) PROVE UpToDate(s)'
  <2>1. UpToDate(s) /\ s \in Req /\ Form[s].user = u
    BY <1>8 DEF Quiet, Of
  <2>2. CASE s # r
    <3>1. txn'[s] = txn[s]
      BY <1>5, <2>1, <2>2 DEF LeaveTypes
    <3> QED
      BY <1>1, <2>1, <3>1 DEF UpToDate, Creatable, Approvable, Active
  <2>3. CASE s = r
    <3>1. Approvable(r)'
      BY <1>1, <1>5, <1>6, <1>7 DEF Approvable, Days
    <3> QED
      BY <1>1, <1>6, <2>1, <2>3, <3>1 DEF UpToDate
  <2> QED
    BY <2>2, <2>3
<1> QED
  BY <1>3, <1>8 DEF Quiet, Of

\* An approval that no other transaction of the user crossed adds its days to
\* the totals it read, which are those that stand.
LEMMA QuietApproveCommit ==
    ASSUME LeaveTypes, LeaveTypes', NEW r \in Req, ApproveCommit(r), Quiet(Form[r].user),
           Form[r].user \notin raced'
    PROVE  Quiet(Form[r].user)'
<1> DEFINE u == Form[r].user
           G == Granted(u)
           H == G \cup {r}
<1>1. /\ u \in Agents /\ r \in Of(u)
      /\ status' = [status EXCEPT ![r] = "APPROVED"] /\ txn' = [txn EXCEPT ![r] = NoTxn]
      /\ paid' = [paid EXCEPT ![r] = txn[r].paid] /\ excess' = [excess EXCEPT ![r] = txn[r].unpaid]
      /\ UNCHANGED cancelling /\ txn[r] \in Approval
  BY FormAssumption, TxnCases DEF ApproveCommit, Commit, Of
<1>2. Approvable(r)
  BY <1>1 DEF ApproveCommit, Quiet, UpToDate
<1>3. status[r] = "PENDING" /\ status'[r] = "APPROVED" /\ r \notin G
  BY <1>1, <1>2 DEF Approvable, LeaveTypes, Granted
<1>4. Sums(u)'
  <2>1. CASE Form[r].type # "PAID"
    <3>1. Granted(u)' = G
      BY <1>1, <1>3, <2>1 DEF Granted, LeaveTypes, Of
    <3>2. ledger' = ledger
      BY <2>1 DEF ApproveCommit
    <3>3. \A s \in G : paid'[s] = paid[s] /\ excess'[s] = excess[s]
      BY <1>1, <1>3 DEF LeaveTypes, Granted, Of
    <3> QED
      BY <1>1, <3>1, <3>2, <3>3, SumsKept DEF Quiet
  <2>2. CASE Form[r].type = "PAID"
    <3> DEFINE found == Entered(ledger[u])
               row == [paid |-> found.paid + txn[r].paid, unpaid |-> found.unpaid + txn[r].unpaid]
    <3>1. Granted(u)' = H /\ H \subseteq Req /\ IsFiniteSet(H) /\ H \ {r} = G
      <4>1. Granted(u)' = H
        BY <1>1, <1>3, <2>2 DEF Granted, LeaveTypes, Of
      <4>2. H \subseteq Of(u)
        BY <1>1 DEF Granted
      <4> QED
        BY <1>3, <4>1, <4>2, OfFinite DEF Of
    <3>2. Sums(u)
      BY DEF Quiet
    <3>3. ledger[u] \in Seq(LedgerRow) /\ txn[r].paid \in Int /\ txn[r].unpaid \in Int
      BY <1>1 DEF LeaveTypes, Approval
    <3>4. found \in LedgerRow
      <4>1. CASE ledger[u] = <<>>
        BY <4>1 DEF Entered, LedgerRow
      <4>2. CASE ledger[u] # <<>>
        BY <3>3, <4>2 DEF Entered
      <4> QED
        BY <4>1, <4>2
    <3>5. row \in LedgerRow
      BY <3>3, <3>4 DEF LedgerRow
    <3>6. ledger' = [ledger EXCEPT ![u] = Written(ledger[u], ledger[u], row)]
      BY <1>2, <2>2 DEF ApproveCommit, LedgerAfter, Approvable
    <3>7. ledger'[u] = <<row>>
      <4> HIDE DEF row
      <4>1. Written(ledger[u], ledger[u], row) = <<row>>
        BY <3>2, <3>3, <3>5, WrittenOverSeen DEF Sums
      <4> QED
        BY <1>1, <3>6, <4>1 DEF LeaveTypes
    <3>8. Entered(ledger'[u]) = row /\ Len(ledger'[u]) = 1
      <4> HIDE DEF row
      <4> QED
        BY <3>7 DEF Entered
    <3> HIDE DEF G, H, found, row
    <3>9. /\ Sum(paid', H) = Sum(paid, G) + txn[r].paid
          /\ Sum(excess', H) = Sum(excess, G) + txn[r].unpaid
      <4>1. \A s \in H : paid'[s] \in Int /\ excess'[s] \in Int
        BY <3>1 DEF LeaveTypes
      <4>2. r \in H /\ paid'[r] = txn[r].paid /\ excess'[r] = txn[r].unpaid
        BY <1>1 DEF H, LeaveTypes
      <4>3. \A s \in G : s # r /\ s \in Req
        BY <1>3, <3>1
      <4>4. \A s \in G : /\ paid'[s] = paid[s] /\ excess'[s] = excess[s]
                         /\ paid[s] \in Int /\ excess[s] \in Int
        BY <1>1, <4>3 DEF LeaveTypes
      <4>5. IsFiniteSet(G)
        BY <3>1, FS_Subset
      <4>6. Sum(paid', H) = Sum(paid', H \ {r}) + paid'[r]
        BY <3>1, <4>1, <4>2, SumAdds
      <4>7. Sum(excess', H) = Sum(excess', H \ {r}) + excess'[r]
        BY <3>1, <4>1, <4>2, SumAdds
      <4>8. \A s \in G : paid'[s] \in Int /\ paid'[s] = paid[s]
        BY <4>4
      <4>9. \A s \in G : excess'[s] \in Int /\ excess'[s] = excess[s]
        BY <4>4
      <4>10. Sum(paid', G) = Sum(paid, G)
        BY <4>5, <4>8, SumSame
      <4>11. Sum(excess', G) = Sum(excess, G)
        BY <4>5, <4>9, SumSame
      <4> QED
        BY <3>1, <4>2, <4>6, <4>7, <4>10, <4>11
    <3>10. Entered(ledger[u]).paid = Sum(paid, G) /\ Entered(ledger[u]).unpaid = Sum(excess, G)
      BY <3>2 DEF Sums, G
    <3>11. /\ Entered(ledger'[u]).paid = Sum(paid', H)
           /\ Entered(ledger'[u]).unpaid = Sum(excess', H)
      BY <3>8, <3>9, <3>10 DEF row, found
    <3>12. \A s \in H : paid'[s] + excess'[s] = Days(s)
      <4> SUFFICES ASSUME NEW s \in H PROVE paid'[s] + excess'[s] = Days(s)
        OBVIOUS
      <4>1. CASE s = r
        BY <1>1, <1>2, <2>2, <4>1 DEF Approvable, LeaveTypes
      <4>2. CASE s # r
        <5>1. s \in G /\ s \in Req
          BY <3>1, <4>2 DEF H
        <5>2. paid'[s] = paid[s] /\ excess'[s] = excess[s]
          BY <1>1, <4>2, <5>1 DEF LeaveTypes
        <5> QED
          BY <3>2, <5>1, <5>2 DEF Sums, G
      <4> QED
        BY <4>1, <4>2
    <3>13. Sums(u)' = /\ Len(ledger'[u]) <= 1
                      /\ Entered(ledger'[u]).paid = Sum(paid', Granted(u)')
                      /\ Entered(ledger'[u]).unpaid = Sum(excess', Granted(u)')
                      /\ \A s \in Granted(u)' : paid'[s] + excess'[s] = Days(s)
      BY DEF Sums, Entered, Days
    <3> QED
      BY <3>1, <3>8, <3>11, <3>12, <3>13
  <2> QED
    BY <2>1, <2>2
<1>5. Apart(u)'
  <2>1. \A s \in Req : Active(s)' => Active(s)
    BY <1>1, <1>3 DEF Active, LeaveTypes
  <2> QED
    BY <2>1 DEF Quiet, Apart, Overlap, Of
<1>6. ASSUME NEW s \in Of(u) PROVE UpToDate(s)'
  <2>1. CASE s = r
    <3>1. r \notin cancelling
      BY DEF ApproveCommit, Commit, Of
    <3>2. txn'[r].op = "none"
      BY <1>1 DEF LeaveTypes, NoTxn
    <3> QED
      BY <1>1, <2>1, <3>1, <3>2 DEF UpToDate
  <2>2. CASE s # r
    <3>1. txn[s] = NoTxn /\ s \notin cancelling /\ s \in Req
      BY <2>2, Alone DEF ApproveCommit, Of
    <3>2. txn'[s].op = "none"
      BY <1>1, <2>2, <3>1 DEF LeaveTypes, NoTxn
    <3> QED
      BY <1>1, <3>1, <3>2 DEF UpToDate
  <2> QED
    BY <2>1, <2>2
<1> QED
  BY <1>4, <1>5, <1>6 DEF Quiet, Of

LEMMA QuietApproveFails ==
    ASSUME LeaveTypes, LeaveTypes', NEW r \in Req, ApproveFails(r), Quiet(Form[r].user)
    PROVE  Quiet(Form[r].user)'
<1> DEFINE u == Form[r].user
<1>1. /\ u \in Agents /\ UNCHANGED <<status, paid, excess, ledger, cancelling>>
      /\ txn' = [txn EXCEPT ![r] = NoTxn]
  BY FormAssumption DEF ApproveFails
<1>2. Granted(u)' = Granted(u)
  BY <1>1 DEF Granted
<1>3. Sums(u)'
  BY <1>1, <1>2, SumsKept DEF Quiet
<1>4. Apart(u)'
  BY <1>1 DEF Quiet, Apart, Active
<1>5. ASSUME NEW s \in Of(u) PROVE UpToDate(s)'
  <2>1. UpToDate(s) /\ s \in Req /\ Form[s].user = u
    BY <1>5 DEF Quiet, Of
  <2>2. txn'[s] = txn[s] \/ txn'[s].op = "none"
    BY <1>1, <2>1 DEF LeaveTypes, NoTxn
  <2> QED
    BY <1>1, <2>1, <2>2 DEF UpToDate, Creatable, Approvable, Active
<1> QED
  BY <1>3, <1>4, <1>5 DEF Quiet, Of

LEMMA QuietReject ==
    ASSUME LeaveTypes, LeaveTypes', NEW r \in Req, Reject(r), Quiet(Form[r].user),
           Form[r].user \notin raced'
    PROVE  Quiet(Form[r].user)'
<1> DEFINE u == Form[r].user
<1>1. /\ u \in Agents /\ r \in Of(u) /\ UNCHANGED <<paid, excess, ledger, cancelling>>
      /\ status[r] = "PENDING" /\ status' = [status EXCEPT ![r] = "REJECTED"]
      /\ txn' = [txn EXCEPT ![r] = NoTxn]
  BY FormAssumption DEF Reject, Commit, Of
<1>2. Granted(u)' = Granted(u)
  BY <1>1, GrantedKept
<1>3. Sums(u)'
  BY <1>1, <1>2, SumsKept DEF Quiet
<1>4. Apart(u)'
  <2>1. \A s \in Req : Active(s)' => Active(s)
    BY <1>1 DEF Active, LeaveTypes
  <2> QED
    BY <2>1 DEF Quiet, Apart, Overlap, Of
<1>5. ASSUME NEW s \in Of(u) PROVE UpToDate(s)'
  <2>1. s \in Req /\ s \notin cancelling /\ (s # r => txn[s] = NoTxn)
    BY Alone DEF Reject, Commit, Of
  <2>2. txn'[s].op = "none"
    BY <1>1, <2>1 DEF LeaveTypes, NoTxn
  <2> QED
    BY <1>1, <2>1, <2>2 DEF UpToDate
<1> QED
  BY <1>3, <1>4, <1>5 DEF Quiet, Of

LEMMA QuietCancelRead ==
    ASSUME LeaveTypes, LeaveTypes', NEW r \in Req, CancelRead(r), Quiet(Form[r].user)
    PROVE  Quiet(Form[r].user)'
<1> DEFINE u == Form[r].user
<1>1. /\ u \in Agents /\ UNCHANGED <<status, paid, excess, ledger, txn>>
      /\ status[r] = "PENDING" /\ cancelling' = cancelling \cup {r}
  BY FormAssumption DEF CancelRead
<1>2. Granted(u)' = Granted(u)
  BY <1>1 DEF Granted
<1>3. Sums(u)'
  BY <1>1, <1>2, SumsKept DEF Quiet
<1>4. Apart(u)'
  BY <1>1 DEF Quiet, Apart, Active
<1>5. ASSUME NEW s \in Of(u) PROVE UpToDate(s)'
  <2>1. UpToDate(s) /\ s \in Req /\ Form[s].user = u
    BY <1>5 DEF Quiet, Of
  <2> QED
    BY <1>1, <2>1 DEF UpToDate, Creatable, Approvable, Active
<1> QED
  BY <1>3, <1>4, <1>5 DEF Quiet, Of

LEMMA QuietCancelCommit ==
    ASSUME LeaveTypes, LeaveTypes', NEW r \in Req, CancelCommit(r), Quiet(Form[r].user),
           Form[r].user \notin raced'
    PROVE  Quiet(Form[r].user)'
<1> DEFINE u == Form[r].user
<1>1. /\ u \in Agents /\ r \in Of(u) /\ UNCHANGED <<paid, excess, ledger, txn>>
      /\ status' = [status EXCEPT ![r] = "CANCELLED"] /\ cancelling' = cancelling \ {r}
      /\ \A s \in Of(u) : txn[s] = NoTxn
  BY FormAssumption DEF CancelCommit, Busy, Of
<1>2. status[r] = "PENDING"
  BY <1>1 DEF CancelCommit, Quiet, UpToDate
<1>3. Granted(u)' = Granted(u)
  BY <1>1, <1>2, GrantedKept
<1>4. Sums(u)'
  BY <1>1, <1>3, SumsKept DEF Quiet
<1>5. Apart(u)'
  <2>1. \A s \in Req : Active(s)' => Active(s)
    BY <1>1 DEF Active, LeaveTypes
  <2> QED
    BY <2>1 DEF Quiet, Apart, Overlap, Of
<1>6. ASSUME NEW s \in Of(u) PROVE UpToDate(s)'
  <2>1. UpToDate(s) /\ s \in Req /\ txn'[s].op = "none"
    BY <1>1, <1>6 DEF Quiet, Of, NoTxn
  <2>2. s \in cancelling' => s # r /\ s \in cancelling /\ status'[s] = status[s]
    BY <1>1, <2>1 DEF LeaveTypes
  <2> QED
    BY <2>1, <2>2 DEF UpToDate
<1> QED
  BY <1>4, <1>5, <1>6 DEF Quiet, Of

LEMMA QuietNext ==
    ASSUME LeaveTypes, LeaveTypes', QuietInv, [LeaveNext]_leaveVars
    PROVE  QuietInv'
<1> SUFFICES ASSUME NEW u \in Agents, u \notin raced', u \notin edited' PROVE Quiet(u)'
  BY DEF QuietInv
<1>1. ASSUME u \notin raced, u \notin edited, NEW r \in Req,
             \/ CreateCheck(r) \/ CreateCommit(r) \/ ApproveRead(r) \/ ApproveCommit(r)
             \/ ApproveFails(r) \/ Reject(r) \/ CancelRead(r) \/ CancelCommit(r)
      PROVE  Quiet(u)'
  <2>1. Quiet(u)
    BY <1>1 DEF QuietInv
  <2>2. CASE u # Form[r].user
    BY <1>1, <2>1, <2>2, OthersUntouched, UntouchedQuiet
  <2>3. CASE u = Form[r].user
    <3>1. CASE CreateCheck(r)
      BY <2>1, <2>3, <3>1, QuietCreateCheck
    <3>2. CASE CreateCommit(r)
      BY <2>1, <2>3, <3>2, QuietCreateCommit
    <3>3. CASE ApproveRead(r)
      BY <2>1, <2>3, <3>3, QuietApproveRead
    <3>4. CASE ApproveCommit(r)
      BY <2>1, <2>3, <3>4, QuietApproveCommit
    <3>5. CASE ApproveFails(r)
      BY <2>1, <2>3, <3>5, QuietApproveFails
    <3>6. CASE Reject(r)
      BY <2>1, <2>3, <3>6, QuietReject
    <3>7. CASE CancelRead(r)
      BY <2>1, <2>3, <3>7, QuietCancelRead
    <3>8. CASE CancelCommit(r)
      BY <2>1, <2>3, <3>8, QuietCancelCommit
    <3> QED
      BY <1>1, <3>1, <3>2, <3>3, <3>4, <3>5, <3>6, <3>7, <3>8
  <2> QED
    BY <2>2, <2>3
<1>2. ASSUME NEW v \in Agents, NEW totals \in Totals, SetTotals(v, totals) PROVE Quiet(u)'
  <2>1. u # v /\ u \notin raced /\ u \notin edited
    BY <1>2 DEF SetTotals
  <2>2. Untouched(u)
    BY <1>2, <2>1 DEF SetTotals, Untouched, LeaveTypes
  <2> QED
    BY <2>1, <2>2, UntouchedQuiet DEF QuietInv
<1>3. ASSUME UNCHANGED <<status, paid, excess, ledger, txn, cancelling, edited, raced>>
      PROVE  Quiet(u)'
  <2>1. Untouched(u)
    BY <1>3 DEF Untouched
  <2> QED
    BY <1>3, <2>1, UntouchedQuiet DEF QuietInv
<1>4. \A r \in Req :
        \/ CreateCheck(r) \/ CreateCommit(r) \/ ApproveRead(r) \/ ApproveCommit(r)
        \/ ApproveFails(r) \/ Reject(r) \/ CancelRead(r) \/ CancelCommit(r)
        => u \notin raced /\ u \notin edited
  BY DEF CreateCheck, CreateCommit, ApproveRead, ApproveCommit, ApproveFails, Reject, CancelRead,
         CancelCommit, Commit
<1>5. CASE \E r \in Req : \/ CreateCheck(r) \/ CreateCommit(r)
                          \/ ApproveRead(r) \/ ApproveCommit(r) \/ ApproveFails(r)
                          \/ Reject(r) \/ CancelRead(r) \/ CancelCommit(r)
  BY <1>1, <1>4, <1>5
<1>6. CASE \E v \in Agents : \E totals \in Totals : SetTotals(v, totals)
  BY <1>2, <1>6
<1>7. CASE \E v \in Agents : \E halves \in Carries : SetCarry(v, halves)
  BY <1>3, <1>7 DEF SetCarry
<1>8. CASE \E new \in Policies : UpdatePolicy(new)
  BY <1>3, <1>8 DEF UpdatePolicy
<1>9. CASE UNCHANGED leaveVars
  BY <1>3, <1>9 DEF leaveVars
<1> QED
  BY <1>5, <1>6, <1>7, <1>8, <1>9 DEF LeaveNext

LEMMA QuietAgrees == LeaveTypes /\ QuietInv => LedgerAgrees
<1> SUFFICES ASSUME LeaveTypes, QuietInv, NEW u \in Agents \ (raced \cup edited)
             PROVE  LET active == {r \in Of(u) : Active(r)}
                        granted == {r \in active : status[r] = "APPROVED" /\ Form[r].type = "PAID"}
                    IN /\ Entered(ledger[u]).paid = SumOver(paid, granted)
                       /\ Entered(ledger[u]).unpaid = SumOver(excess, granted)
                       /\ \A r \in granted : paid[r] + excess[r] = Days(r)
                       /\ \A r, s \in active : r # s => ~Overlap(r, s)
  BY DEF LedgerAgrees
<1> DEFINE active == {r \in Of(u) : Active(r)}
           granted == {r \in active : status[r] = "APPROVED" /\ Form[r].type = "PAID"}
<1>1. Quiet(u)
  BY DEF QuietInv
<1>2. granted = Granted(u)
  BY DEF Granted, Active
<1>3. \A r, s \in active : r # s => ~Overlap(r, s)
  BY <1>1 DEF Quiet, Apart
<1> HIDE DEF active, granted
<1>4. Sums(u)
  BY <1>1 DEF Quiet
<1>5. /\ Entered(ledger[u]).paid = SumOver(paid, granted)
      /\ Entered(ledger[u]).unpaid = SumOver(excess, granted)
      /\ \A r \in granted : paid[r] + excess[r] = Days(r)
  BY <1>2, <1>4, SumOverIs DEF Sums
<1> QED
  BY <1>3, <1>5 DEF active, granted

\* LeaveRequests by itself: in any order of creations, reviews, cancellations,
\* totals entered and policies changed, what the month's ledger holds of a user
\* whose transactions did not overlap is the sum over the approved requests.
THEOREM LedgerOfApprovals == LeaveSpec => []LedgerAgrees
<1>1. LeaveInit => LeaveTypes /\ QuietInv
  BY LeaveTypesInit, QuietInit
<1>2. LeaveTypes /\ QuietInv /\ [LeaveNext]_leaveVars => (LeaveTypes /\ QuietInv)'
  BY LeaveTypesNext, QuietNext
<1>3. LeaveTypes /\ QuietInv => LedgerAgrees
  BY QuietAgrees
<1> QED
  BY <1>1, <1>2, <1>3, PTL DEF LeaveSpec

----------------------------------------------------------------------------
\* Performance changes the leave rows by the handlers of LeaveRequests only.
LEMMA ScoresStepLeave == [PmsNext]_<<leaveVars, pmsVars>> => [LeaveNext]_leaveVars
<1>1. LeaveSteps(Req) => LeaveNext
  BY DEF LeaveSteps, LeaveNext
<1>2. PolicySteps => LeaveNext
  BY DEF PolicySteps, LeaveNext
<1>3. LeaveApplied(Req, Agents) => LeaveNext
  BY DEF LeaveApplied, LeaveNext, ApproveAndApply, CarryAndApply, TotalsAndApply
<1>4. ScoreSteps(Agents) \/ ConfigSteps => UNCHANGED leaveVars
  BY DEF ScoreSteps, ConfigSteps
<1> QED
  BY <1>1, <1>2, <1>3, <1>4 DEF PmsNext

\* Beside the scores, the leave rows behave as they do alone.
THEOREM ScoresImplementLeave == PmsSpec => LeaveSpec
BY ScoresStepLeave, PTL DEF PmsSpec, LeaveSpec

THEOREM LedgerBesideScores == PmsSpec => []LedgerAgrees
BY ScoresImplementLeave, LedgerOfApprovals, PTL

----------------------------------------------------------------------------
(* Performance records.                                                    *)

MetricRow == [weight : Nat, auto : Int, value : Int, over : BOOLEAN]
Maps == {<<>>} \cup UNION {[S -> MetricRow] : S \in SUBSET Metric}
Record == [status : {"none", "DRAFT", "COMPLETED"}, metrics : Maps, final : Int, max : Int]
Configurations == UNION {[S -> [weight : Nat, active : BOOLEAN]] : S \in SUBSET Metric}
Choice == [exists : BOOLEAN, tie : BOOLEAN, tied : SUBSET Agents, selected : Agents \cup {Nobody}]
Save == [user : Agents, rec : Record, read : Choice, overtaken : BOOLEAN, choice : Choice]

PmsTypes ==
    /\ config \in Configurations /\ work \in [Agents -> -1 .. 2]
    /\ record \in [Agents -> Record] /\ choice \in Choice
    /\ saving \subseteq Save /\ stale \in BOOLEAN /\ retired \in BOOLEAN

\* No metric is worth more than its weight.
Sound(metrics) == \A m \in DOMAIN metrics : metrics[m].value <= metrics[m].weight

\* The metrics g come from f by computing them anew: an override stays.
Follows(g, f) ==
    /\ DOMAIN g = DOMAIN f
    /\ \A m \in DOMAIN f : /\ g[m] \in MetricRow /\ g[m].weight = f[m].weight
                           /\ g[m].value <= g[m].weight
                           /\ f[m].over => g[m].value = f[m].value

LEMMA MapsTyped ==
    ASSUME NEW f \in Maps
    PROVE  DOMAIN f \subseteq Metric /\ \A m \in DOMAIN f : f[m] \in MetricRow
<1>1. CASE f = <<>>
  <2>1. DOMAIN f = {}
    BY <1>1
  <2> QED
    BY <2>1
<1>2. CASE \E S \in SUBSET Metric : f \in [S -> MetricRow]
  BY <1>2
<1> QED
  BY <1>1, <1>2 DEF Maps

LEMMA MapTyped ==
    ASSUME NEW S \in SUBSET Metric, NEW f \in [S -> MetricRow]
    PROVE  f \in Maps
BY DEF Maps

LEMMA FiniteMetrics == \A S \in SUBSET Metric : IsFiniteSet(S)
<1>1. IsFiniteSet({"target_achievement", "competency", "productivity", "quality",
                   "attendance", "punctuality"})
  <2>1. {"target_achievement", "competency", "productivity", "quality", "attendance", "punctuality"}
        = ((((({} \cup {"target_achievement"}) \cup {"competency"}) \cup {"productivity"})
          \cup {"quality"}) \cup {"attendance"}) \cup {"punctuality"}
    OBVIOUS
  <2>2. \A A, x : IsFiniteSet(A) => IsFiniteSet(A \cup {x})
    BY FS_AddElement
  <2>3. IsFiniteSet({})
    BY FS_EmptySet
  <2>4. IsFiniteSet(({} \cup {"target_achievement"}) \cup {"competency"})
    BY ONLY <2>2, <2>3, Zenon
  <2>5. IsFiniteSet(((({} \cup {"target_achievement"}) \cup {"competency"}) \cup {"productivity"})
                    \cup {"quality"})
    BY ONLY <2>2, <2>4, Zenon
  <2>6. IsFiniteSet(((((({} \cup {"target_achievement"}) \cup {"competency"})
                       \cup {"productivity"}) \cup {"quality"}) \cup {"attendance"})
                    \cup {"punctuality"})
    BY ONLY <2>2, <2>5, Zenon
  <2> QED
    BY ONLY <2>1, <2>6, Zenon
<1> QED
  BY <1>1, FS_Subset, MetricAssumption

\* Sums over the metrics of a record.
LEMMA TotalsTyped ==
    ASSUME NEW f \in Maps
    PROVE  Total(f) \in Int /\ TotalWeight(f) \in Int /\ (Sound(f) => Total(f) <= TotalWeight(f))
<1> DEFINE D == DOMAIN f
           v == [m \in D |-> f[m].value]
           w == [m \in D |-> f[m].weight]
<1>1. D \subseteq Metric /\ \A m \in D : f[m] \in MetricRow
  BY MapsTyped
<1>2. IsFiniteSet(D)
  BY <1>1, FiniteMetrics
<1>3. \A m \in D : v[m] \in Int /\ w[m] \in Int /\ v[m] = f[m].value /\ w[m] = f[m].weight
  BY <1>1 DEF MetricRow
<1>4. Total(f) = Sum(v, D) /\ TotalWeight(f) = Sum(w, D)
  BY SumOverIs DEF Total, TotalWeight
<1>5. Sound(f) => \A m \in D : v[m] <= w[m]
  BY <1>3 DEF Sound
<1> HIDE DEF D, v, w
<1>6. Sum(v, D) \in Int /\ Sum(w, D) \in Int
  BY <1>2, <1>3, SumInt
<1>7. ASSUME Sound(f) PROVE Sum(v, D) <= Sum(w, D)
  BY <1>2, <1>3, <1>5, <1>7, SumOrdered
<1> QED
  BY <1>4, <1>6, <1>7

LEMMA FollowsTyped ==
    ASSUME NEW f \in Maps, NEW D, D = DOMAIN f, NEW g \in [D -> MetricRow], Follows(g, f)
    PROVE  g \in Maps /\ Sound(g) /\ TotalWeight(g) = TotalWeight(f)
<1>1. D \subseteq Metric /\ DOMAIN g = D /\ IsFiniteSet(D)
  BY MapsTyped, FiniteMetrics
<1>2. g \in Maps
  BY <1>1, MapTyped
<1>3. Sound(g)
  BY DEF Sound, Follows
<1>4. TotalWeight(g) = TotalWeight(f)
  <2> DEFINE w == [m \in D |-> f[m].weight]
             x == [m \in D |-> g[m].weight]
  <2>1. \A m \in D : x[m] \in Int /\ x[m] = w[m]
    BY DEF Follows, MetricRow
  <2>2. TotalWeight(f) = Sum(w, D) /\ TotalWeight(g) = Sum(x, D)
    BY <1>1, SumOverIs DEF TotalWeight
  <2> HIDE DEF w, x
  <2> QED
    BY <1>1, <2>1, <2>2, SumSame
<1> QED
  BY <1>2, <1>3, <1>4

----------------------------------------------------------------------------
(* What the computations return.                                           *)

LEMMA WholeDaysNat == ASSUME NEW h \in Int PROVE WholeDays(h) \in Nat
<1> DEFINE x == Max({h, 0})
<1>1. x \in Nat
  <2>1. 0 \in Int
    OBVIOUS
  <2>2. Max({h, 0}) \in {h, 0} /\ Max({h, 0}) >= 0
    BY <2>1, MaxOfTwo, Zenon
  <2> QED
    BY <2>2
<1> HIDE DEF x
<1>2. (x + 1) \div 2 \in Nat
  BY <1>1
<1> QED
  BY <1>2 DEF WholeDays, x

LEMMA ImpactNat ==
    ASSUME LeaveTypes, NEW u, NEW table \in Seq(LedgerRow), NEW count \in Int,
           NEW m \in {"attendance", "punctuality"}
    PROVE  Impact(u, table, count)[m] \in Nat
<1> DEFINE T == {r \in Approved(u) : Form[r].type = "PAID"}
           h == [r \in Req |-> WholeDays(excess[r])]
           days == IF table # <<>> THEN WholeDays(Head(table).unpaid) ELSE SumOver(h, T)
           over == Max({count, 0}) - policy.instances - policy.shorts
<1>1. Impact(u, table, count) = [attendance |-> days, punctuality |-> Max({over, 0})]
  BY DEF Impact
<1>2. days \in Nat
  <2>1. CASE table # <<>>
    <3>0. Head(table) \in LedgerRow
      BY <2>1
    <3>1. Head(table).unpaid \in Int
      BY <3>0 DEF LedgerRow
    <3>2. WholeDays(Head(table).unpaid) \in Nat
      BY <3>1, WholeDaysNat
    <3> QED
      BY <2>1, <3>2
  <2>2. CASE table = <<>>
    <3>1. T \subseteq Req
      BY DEF Approved, Of
    <3>2. IsFiniteSet(T)
      BY <3>1, FormAssumption, FS_Subset
    <3>3. \A r \in T : h[r] \in Nat
      BY <3>1, WholeDaysNat DEF LeaveTypes
    <3> HIDE DEF T, h
    <3>4. Sum(h, T) \in Nat
      BY <3>2, <3>3, SumNat
    <3> QED
      BY <2>2, <3>4, SumOverIs
  <2> QED
    BY <2>1, <2>2
<1>3. Max({over, 0}) \in Nat
  <2>1. 0 \in Int
    OBVIOUS
  <2>2. Max({count, 0}) \in {count, 0}
    BY <2>1, MaxOfTwo, Zenon
  <2>3. policy.instances \in Nat /\ policy.shorts \in Nat
    BY FormAssumption DEF LeaveTypes
  <2>4. over \in Int
    BY <2>2, <2>3
  <2> HIDE DEF over
  <2>5. Max({over, 0}) \in {over, 0} /\ Max({over, 0}) >= 0
    BY <2>1, <2>4, MaxOfTwo, Zenon
  <2> QED
    BY <2>4, <2>5
<1> HIDE DEF days, over
<1> QED
  BY <1>1, <1>2, <1>3

LEMMA LeaveValueTyped ==
    ASSUME LeaveTypes, NEW u, NEW table \in Seq(LedgerRow), NEW count \in Int,
           NEW m, OnLeave(m), NEW w \in Nat
    PROVE  LeaveValue(u, m, w, table, count) \in 0 .. w
<1> DEFINE i == Impact(u, table, count)[m]
           x == w - 2 * i
<1>1. i \in Nat
  BY ImpactNat DEF OnLeave
<1> HIDE DEF i
<1>2. x \in Int /\ x <= w /\ 0 \in Int
  BY <1>1
<1> HIDE DEF x
<1>3. Max({x, 0}) \in {x, 0} /\ Max({x, 0}) >= 0
  BY <1>2, MaxOfTwo, Zenon
<1>4. LeaveValue(u, m, w, table, count) = Max({x, 0})
  BY DEF LeaveValue, x, i
<1> QED
  BY <1>2, <1>3, <1>4

\* Half points of a weight for a share of at most 2 halves.
LEMMA ShareOf == ASSUME NEW w \in Nat, NEW k \in -1 .. 2 PROVE (w * Max({k, 0})) \div 2 \in 0 .. w
<1> DEFINE x == Max({k, 0})
<1>1. x \in 0 .. 2
  <2>1. 0 \in Int /\ k \in Int
    OBVIOUS
  <2>2. Max({k, 0}) \in {k, 0} /\ Max({k, 0}) >= 0
    BY <2>1, MaxOfTwo, Zenon
  <2> QED
    BY <2>2
<1> HIDE DEF x
<1>2. CASE x = 0
  <2>1. w * x = 0
    BY <1>2
  <2> QED
    BY <2>1 DEF x
<1>3. CASE x = 1
  <2>1. w * x = w
    BY <1>3
  <2>2. w \div 2 \in 0 .. w
    OBVIOUS
  <2> QED
    BY <2>1, <2>2 DEF x
<1>4. CASE x = 2
  <2>1. w * x = 2 * w
    BY <1>4
  <2>2. (2 * w) \div 2 = w
    OBVIOUS
  <2> QED
    BY <2>1, <2>2 DEF x
<1> QED
  BY <1>1, <1>2, <1>3, <1>4

LEMMA AutoValueTyped ==
    ASSUME LeaveTypes, PmsTypes, NEW u \in Agents, NEW m, NEW w \in Nat
    PROVE  AutoValue(u, m, w) \in 0 .. w
<1>1. ledger[u] \in Seq(LedgerRow) /\ adh[u] \in Int /\ work[u] \in -1 .. 2
  BY DEF LeaveTypes, PmsTypes
<1>2. CASE OnLeave(m)
  BY <1>1, <1>2, LeaveValueTyped DEF AutoValue
<1>3. CASE ~OnLeave(m)
  BY <1>1, <1>3, ShareOf DEF AutoValue, WorkValue
<1> QED
  BY <1>2, <1>3

LEMMA ComputedRow ==
    ASSUME NEW metric \in MetricRow, metric.value <= metric.weight, NEW v \in 0 .. metric.weight
    PROVE  /\ Computed(metric, v) \in MetricRow
           /\ Computed(metric, v).weight = metric.weight
           /\ Computed(metric, v).value <= metric.weight
           /\ metric.over => Computed(metric, v).value = metric.value
<1>1. v \in Int /\ metric.value \in Int
  BY DEF MetricRow
<1>2. PICK e \in Int : e = (IF metric.over THEN metric.value ELSE v)
  BY <1>1
<1>3. Computed(metric, v) = [metric EXCEPT !.auto = v, !.value = e]
  BY <1>2 DEF Computed
<1>4. e <= metric.weight /\ (metric.over => e = metric.value)
  BY <1>2
<1>5. PICK c : c = [metric EXCEPT !.auto = v, !.value = e]
  OBVIOUS
<1>6. c \in MetricRow /\ c.weight = metric.weight /\ c.value = e
  BY <1>1, <1>5 DEF MetricRow
<1> QED
  BY <1>3, <1>4, <1>5, <1>6

Valued(r) == r.final = Total(r.metrics) /\ r.max = TotalWeight(r.metrics)
KeepsOverrides(new, old) ==
    \A m \in DOMAIN old.metrics :
        old.metrics[m].over => new.metrics[m].value = old.metrics[m].value

\* A record brought up to date: its metrics computed anew, and their total.
Revised(new, old) ==
    /\ new \in Record /\ Sound(new.metrics) /\ new.status = old.status
    /\ DOMAIN new.metrics = DOMAIN old.metrics /\ new.final = Total(new.metrics)
    /\ old.max = TotalWeight(old.metrics) => new.max = TotalWeight(new.metrics)
    /\ KeepsOverrides(new, old)

LEMMA RevisedRecord ==
    ASSUME NEW r \in Record, NEW D, D = DOMAIN r.metrics, NEW g \in [D -> MetricRow],
           Follows(g, r.metrics)
    PROVE  Revised([r EXCEPT !.metrics = g, !.final = Total(g)], r)
<1>1. r.metrics \in Maps
  BY DEF Record
<1>2. g \in Maps /\ Sound(g) /\ TotalWeight(g) = TotalWeight(r.metrics)
  BY <1>1, FollowsTyped
<1>3. Total(g) \in Int
  BY <1>2, TotalsTyped
<1>4. PICK t \in Int : t = Total(g)
  BY <1>3
<1>5. PICK new : new = [r EXCEPT !.metrics = g, !.final = t]
  OBVIOUS
<1>6. new \in Record /\ new.metrics = g /\ new.final = t /\ new.max = r.max /\ new.status = r.status
  BY <1>2, <1>5 DEF Record
<1>7. DOMAIN g = DOMAIN r.metrics
  BY DEF Follows
<1>8. \A m \in DOMAIN r.metrics : r.metrics[m].over => g[m].value = r.metrics[m].value
  BY DEF Follows
<1>9. KeepsOverrides(new, r)
  BY <1>6, <1>8 DEF KeepsOverrides
<1>10. Revised(new, r)
  BY <1>2, <1>4, <1>6, <1>7, <1>9 DEF Revised
<1> QED
  BY <1>4, <1>5, <1>10

\* Metrics, some of which are computed anew.
LEMMA ComputedFollows ==
    ASSUME NEW f \in Maps, Sound(f), NEW D, D = DOMAIN f,
           NEW g, g = [m \in D |-> g[m]],
           \A m \in D : \/ g[m] = f[m]
                        \/ \E v \in 0 .. f[m].weight : g[m] = Computed(f[m], v)
    PROVE  g \in [D -> MetricRow] /\ Follows(g, f)
<1>1. \A m \in D : f[m] \in MetricRow /\ f[m].value <= f[m].weight
  BY MapsTyped DEF Sound
<1>2. ASSUME NEW m \in D
      PROVE  /\ g[m] \in MetricRow /\ g[m].weight = f[m].weight /\ g[m].value <= g[m].weight
             /\ f[m].over => g[m].value = f[m].value
  <2>1. CASE g[m] = f[m]
    BY <1>1, <2>1
  <2>2. CASE \E v \in 0 .. f[m].weight : g[m] = Computed(f[m], v)
    BY <1>1, <2>2, ComputedRow
  <2> QED
    BY <2>1, <2>2
<1>3. DOMAIN g = D
  OBVIOUS
<1> QED
  BY <1>2, <1>3 DEF Follows

LEMMA RefreshedRevised ==
    ASSUME LeaveTypes, PmsTypes, NEW u \in Agents, Sound(record[u].metrics)
    PROVE  Revised(Refreshed(u), record[u])
<1> DEFINE f == record[u].metrics
           D == DOMAIN f
           g == [m \in D |-> IF Automatic(m) THEN Computed(f[m], AutoValue(u, m, f[m].weight))
                             ELSE f[m]]
<1>1. record[u] \in Record /\ f \in Maps
  BY DEF PmsTypes, Record
<1>2. \A m \in D : f[m].weight \in Nat
  BY <1>1, MapsTyped DEF MetricRow
<1>3. \A m \in D : AutoValue(u, m, f[m].weight) \in 0 .. f[m].weight
  BY <1>2, AutoValueTyped
<1>4. \A m \in D : g[m] = f[m] \/ \E v \in 0 .. f[m].weight : g[m] = Computed(f[m], v)
  BY <1>3
<1>5. Refreshed(u) = [record[u] EXCEPT !.metrics = g, !.final = Total(g)]
  BY DEF Refreshed
<1>6. g = [m \in D |-> g[m]]
  OBVIOUS
<1>7. Sound(f)
  OBVIOUS
<1> HIDE DEF f, D, g
<1>8. D = DOMAIN f /\ f = record[u].metrics
  BY DEF f, D
<1>9. g \in [D -> MetricRow] /\ Follows(g, f)
  BY <1>1, <1>4, <1>6, <1>7, <1>8, ComputedFollows
<1> QED
  BY <1>1, <1>5, <1>8, <1>9, RevisedRecord

LEMMA ImpactedRevised ==
    ASSUME LeaveTypes, PmsTypes, NEW u \in Agents, Sound(record[u].metrics),
           NEW table \in Seq(LedgerRow), NEW count \in Int
    PROVE  Revised(Impacted(u, table, count), record[u])
<1> DEFINE f == record[u].metrics
           D == DOMAIN f
           g == [m \in D |-> IF OnLeave(m)
                             THEN Computed(f[m], LeaveValue(u, m, f[m].weight, table, count))
                             ELSE f[m]]
<1>1. record[u] \in Record /\ f \in Maps
  BY DEF PmsTypes, Record
<1>2. \A m \in D : f[m].weight \in Nat
  BY <1>1, MapsTyped DEF MetricRow
<1>3. ASSUME NEW m \in D, OnLeave(m)
      PROVE  LeaveValue(u, m, f[m].weight, table, count) \in 0 .. f[m].weight
  <2> DEFINE w == f[m].weight
  <2>1. w \in Nat
    BY <1>2
  <2> HIDE DEF w
  <2>2. LeaveValue(u, m, w, table, count) \in 0 .. w
    BY <1>3, <2>1, LeaveValueTyped
  <2> QED
    BY <2>2 DEF w
<1>4. PICK h : h = g
  OBVIOUS
<1>5. \A m \in D : h[m] = f[m] \/ \E v \in 0 .. f[m].weight : h[m] = Computed(f[m], v)
  BY <1>3, <1>4
<1>6. Impacted(u, table, count) = [record[u] EXCEPT !.metrics = h, !.final = Total(h)]
  BY <1>4 DEF Impacted
<1>7. h = [m \in D |-> h[m]] /\ Sound(f)
  BY <1>4
<1>8. D = DOMAIN f /\ f = record[u].metrics
  OBVIOUS
<1> HIDE DEF f, D, g
<1>9. h \in [D -> MetricRow] /\ Follows(h, f)
  <2>1. f \in Maps /\ Sound(f) /\ D = DOMAIN f /\ h = [m \in D |-> h[m]]
    BY <1>1, <1>7, <1>8
  <2>2. \A m \in D : \/ h[m] = f[m]
                     \/ \E v \in 0 .. f[m].weight : h[m] = Computed(f[m], v)
    BY <1>5
  <2> QED
    BY ONLY <2>1, <2>2, ComputedFollows, SMTT(60)
<1>10. D = DOMAIN record[u].metrics /\ Follows(h, record[u].metrics)
  BY <1>8, <1>9
<1>11. Revised([record[u] EXCEPT !.metrics = h, !.final = Total(h)], record[u])
  BY ONLY <1>1, <1>9, <1>10, RevisedRecord
<1> QED
  BY <1>6, <1>11

\* The configuration the service works with.
LEMMA ConfigsTyped ==
    ASSUME PmsTypes
    PROVE  /\ Configs \in Configurations /\ DOMAIN Configs \subseteq Metric
           /\ \A m \in DOMAIN Configs : Configs[m].weight \in Nat /\ Configs[m].active \in BOOLEAN
           /\ ActiveOf(Configs) \subseteq DOMAIN Configs
<1>1. Defaults \in [Metric -> [weight : Nat, active : BOOLEAN]]
  BY MetricAssumption DEF Defaults
<1>2. Defaults \in Configurations
  BY <1>1 DEF Configurations
<1>3. Configs \in Configurations
  BY <1>2 DEF Configs, PmsTypes
<1>4. PICK S \in SUBSET Metric : Configs \in [S -> [weight : Nat, active : BOOLEAN]]
  BY <1>3 DEF Configurations
<1> QED
  BY <1>3, <1>4 DEF ActiveOf

\* A record whose score is that of the metrics it has.
LEMMA BuiltRecord ==
    ASSUME NEW st \in {"none", "DRAFT", "COMPLETED"}, NEW g \in Maps, Sound(g)
    PROVE  LET r == [status |-> st, metrics |-> g, final |-> Total(g), max |-> TotalWeight(g)]
           IN r \in Record /\ Sound(r.metrics) /\ Valued(r)
<1>1. Total(g) \in Int /\ TotalWeight(g) \in Int
  BY TotalsTyped
<1>2. PICK t \in Int, w \in Int : t = Total(g) /\ w = TotalWeight(g)
  BY <1>1
<1>3. PICK r : r = [status |-> st, metrics |-> g, final |-> t, max |-> w]
  OBVIOUS
<1>4. r \in Record /\ r.metrics = g /\ r.final = t /\ r.max = w
  BY <1>3 DEF Record
<1>5. Valued(r) /\ Sound(r.metrics)
  BY <1>2, <1>4 DEF Valued
<1>6. r = [status |-> st, metrics |-> g, final |-> Total(g), max |-> TotalWeight(g)]
  BY <1>2, <1>3
<1> QED
  BY <1>4, <1>5, <1>6

\* What daily entries leave of a record: nothing where there is nothing, and
\* otherwise a record that is what its metrics say.
SyncedWell(new, u) ==
    /\ new.status # "none" /\ new \in Record /\ Sound(new.metrics) /\ Valued(new)
    /\ DOMAIN new.metrics = IF DOMAIN record[u].metrics # {} THEN DOMAIN record[u].metrics
                            ELSE ActiveOf(Configs)
    /\ KeepsOverrides(new, record[u])

LEMMA SyncedIsWell ==
    ASSUME LeaveTypes, PmsTypes, NEW u \in Agents, Sound(record[u].metrics), NEW days \in -1 .. 2,
           ~(record[u].status = "none" /\ days = -1)
    PROVE  SyncedWell(Synced(u, days), u)
<1> DEFINE old == record[u].metrics
           A == ActiveOf(Configs)
           blank == [m \in A |-> [weight |-> Configs[m].weight, auto |-> -1, value |-> 0, over |-> FALSE]]
           start == IF DOMAIN old # {} THEN old ELSE blank
           worth(m, w) == IF OnLeave(m) THEN IF days = -1 THEN 0 ELSE AutoValue(u, m, w)
                          ELSE (w * Max({days, 0})) \div 2
           D == DOMAIN start
           g == [m \in D |-> IF Automatic(m) THEN Computed(start[m], worth(m, start[m].weight))
                             ELSE start[m]]
           st == IF record[u].status = "none" THEN "DRAFT" ELSE record[u].status
<1>1. record[u] \in Record /\ old \in Maps
  BY DEF PmsTypes, Record
<1>2. A \subseteq Metric /\ \A m \in A : Configs[m].weight \in Nat
  BY ConfigsTyped
<1>3. blank \in Maps /\ Sound(blank) /\ DOMAIN blank = A
  <2>1. blank \in [A -> MetricRow]
    BY <1>2 DEF MetricRow
  <2>2. Sound(blank)
    BY <1>2 DEF Sound
  <2> HIDE DEF blank, A
  <2> QED
    BY <1>2, <2>1, <2>2, MapTyped
<1>4. start \in Maps /\ Sound(start)
  BY <1>1, <1>3
<1>5. PICK f : f = start
  OBVIOUS
<1>6. PICK h : h = g
  OBVIOUS
<1>7. \A m \in D : f[m].weight \in Nat
  BY <1>4, <1>5, MapsTyped DEF MetricRow
<1>8. ASSUME NEW m \in D PROVE worth(m, f[m].weight) \in 0 .. f[m].weight
  <2> DEFINE w == f[m].weight
  <2>1. w \in Nat
    BY <1>7
  <2> HIDE DEF w
  <2>2. AutoValue(u, m, w) \in 0 .. w /\ (w * Max({days, 0})) \div 2 \in 0 .. w
    BY <2>1, AutoValueTyped, ShareOf
  <2>3. worth(m, w) \in 0 .. w
    BY <2>1, <2>2
  <2> HIDE DEF worth
  <2> QED
    BY <2>3 DEF w
<1>9. \A m \in D : \/ h[m] = f[m]
                   \/ \E v \in 0 .. f[m].weight : h[m] = Computed(f[m], v)
  <2> HIDE DEF worth
  <2> QED
    BY <1>5, <1>6, <1>8
<1>10. f \in Maps /\ Sound(f) /\ D = DOMAIN f /\ h = [m \in D |-> h[m]]
  BY <1>4, <1>5, <1>6
<1>11. h \in [D -> MetricRow] /\ Follows(h, f)
  BY ONLY <1>9, <1>10, ComputedFollows, SMTT(60)
<1>12. h \in Maps /\ Sound(h) /\ DOMAIN h = D
  BY ONLY <1>10, <1>11, FollowsTyped
<1>13. st \in {"none", "DRAFT", "COMPLETED"} /\ st # "none"
  BY <1>1 DEF Record
<1>14. Synced(u, days) = [status |-> st, metrics |-> h, final |-> Total(h), max |-> TotalWeight(h)]
  BY <1>6 DEF Synced
<1>15. \A m \in DOMAIN old : old[m].over => h[m].value = old[m].value
  BY <1>5, <1>11 DEF Follows
<1>16. D = IF DOMAIN old # {} THEN DOMAIN old ELSE A
  BY <1>3
<1>17. PICK new : new = [status |-> st, metrics |-> h, final |-> Total(h), max |-> TotalWeight(h)]
  OBVIOUS
<1>18. new.status = st /\ new.metrics = h
  BY <1>17
<1>19. new \in Record /\ Sound(new.metrics) /\ Valued(new)
  <2> HIDE DEF st
  <2> QED
    BY ONLY <1>12, <1>13, <1>17, BuiltRecord
<1>20. KeepsOverrides(new, record[u])
  BY <1>15, <1>18 DEF KeepsOverrides
<1>21. DOMAIN new.metrics = IF DOMAIN record[u].metrics # {} THEN DOMAIN record[u].metrics
                            ELSE ActiveOf(Configs)
  BY <1>12, <1>16, <1>18
<1>22. SyncedWell(new, u)
  BY <1>13, <1>18, <1>19, <1>20, <1>21 DEF SyncedWell
<1> QED
  BY <1>14, <1>17, <1>22

LEMMA SavedMetricRow ==
    ASSUME LeaveTypes, PmsTypes, NEW u \in Agents, NEW m, NEW w \in Nat,
           NEW typed \in Scores \cup {-1}, typed <= w
    PROVE  SavedMetric(u, m, w, typed) \in MetricRow /\ SavedMetric(u, m, w, typed).value <= w
           /\ SavedMetric(u, m, w, typed).weight = w
<1> DEFINE auto == IF Automatic(m) THEN AutoValue(u, m, w) ELSE -1
           value == IF typed # -1 THEN typed
                    ELSE IF Automatic(m) THEN auto ELSE ManualDefault(m, w)
           over == Automatic(m) /\ typed # -1 /\ typed # auto
<1>1. AutoValue(u, m, w) \in 0 .. w
  BY AutoValueTyped
<1>2. auto \in Int
  BY <1>1
<1>3. typed \in Int
  BY MetricAssumption
<1>4. ManualDefault(m, w) \in 0 .. w
  BY DEF ManualDefault
<1>5. value \in Int /\ value <= w
  BY <1>1, <1>3, <1>4
<1>6. over \in BOOLEAN
  OBVIOUS
<1>7. SavedMetric(u, m, w, typed) = [weight |-> w, auto |-> auto, value |-> value, over |-> over]
  BY DEF SavedMetric
<1> HIDE DEF auto, value, over
<1> QED
  BY <1>2, <1>5, <1>6, <1>7 DEF MetricRow

\* A save writes what was typed within the weights; its score is that of the
\* active metrics, which are all the metrics unless one was retired.
LEMMA SavedWell ==
    ASSUME LeaveTypes, PmsTypes, NEW u \in Agents, Sound(record[u].metrics),
           NEW typed \in Typed, NEW st \in {"DRAFT", "COMPLETED"},
           \A m \in ActiveOf(Configs) : typed[m] <= Configs[m].weight
    PROVE  LET new == SavedRecord(u, typed, st)
           IN /\ new \in Record /\ Sound(new.metrics) /\ new.status = st
              /\ DOMAIN new.metrics = ActiveOf(Configs) \cup DOMAIN record[u].metrics
              /\ DOMAIN record[u].metrics \subseteq ActiveOf(Configs) => Valued(new)
<1> DEFINE A == ActiveOf(Configs)
           old == record[u].metrics
           D == A \cup DOMAIN old
           fresh == [m \in A |-> SavedMetric(u, m, Configs[m].weight, typed[m])]
           g == [m \in D |-> IF m \in A THEN fresh[m] ELSE old[m]]
<1>1. A \subseteq Metric /\ \A m \in A : Configs[m].weight \in Nat /\ typed[m] \in Scores \cup {-1}
  BY ConfigsTyped DEF Typed
<1>2. old \in Maps /\ DOMAIN old \subseteq Metric /\ \A m \in DOMAIN old : old[m] \in MetricRow
  BY MapsTyped DEF PmsTypes, Record
<1>3. \A m \in A : fresh[m] \in MetricRow /\ fresh[m].value <= fresh[m].weight
  <2> SUFFICES ASSUME NEW m \in A PROVE fresh[m] \in MetricRow /\ fresh[m].value <= fresh[m].weight
    OBVIOUS
  <2> DEFINE w == Configs[m].weight
             t == typed[m]
  <2>1. w \in Nat /\ t \in Scores \cup {-1} /\ t <= w
    BY <1>1
  <2>2. fresh[m] = SavedMetric(u, m, w, t)
    OBVIOUS
  <2> HIDE DEF w, t
  <2>3. SavedMetric(u, m, w, t) \in MetricRow /\ SavedMetric(u, m, w, t).value <= w
        /\ SavedMetric(u, m, w, t).weight = w
    BY <2>1, SavedMetricRow
  <2> QED
    BY <2>2, <2>3
<1>4. PICK f : f = fresh
  OBVIOUS
<1>5. f \in [A -> MetricRow] /\ DOMAIN f = A /\ \A m \in A : f[m].value <= f[m].weight
  BY <1>3, <1>4
<1>6. f \in Maps /\ Sound(f)
  BY <1>1, <1>5, MapTyped DEF Sound
<1>7. PICK h : h = [m \in D |-> IF m \in A THEN f[m] ELSE old[m]]
  OBVIOUS
<1>8. h \in [D -> MetricRow] /\ DOMAIN h = D /\ D \subseteq Metric
  BY <1>1, <1>2, <1>5, <1>7
<1>9. h \in Maps
  BY <1>8, MapTyped
<1>10. Sound(h)
  BY <1>5, <1>7 DEF Sound
<1>11. Total(f) \in Int /\ TotalWeight(f) \in Int
  BY <1>6, TotalsTyped
<1>12. PICK t \in Int, w \in Int : t = Total(f) /\ w = TotalWeight(f)
  BY <1>11
<1>13. PICK new : new = [status |-> st, metrics |-> h, final |-> t, max |-> w]
  OBVIOUS
<1>14. SavedRecord(u, typed, st) = new
  BY <1>4, <1>7, <1>12, <1>13 DEF SavedRecord
<1>15. new.status = st /\ new.metrics = h /\ new.final = t /\ new.max = w
  BY <1>13
<1>16. new \in Record
  BY <1>9, <1>13 DEF Record
<1>17. ASSUME DOMAIN old \subseteq A PROVE Valued(new)
  <2>1. D = A
    BY <1>17
  <2>2. h = f
    BY <1>5, <1>7, <2>1
  <2> QED
    BY <1>12, <1>15, <2>2 DEF Valued
<1>18. DOMAIN new.metrics = D
  BY <1>8, <1>15
<1> QED
  BY <1>10, <1>14, <1>15, <1>16, <1>17, <1>18

----------------------------------------------------------------------------
(* The Employee of the Month.                                              *)

\* The choice c is the winner among these records, and a tie where they tie.
Chosen(records, c) ==
    LET top == Top(records)
    IN /\ c.selected = IF Cardinality(top) = 1 THEN CHOOSE u \in top : TRUE
                       ELSE IF c.selected \in top THEN c.selected ELSE Nobody
       /\ c.tie = (Cardinality(top) > 1)
       /\ c.tie => c.tied = top

LEMMA EomTruthIsChosen == EomTruth <=> (stale \/ Chosen(record, choice))
BY DEF EomTruth, Chosen, Winner

LEMMA RecalculatedChosen ==
    ASSUME NEW records, NEW old \in Choice
    PROVE  Recalculated(records, old) \in Choice /\ Chosen(records, Recalculated(records, old))
<1> DEFINE top == Top(records)
           n == Cardinality(top)
           new == Recalculated(records, old)
<1>1. top \subseteq Agents /\ IsFiniteSet(top)
  BY MetricAssumption, FS_Subset DEF Top, Completed
<1>2. n \in Nat /\ (n = 0 <=> top = {})
  BY <1>1, FS_CardinalityType, FS_EmptySet
<1>3. Nobody \notin top
  BY <1>1, MetricAssumption
<1>4. /\ old.exists \in BOOLEAN /\ old.tie \in BOOLEAN /\ old.tied \subseteq Agents
      /\ old.selected \in Agents \cup {Nobody}
  BY DEF Choice
<1>5. CASE top = {}
  <2>1. new = [old EXCEPT !.tie = FALSE, !.tied = {}, !.selected = Nobody]
    BY <1>5 DEF Recalculated
  <2>2. PICK c : c = [old EXCEPT !.tie = FALSE, !.tied = {}, !.selected = Nobody]
    OBVIOUS
  <2>3. c \in Choice /\ c.tie = FALSE /\ c.selected = Nobody
    BY <2>2 DEF Choice
  <2>4. n = 0
    BY <1>2, <1>5
  <2>5. Chosen(records, c)
    <3>1. c.selected = IF n = 1 THEN CHOOSE u \in top : TRUE
                       ELSE IF c.selected \in top THEN c.selected ELSE Nobody
      BY <1>5, <2>3, <2>4
    <3>2. ~(n > 1) /\ c.tie = FALSE
      BY <2>3, <2>4
    <3>3. c.tie \in BOOLEAN /\ ~c.tie
      BY <3>2
    <3>4. c.tie <=> (n > 1)
      BY <3>2, <3>3, Zenon
    <3>5. c.tie = (n > 1)
      BY <3>3, <3>4
    <3> QED
      BY <3>1, <3>3, <3>5 DEF Chosen
  <2> QED
    BY <2>1, <2>2, <2>3, <2>5
<1>6. CASE top # {} /\ n = 1
  <2> DEFINE best == CHOOSE u \in top : TRUE
  <2>1. best \in top
    BY <1>6
  <2>2. new = [exists |-> TRUE, tie |-> FALSE, tied |-> {}, selected |-> best]
    BY <1>6 DEF Recalculated
  <2>3. Chosen(records, new)
    <3>1. new.selected = best /\ new.tie = FALSE
      BY <2>2
    <3> HIDE DEF new
    <3>2. new.selected = IF n = 1 THEN best ELSE IF new.selected \in top THEN new.selected ELSE Nobody
      BY <1>6, <3>1
    <3>3. ~(n > 1)
      BY <1>6
    <3>4. new.tie \in BOOLEAN /\ ~new.tie
      BY <3>1
    <3>5. new.tie <=> (n > 1)
      BY <3>3, <3>4, Zenon
    <3>6. new.tie = (n > 1)
      BY <3>4, <3>5
    <3> QED
      BY <3>2, <3>4, <3>6 DEF Chosen
  <2>4. new \in Choice
    <3> HIDE DEF best, new, top
    <3> QED
      BY <1>1, <2>1, <2>2 DEF Choice
  <2> QED
    BY <2>3, <2>4
<1>7. CASE top # {} /\ n # 1
  <2> DEFINE pick == IF old.tie /\ old.selected \in top THEN old.selected ELSE Nobody
  <2>1. new = [exists |-> TRUE, tie |-> TRUE, tied |-> top, selected |-> pick]
    BY <1>7 DEF Recalculated
  <2>2. n > 1
    BY <1>2, <1>7
  <2>3. pick = IF pick \in top THEN pick ELSE Nobody
    BY <1>3
  <2>4. pick \in Agents \cup {Nobody}
    BY <1>4
  <2>5. new.selected = pick /\ new.tie = TRUE /\ new.tied = top
    BY <2>1
  <2> HIDE DEF pick
  <2>6. Chosen(records, new)
    <3>1. new.selected = IF n = 1 THEN CHOOSE u \in top : TRUE
                         ELSE IF new.selected \in top THEN new.selected ELSE Nobody
      BY <1>7, <2>3, <2>5
    <3>2. new.tie = (n > 1) /\ (new.tie => new.tied = top)
      BY <2>2, <2>5
    <3> HIDE DEF new
    <3> QED
      BY <3>1, <3>2 DEF Chosen
  <2>7. new \in Choice
    <3> HIDE DEF new, top
    <3> QED
      BY <1>1, <2>1, <2>4 DEF Choice
  <2> QED
    BY <2>6, <2>7
<1> QED
  BY <1>5, <1>6, <1>7

\* Records of the same statuses and scores have the same winners.
LEMMA TopOfScores ==
    ASSUME NEW records, NEW others,
           \A u \in Agents : /\ others[u].status = records[u].status
                             /\ others[u].final = records[u].final
    PROVE  Top(others) = Top(records)
<1>1. Completed(others) = Completed(records) /\ Completed(records) \subseteq Agents
  BY DEF Completed
<1> QED
  BY <1>1 DEF Top, Rounded

LEMMA ChosenOfScores ==
    ASSUME NEW records, NEW others, NEW c,
           \A u \in Agents : /\ others[u].status = records[u].status
                             /\ others[u].final = records[u].final,
           Chosen(records, c)
    PROVE  Chosen(others, c)
BY TopOfScores DEF Chosen

----------------------------------------------------------------------------
(* The inductive invariant of the scores: until a metric is retired every   *)
(* record, and the one a save is about to write, has the metrics of the     *)
(* configuration and their score; and a save that nothing overtook will     *)
(* leave the choice of the records it will leave.                           *)

Fits(r, c) == Valued(r) /\ DOMAIN r.metrics \subseteq DOMAIN c

Known ==
    ~retired => /\ \A m \in DOMAIN config : config[m].active
                /\ \A u \in Agents : Fits(record[u], config)
                /\ \A s \in saving : Fits(s.rec, config)

Pending ==
    \A s \in saving : ~s.overtaken =>
        /\ s.read = choice
        /\ s.choice = Recalculated([record EXCEPT ![s.user] = s.rec], choice)

\* Records that may stand: worth at most their weights, and empty where there is none.
Standing(r) == Sound(r.metrics) /\ (r.status = "none" => r = NoRecord)

ScoreInv ==
    /\ PmsTypes /\ Known /\ Pending /\ EomTruth
    /\ \A u \in Agents : Standing(record[u])
    /\ \A s \in saving : Standing(s.rec)

LEMMA NoRecordStands == NoRecord \in Record /\ Standing(NoRecord) /\ Valued(NoRecord)
                        /\ DOMAIN NoRecord.metrics = {}
<1>1. NoRecord.metrics = <<>> /\ DOMAIN NoRecord.metrics = {}
      /\ NoRecord.final = 0 /\ NoRecord.max = 0 /\ NoRecord.status = "none"
  BY DEF NoRecord
<1>2. <<>> \in Maps /\ DOMAIN <<>> = {}
  BY DEF Maps
<1>3. NoRecord \in Record
  BY <1>2 DEF NoRecord, Record
<1>4. Standing(NoRecord)
  BY <1>1 DEF Standing, Sound
<1>5. Total(<<>>) = 0 /\ TotalWeight(<<>>) = 0
  <2>1. \A f : SumOver(f, {}) = 0
    BY SumOverIs, SumOfNone
  <2>2. \A f : SumOver(f, DOMAIN <<>>) = 0
    BY <1>2, <2>1
  <2> QED
    BY <2>2 DEF Total, TotalWeight
<1> QED
  BY <1>1, <1>3, <1>4, <1>5 DEF Valued

LEMMA ScoreInit == PmsInit => ScoreInv
<1> SUFFICES ASSUME PmsInit PROVE ScoreInv
  OBVIOUS
<1>1. Defaults \in [Metric -> [weight : Nat, active : BOOLEAN]]
      /\ \A m \in DOMAIN Defaults : Defaults[m].active
  BY MetricAssumption DEF Defaults
<1>2. config \in Configurations
  BY <1>1 DEF PmsInit, Configurations
<1>3. choice \in Choice
  BY DEF PmsInit, NoChoice, Choice
<1>4. PmsTypes
  <2>1. record \in [Agents -> Record] /\ work \in [Agents -> -1 .. 2]
    BY NoRecordStands DEF PmsInit
  <2> QED
    BY <1>2, <1>3, <2>1 DEF PmsInit, PmsTypes
<1>5. Known
  BY <1>1, NoRecordStands DEF PmsInit, Known, Fits
<1>6. Pending /\ (\A u \in Agents : Standing(record[u])) /\ (\A s \in saving : Standing(s.rec))
  BY NoRecordStands DEF PmsInit, Pending
<1>7. EomTruth
  <2>1. Completed(record) = {}
    BY DEF PmsInit, Completed, NoRecord
  <2>2. Top(record) = {}
    BY <2>1 DEF Top
  <2>3. Cardinality(Top(record)) = 0
    BY <2>2, FS_EmptySet
  <2>4. choice.tie = FALSE /\ choice.selected = Nobody
    BY DEF PmsInit, NoChoice
  <2>5. ~(Cardinality(Top(record)) > 1) /\ Cardinality(Top(record)) # 1
    BY <2>3
  <2>6. choice.tie \in BOOLEAN /\ ~choice.tie
    BY <2>4
  <2>7. choice.tie <=> (Cardinality(Top(record)) > 1)
    BY <2>5, <2>6, Zenon
  <2>8. choice.tie = (Cardinality(Top(record)) > 1)
    BY <2>6, <2>7
  <2>9. choice.selected = Winner
    BY <2>2, <2>4, <2>5 DEF Winner
  <2> QED
    BY <2>6, <2>8, <2>9 DEF EomTruth
<1> QED
  BY <1>4, <1>5, <1>6, <1>7 DEF ScoreInv

----------------------------------------------------------------------------
\* A save that is overtaken stays what it was.
LEMMA SaveOvertaken ==
    ASSUME PmsTypes, saving' = {[s EXCEPT !.overtaken = TRUE] : s \in saving}
    PROVE  /\ saving' \subseteq Save
           /\ \A t \in saving' : t.overtaken /\ \E s \in saving : t.rec = s.rec
<1> SUFFICES ASSUME NEW t \in saving'
             PROVE  t \in Save /\ t.overtaken /\ \E s \in saving : t.rec = s.rec
  OBVIOUS
<1>1. PICK s \in saving : t = [s EXCEPT !.overtaken = TRUE]
  OBVIOUS
<1>2. s \in Save
  BY DEF PmsTypes
<1>3. t \in Save /\ t.overtaken = TRUE /\ t.rec = s.rec
  BY <1>1, <1>2 DEF Save
<1> QED
  BY <1>3

LEMMA ConfigsKnown ==
    ASSUME PmsTypes
    PROVE  /\ DOMAIN config \subseteq DOMAIN Configs
           /\ (\A m \in DOMAIN config : config[m].active)
              => /\ \A m \in DOMAIN Configs : Configs[m].active
                 /\ ActiveOf(Configs) = DOMAIN Configs
<1>1. DOMAIN Defaults = Metric /\ \A m \in Metric : Defaults[m].active
  BY DEF Defaults
<1>2. CASE DOMAIN config = {}
  <2>1. Configs = Defaults
    BY <1>2 DEF Configs
  <2> QED
    BY <1>1, <1>2, <2>1 DEF ActiveOf
<1>3. CASE DOMAIN config # {}
  <2>1. Configs = config
    BY <1>3 DEF Configs
  <2> QED
    BY <2>1 DEF ActiveOf
<1> QED
  BY <1>2, <1>3

\* What a record needs to be written while config' is the configuration.
Writable(r) ==
    /\ r \in Record /\ Standing(r)
    /\ ~retired => Fits(r, config')

\* Records that are written together with the choice made of them.
LEMMA RecalculateStep ==
    ASSUME ScoreInv, NEW records, Recalculate(records),
           config' \in {config, Configs}, work' \in [Agents -> -1 .. 2], retired' = retired,
           records = [u \in Agents |-> records[u]], \A u \in Agents : Writable(records[u])
    PROVE  ScoreInv'
<1>1. /\ record' = records /\ choice' = Recalculated(records, choice) /\ stale' = FALSE
      /\ saving' = {[s EXCEPT !.overtaken = TRUE] : s \in saving}
  BY DEF Recalculate
<1>2. PmsTypes /\ choice \in Choice
  BY DEF ScoreInv, PmsTypes
<1>3. choice' \in Choice /\ Chosen(record', choice')
  BY <1>1, <1>2, RecalculatedChosen
<1>4. saving' \subseteq Save /\ \A t \in saving' : t.overtaken /\ \E s \in saving : t.rec = s.rec
  BY <1>1, <1>2, SaveOvertaken
<1>5. record' \in [Agents -> Record]
  BY <1>1 DEF Writable
<1>6. config' \in Configurations /\ retired' \in BOOLEAN /\ stale' \in BOOLEAN
  BY <1>1, <1>2, ConfigsTyped DEF PmsTypes
<1>7. PmsTypes'
  BY <1>3, <1>4, <1>5, <1>6 DEF PmsTypes
<1>8. Known'
  <2> SUFFICES ASSUME ~retired
               PROVE  /\ \A m \in DOMAIN config' : config'[m].active
                      /\ \A u \in Agents : Fits(record'[u], config')
                      /\ \A s \in saving' : Fits(s.rec, config')
    BY DEF Known
  <2>1. /\ \A m \in DOMAIN config : config[m].active
        /\ \A s \in saving : Fits(s.rec, config)
    BY DEF ScoreInv, Known
  <2>2. DOMAIN config \subseteq DOMAIN config' /\ \A m \in DOMAIN config' : config'[m].active
    BY <1>2, <2>1, ConfigsKnown
  <2>3. \A u \in Agents : Fits(record'[u], config')
    BY <1>1 DEF Writable
  <2>4. \A s \in saving' : Fits(s.rec, config')
    BY <1>4, <2>1, <2>2 DEF Fits
  <2> QED
    BY <2>2, <2>3, <2>4
<1>9. Pending'
  BY <1>4 DEF Pending
<1>10. EomTruth'
  <2>1. Chosen(record, choice)'
    BY <1>3 DEF Chosen, Top, Completed
  <2>2. EomTruth' <=> (stale' \/ (Chosen(record, choice)'))
    BY EomTruthIsChosen DEF EomTruth, Chosen, Winner
  <2> QED
    BY <2>1, <2>2
<1>11. \A u \in Agents : Standing(record'[u])
  BY <1>1 DEF Writable
<1>12. \A s \in saving' : Standing(s.rec)
  BY <1>4 DEF ScoreInv
<1> QED
  BY <1>7, <1>8, <1>9, <1>10, <1>11, <1>12 DEF ScoreInv, Standing, Sound

\* The records there are, and those brought up to date, may be written.
LEMMA RecordsWritable ==
    ASSUME ScoreInv, config' \in {config, Configs}
    PROVE  \A u \in Agents : Writable(record[u])
<1>1. \A u \in Agents : record[u] \in Record
  BY DEF ScoreInv, PmsTypes
<1>2. DOMAIN config \subseteq DOMAIN config'
  BY ConfigsKnown DEF ScoreInv
<1> QED
  BY <1>1, <1>2 DEF ScoreInv, Known, Fits, Writable

LEMMA RevisedWritable ==
    ASSUME ScoreInv, config' \in {config, Configs}, NEW u \in Agents, NEW new,
           Revised(new, record[u]), record[u].status # "none"
    PROVE  Writable(new)
<1>1. ~retired => Fits(record[u], config')
  BY RecordsWritable DEF Writable
<1>2. ~retired => Fits(new, config')
  BY <1>1 DEF Fits, Valued, Revised
<1>3. new \in Record /\ Standing(new)
  BY DEF Revised, Standing
<1> QED
  BY <1>2, <1>3 DEF Writable

LEMMA SyncedWritable ==
    ASSUME LeaveTypes, ScoreInv, config' = Configs, NEW u \in Agents, NEW days \in -1 .. 2
    PROVE  Writable(Synced(u, days)) /\ KeepsOverrides(Synced(u, days), record[u])
<1>1. PmsTypes /\ Standing(record[u]) /\ Sound(record[u].metrics)
  BY DEF ScoreInv, Standing
<1>2. CASE record[u].status = "none" /\ days = -1
  <2>1. Synced(u, days) = NoRecord /\ record[u] = NoRecord
    BY <1>1, <1>2 DEF Synced, Standing
  <2>2. Writable(NoRecord)
    BY NoRecordStands DEF Writable, Fits
  <2>3. KeepsOverrides(NoRecord, NoRecord)
    BY DEF KeepsOverrides
  <2> QED
    BY <2>1, <2>2, <2>3
<1>3. CASE ~(record[u].status = "none" /\ days = -1)
  <2> DEFINE new == Synced(u, days)
  <2>1. SyncedWell(new, u)
    BY <1>1, <1>3, SyncedIsWell
  <2> HIDE DEF new
  <2>2. ASSUME ~retired PROVE DOMAIN new.metrics \subseteq DOMAIN config'
    <3>1. DOMAIN record[u].metrics \subseteq DOMAIN config'
      BY <2>2, RecordsWritable DEF Writable, Fits
    <3>2. ActiveOf(Configs) \subseteq DOMAIN config'
      BY <1>1, ConfigsTyped
    <3> QED
      BY <2>1, <3>1, <3>2 DEF SyncedWell
  <2>3. Writable(new) /\ KeepsOverrides(new, record[u])
    BY <2>1, <2>2 DEF SyncedWell, Writable, Fits, Standing
  <2> QED
    BY <2>3 DEF new
<1> QED
  BY <1>2, <1>3

KeptOverrides == \A u \in Agents : KeepsOverrides(record'[u], record[u])

\* One record written with the choice.
LEMMA OneRecalculated ==
    ASSUME ScoreInv, config' \in {config, Configs}, work' \in [Agents -> -1 .. 2],
           retired' = retired, NEW u \in Agents, NEW new,
           Recalculate([record EXCEPT ![u] = new]), Writable(new), KeepsOverrides(new, record[u])
    PROVE  ScoreInv' /\ KeptOverrides
<1>1. PICK records : records = [record EXCEPT ![u] = new]
  OBVIOUS
<1>2. record \in [Agents -> Record]
  BY DEF ScoreInv, PmsTypes
<1>3. /\ records = [v \in Agents |-> records[v]] /\ records[u] = new
      /\ \A v \in Agents : v # u => records[v] = record[v]
  BY <1>1, <1>2
<1>4. \A v \in Agents : Writable(records[v])
  BY <1>3, RecordsWritable
<1>5. Recalculate(records)
  BY <1>1
<1>6. ScoreInv'
  BY <1>3, <1>4, <1>5, RecalculateStep
<1>7. record' = records
  BY <1>5 DEF Recalculate
<1>8. \A v \in Agents : KeepsOverrides(record[v], record[v])
  BY DEF KeepsOverrides
<1>9. ASSUME NEW v \in Agents PROVE KeepsOverrides(record'[v], record[v])
  <2>1. CASE v = u
    BY <1>3, <1>7, <2>1
  <2>2. CASE v # u
    BY <1>3, <1>7, <1>8, <2>2
  <2> QED
    BY <2>1, <2>2
<1> QED
  BY <1>6, <1>9 DEF KeptOverrides

\* Steps that leave the records, the choice and the save under way alone.
LEMMA ConfigStep ==
    ASSUME ScoreInv, UNCHANGED <<record, choice, saving, stale>>,
           config' \in Configurations, work' \in [Agents -> -1 .. 2], retired' \in BOOLEAN,
           ~retired' => /\ ~retired /\ DOMAIN config \subseteq DOMAIN config'
                        /\ \A m \in DOMAIN config' : config'[m].active
    PROVE  ScoreInv' /\ KeptOverrides
<1>1. PmsTypes'
  BY DEF ScoreInv, PmsTypes
<1>2. Known'
  BY DEF ScoreInv, Known, Fits
<1>3. Pending'
  BY DEF ScoreInv, Pending
<1>4. EomTruth'
  BY DEF ScoreInv, EomTruth, Winner
<1>5. KeptOverrides
  BY DEF KeptOverrides, KeepsOverrides
<1> QED
  BY <1>1, <1>2, <1>3, <1>4, <1>5 DEF ScoreInv

LEMMA OnlyConfigs ==
    ASSUME ScoreInv, UNCHANGED <<record, choice, saving, stale, retired>>,
           config' \in {config, Configs}, work' \in [Agents -> -1 .. 2]
    PROVE  ScoreInv' /\ KeptOverrides
<1>1. PmsTypes
  BY DEF ScoreInv
<1>2. config' \in Configurations /\ retired' \in BOOLEAN
  BY <1>1, ConfigsTyped DEF PmsTypes
<1>3. ~retired' => /\ ~retired /\ DOMAIN config \subseteq DOMAIN config'
                   /\ \A m \in DOMAIN config' : config'[m].active
  BY <1>1, ConfigsKnown DEF ScoreInv, Known
<1> QED
  BY <1>2, <1>3, ConfigStep

LEMMA ScoreConfig ==
    ASSUME ScoreInv, ConfigSteps
    PROVE  ScoreInv' /\ KeptOverrides
<1>1. config \in Configurations /\ work \in [Agents -> -1 .. 2] /\ retired \in BOOLEAN
  BY DEF ScoreInv, PmsTypes
<1>2. PICK S \in SUBSET Metric : config \in [S -> [weight : Nat, active : BOOLEAN]]
  BY <1>1 DEF Configurations
<1>3. \A m \in S : config[m].weight \in Nat /\ config[m].active \in BOOLEAN
  BY <1>2
<1>4. PICK m \in Metric : \/ DeleteConfig(m)
                          \/ \E weight \in Weights : CreateConfig(m, weight)
                          \/ \E weight \in Weights, active \in BOOLEAN : UpdateConfig(m, weight, active)
  BY DEF ConfigSteps
<1>5. CASE DeleteConfig(m)
  <2>1. config' \in [S \ {m} -> [weight : Nat, active : BOOLEAN]]
    BY <1>2, <1>5 DEF DeleteConfig
  <2>2. config' \in Configurations
    BY <2>1 DEF Configurations
  <2> QED
    BY <1>1, <1>5, <2>2, ConfigStep DEF DeleteConfig
<1>6. ASSUME NEW weight \in Weights, CreateConfig(m, weight) PROVE ScoreInv' /\ KeptOverrides
  <2>1. weight \in Nat
    BY MetricAssumption
  <2>2. config' \in [S \cup {m} -> [weight : Nat, active : BOOLEAN]]
    BY <1>2, <1>6, <2>1 DEF CreateConfig
  <2>3. config' \in Configurations
    BY <2>2 DEF Configurations
  <2>4. ~retired => \A k \in DOMAIN config' : config'[k].active
    BY <1>2, <1>6 DEF CreateConfig, ScoreInv, Known
  <2>5. DOMAIN config \subseteq DOMAIN config' /\ retired' = retired
    BY <1>2, <1>6, <2>2 DEF CreateConfig
  <2> QED
    BY <1>1, <1>6, <2>3, <2>4, <2>5, ConfigStep DEF CreateConfig
<1>7. ASSUME NEW weight \in Weights, NEW active \in BOOLEAN, UpdateConfig(m, weight, active)
      PROVE  ScoreInv' /\ KeptOverrides
  <2>1. weight \in Nat
    BY MetricAssumption
  <2>2. config' \in [S -> [weight : Nat, active : BOOLEAN]]
    BY <1>2, <1>7, <2>1 DEF UpdateConfig
  <2>3. config' \in Configurations
    BY <2>2 DEF Configurations
  <2>4. ~retired' => ~retired /\ active
    BY <1>7 DEF UpdateConfig
  <2>5. DOMAIN config' = S /\ DOMAIN config = S /\ retired' \in BOOLEAN
    BY <1>1, <1>2, <1>7, <2>2 DEF UpdateConfig
  <2>6. ~retired' => \A k \in DOMAIN config' : config'[k].active
    <3>1. \A k \in S : config'[k] = IF k = m THEN [weight |-> weight, active |-> active] ELSE config[k]
      BY <1>2, <1>7 DEF UpdateConfig
    <3>2. ~retired => \A k \in S : config[k].active
      BY <2>5 DEF ScoreInv, Known
    <3> QED
      BY <2>4, <2>5, <3>1, <3>2
  <2> QED
    BY <1>1, <1>7, <2>3, <2>4, <2>5, <2>6, ConfigStep DEF UpdateConfig
<1> QED
  BY <1>4, <1>5, <1>6, <1>7

LEMMA ScoreEnterDays ==
    ASSUME LeaveTypes, ScoreInv, NEW u \in Agents, NEW days \in Shares, EnterDays(u, days)
    PROVE  ScoreInv' /\ KeptOverrides
<1>1. days \in -1 .. 2
  BY MetricAssumption
<1>2. work' \in [Agents -> -1 .. 2] /\ config' = Configs /\ retired' = retired
  BY <1>1 DEF EnterDays, ScoreInv, PmsTypes
<1>3. Recalculate([record EXCEPT ![u] = Synced(u, days)])
  BY DEF EnterDays
<1>4. Writable(Synced(u, days)) /\ KeepsOverrides(Synced(u, days), record[u])
  BY <1>1, <1>2, SyncedWritable
<1> QED
  BY <1>2, <1>3, <1>4, OneRecalculated

LEMMA ScoreView ==
    ASSUME LeaveTypes, ScoreInv, NEW u \in Agents, ViewRecord(u)
    PROVE  ScoreInv' /\ KeptOverrides
<1> DEFINE new == Synced(u, work[u])
<1>1. work' \in [Agents -> -1 .. 2] /\ work[u] \in -1 .. 2 /\ config' = Configs /\ retired' = retired
  BY DEF ViewRecord, ScoreInv, PmsTypes
<1>2. CASE new.status = "none"
  <2>1. UNCHANGED <<record, choice, stale, saving>>
    BY <1>2 DEF ViewRecord
  <2> QED
    BY <1>1, <2>1, OnlyConfigs
<1>3. CASE new.status # "none"
  <2>1. Recalculate([record EXCEPT ![u] = new])
    BY <1>3 DEF ViewRecord
  <2>2. Writable(new) /\ KeepsOverrides(new, record[u])
    BY <1>1, SyncedWritable
  <2> HIDE DEF new
  <2> QED
    BY <1>1, <2>1, <2>2, OneRecalculated
<1> QED
  BY <1>2, <1>3

LEMMA ScoreTable ==
    ASSUME LeaveTypes, ScoreInv, MonthlyTable
    PROVE  ScoreInv' /\ KeptOverrides
<1> DEFINE records == [u \in Agents |-> Synced(u, work[u])]
<1>1. work' \in [Agents -> -1 .. 2] /\ config' = Configs /\ retired' = retired
      /\ \A u \in Agents : work[u] \in -1 .. 2
  BY DEF MonthlyTable, ScoreInv, PmsTypes
<1>2. \A u \in Agents : Writable(records[u]) /\ KeepsOverrides(records[u], record[u])
  BY <1>1, SyncedWritable
<1>3. Recalculate(records)
  BY DEF MonthlyTable
<1>4. records = [u \in Agents |-> records[u]]
  OBVIOUS
<1> HIDE DEF records
<1>5. ScoreInv'
  BY <1>1, <1>2, <1>3, <1>4, RecalculateStep
<1>6. record' = records
  BY <1>3 DEF Recalculate
<1> QED
  BY <1>2, <1>5, <1>6 DEF KeptOverrides

LEMMA ScoreLeave ==
    ASSUME LeaveTypes, ScoreInv, NEW u \in Agents, NEW table \in Seq(LedgerRow), NEW count \in Int,
           LeaveImpact(u, table, count)
    PROVE  ScoreInv' /\ KeptOverrides
<1> DEFINE new == Impacted(u, table, count)
<1>1. UNCHANGED <<config, work, retired>> /\ work \in [Agents -> -1 .. 2]
      /\ \/ record[u].status # "none" /\ Recalculate([record EXCEPT ![u] = new])
         \/ UNCHANGED <<record, choice, stale, saving>>
  BY DEF LeaveImpact, ScoreInv, PmsTypes
<1>2. CASE UNCHANGED <<record, choice, stale, saving>>
  BY <1>1, <1>2, OnlyConfigs
<1>3. CASE record[u].status # "none" /\ Recalculate([record EXCEPT ![u] = new])
  <2>1. Revised(new, record[u])
    BY ImpactedRevised DEF ScoreInv, Standing
  <2> HIDE DEF new
  <2>2. Writable(new) /\ KeepsOverrides(new, record[u])
    BY <1>1, <1>3, <2>1, RevisedWritable DEF Revised
  <2> QED
    BY <1>1, <1>3, <2>2, OneRecalculated
<1> QED
  BY <1>1, <1>2, <1>3

\* A refresh leaves the choice alone: it stands where no score changed.
LEMMA ScoreRefresh ==
    ASSUME LeaveTypes, ScoreInv, NEW u \in Agents, RefreshAuto(u)
    PROVE  ScoreInv' /\ KeptOverrides
<1>1. PICK new : new = Refreshed(u)
  OBVIOUS
<1>2. /\ record[u].status # "none" /\ record' = [record EXCEPT ![u] = new]
      /\ stale' = (stale \/ record'[u].final # record[u].final)
      /\ saving' = {[s EXCEPT !.overtaken = TRUE] : s \in saving}
      /\ UNCHANGED <<config, work, choice, retired>>
  BY <1>1 DEF RefreshAuto
<1>3. PmsTypes /\ Sound(record[u].metrics)
  BY DEF ScoreInv, Standing
<1>4. Revised(new, record[u])
  BY <1>1, <1>3, RefreshedRevised
<1>5. \A v \in Agents : Writable(record[v])
  BY <1>2, RecordsWritable
<1>6. Writable(new) /\ KeepsOverrides(new, record[u])
  BY <1>2, <1>4, RevisedWritable DEF Revised
<1>7. \A v \in Agents : record'[v] = IF v = u THEN new ELSE record[v]
  BY <1>2, <1>3 DEF PmsTypes
<1>8. \A v \in Agents : Writable(record'[v])
  BY <1>5, <1>6, <1>7
<1>9. saving' \subseteq Save /\ \A t \in saving' : t.overtaken /\ \E s \in saving : t.rec = s.rec
  BY <1>2, <1>3, SaveOvertaken
<1>10. PmsTypes'
  <2>1. record' \in [Agents -> Record]
    BY <1>2, <1>3, <1>6 DEF PmsTypes, Writable
  <2>2. stale' \in BOOLEAN
    BY <1>2
  <2> QED
    BY <1>2, <1>3, <1>9, <2>1, <2>2 DEF PmsTypes
<1>11. Known'
  BY <1>2, <1>8, <1>9 DEF ScoreInv, Known, Writable
<1>12. Pending'
  BY <1>9 DEF Pending
<1>13. EomTruth'
  <2>1. CASE record'[u].final # record[u].final
    BY <1>2, <2>1 DEF EomTruth
  <2>2. CASE record'[u].final = record[u].final
    <3>1. \A v \in Agents : /\ record'[v].status = record[v].status
                            /\ record'[v].final = record[v].final
      BY <1>4, <1>7, <2>2 DEF Revised
    <3>2. stale \/ Chosen(record, choice)
      BY EomTruthIsChosen DEF ScoreInv
    <3>3. Chosen(record, choice) => Chosen(record', choice)
      BY <3>1, ChosenOfScores
    <3>4. stale' \/ Chosen(record', choice')
      BY <1>2, <3>2, <3>3
    <3> QED
      BY <3>4 DEF EomTruth, Chosen, Winner
  <2> QED
    BY <2>1, <2>2
<1>14. KeptOverrides
  <2>1. \A v \in Agents : KeepsOverrides(record[v], record[v])
    BY DEF KeepsOverrides
  <2> QED
    BY <1>6, <1>7, <2>1 DEF KeptOverrides
<1> QED
  BY <1>8, <1>9, <1>10, <1>11, <1>12, <1>13, <1>14 DEF ScoreInv, Writable

\* An admin resolves a tie for one of the tied.
LEMMA ScoreResolve ==
    ASSUME ScoreInv, NEW u \in Agents, Resolve(u)
    PROVE  ScoreInv' /\ KeptOverrides
<1>1. /\ choice.tie /\ u \in choice.tied /\ choice' = [choice EXCEPT !.selected = u]
      /\ saving' = {[s EXCEPT !.overtaken = TRUE] : s \in saving}
      /\ UNCHANGED <<config, work, record, stale, retired>>
  BY DEF Resolve
<1>2. PmsTypes
  BY DEF ScoreInv
<1>3. choice' \in Choice /\ choice'.selected = u /\ choice'.tie = choice.tie
      /\ choice'.tied = choice.tied
  BY <1>1, <1>2 DEF PmsTypes, Choice
<1>4. saving' \subseteq Save /\ \A t \in saving' : t.overtaken /\ \E s \in saving : t.rec = s.rec
  BY <1>1, <1>2, SaveOvertaken
<1>5. PmsTypes'
  BY <1>1, <1>2, <1>3, <1>4 DEF PmsTypes
<1>6. Known'
  BY <1>1, <1>4 DEF ScoreInv, Known
<1>7. Pending'
  BY <1>4 DEF Pending
<1>8. EomTruth'
  <2>1. CASE stale
    BY <1>1, <2>1 DEF EomTruth
  <2>2. CASE ~stale
    <3> DEFINE n == Cardinality(Top(record))
    <3>1. choice.tie = (n > 1) /\ choice.tied = Top(record)
      BY <1>1, <2>2 DEF ScoreInv, EomTruth
    <3>2. n > 1
      BY <1>1, <3>1
    <3>3. n # 1
      BY <3>2
    <3>4. Top(record)' = Top(record)
      BY <1>1 DEF Top, Completed
    <3>5. Winner' = u
      BY <1>1, <1>3, <3>1, <3>3, <3>4 DEF Winner
    <3>6. choice'.tie = (n > 1)
      BY <1>3, <3>1
    <3> QED
      BY <1>3, <3>1, <3>4, <3>5, <3>6 DEF EomTruth
  <2> QED
    BY <2>1, <2>2
<1>9. KeptOverrides
  BY <1>1 DEF KeptOverrides, KeepsOverrides
<1> QED
  BY <1>1, <1>4, <1>5, <1>6, <1>7, <1>8, <1>9 DEF ScoreInv

\* A save reads and computes.
LEMMA ScoreSaveBegin ==
    ASSUME LeaveTypes, ScoreInv, NEW u \in Agents, NEW typed \in Typed,
           NEW st \in {"DRAFT", "COMPLETED"}, SaveBegin(u, typed, st)
    PROVE  ScoreInv' /\ KeptOverrides
<1>1. PmsTypes /\ Sound(record[u].metrics)
  BY DEF ScoreInv, Standing
<1>2. PICK new : new = SavedRecord(u, typed, st)
  OBVIOUS
<1>3. PICK s : s = [user |-> u, rec |-> new, read |-> choice, overtaken |-> FALSE,
                    choice |-> Recalculated([record EXCEPT ![u] = new], choice)]
  OBVIOUS
<1>4. /\ saving' = {s} /\ config' = Configs
      /\ UNCHANGED <<work, record, choice, stale, retired>>
      /\ \A m \in ActiveOf(Configs) : typed[m] <= Configs[m].weight
  BY <1>2, <1>3 DEF SaveBegin
<1>5. /\ new \in Record /\ Sound(new.metrics) /\ new.status = st
      /\ DOMAIN new.metrics = ActiveOf(Configs) \cup DOMAIN record[u].metrics
      /\ DOMAIN record[u].metrics \subseteq ActiveOf(Configs) => Valued(new)
  BY <1>1, <1>2, <1>4, SavedWell
<1>6. choice \in Choice
  BY <1>1 DEF PmsTypes
<1>7. Recalculated([record EXCEPT ![u] = new], choice) \in Choice
  BY <1>6, RecalculatedChosen
<1>8. s \in Save /\ s.user = u /\ s.rec = new /\ s.read = choice
      /\ s.choice = Recalculated([record EXCEPT ![u] = new], choice)
  BY <1>3, <1>5, <1>6, <1>7 DEF Save
<1>9. PmsTypes'
  BY <1>1, <1>4, <1>8, ConfigsTyped DEF PmsTypes
<1>10. ASSUME ~retired PROVE Fits(new, config')
  <2>1. \A m \in DOMAIN config : config[m].active
    BY <1>10 DEF ScoreInv, Known
  <2>2. ActiveOf(Configs) = DOMAIN config'
    BY <1>1, <1>4, <2>1, ConfigsKnown
  <2>3. DOMAIN record[u].metrics \subseteq DOMAIN config'
    BY <1>4, <1>10, RecordsWritable DEF Writable, Fits
  <2> QED
    BY <1>5, <2>2, <2>3 DEF Fits
<1>11. Known'
  <2> SUFFICES ASSUME ~retired
               PROVE  /\ \A m \in DOMAIN config' : config'[m].active
                      /\ \A v \in Agents : Fits(record[v], config')
                      /\ \A t \in saving' : Fits(t.rec, config')
    BY <1>4 DEF Known
  <2>1. \A m \in DOMAIN config' : config'[m].active
    BY <1>1, <1>4, ConfigsKnown DEF ScoreInv, Known
  <2>2. \A v \in Agents : Fits(record[v], config')
    BY <1>4, RecordsWritable DEF Writable
  <2> QED
    BY <1>4, <1>8, <1>10, <2>1, <2>2
<1>12. Pending'
  BY <1>4, <1>8 DEF Pending
<1>13. EomTruth'
  BY <1>4 DEF ScoreInv, EomTruth, Winner
<1>14. KeptOverrides
  BY <1>4 DEF KeptOverrides, KeepsOverrides
<1>15. Standing(new)
  BY <1>5 DEF Standing
<1> QED
  BY <1>4, <1>8, <1>9, <1>11, <1>12, <1>13, <1>14, <1>15 DEF ScoreInv

\* What a save that nothing overtook commits is what it computed.
LEMMA ScoreSaveCommit ==
    ASSUME ScoreInv, NEW s \in saving, SaveCommit(s)
    PROVE  ScoreInv'
<1>1. PmsTypes /\ s \in Save /\ choice \in Choice
  BY DEF ScoreInv, PmsTypes
<1>2. saving' = {} /\ UNCHANGED <<config, work, retired>>
  BY DEF SaveCommit
<1>3. CASE s.choice.exists /\ ~s.read.exists /\ choice.exists
  <2>1. UNCHANGED <<record, choice, stale>>
    BY <1>3 DEF SaveCommit
  <2>2. PmsTypes' /\ Known' /\ Pending'
    BY <1>1, <1>2, <2>1 DEF ScoreInv, PmsTypes, Known, Pending
  <2>3. EomTruth'
    BY <2>1 DEF ScoreInv, EomTruth, Winner
  <2> QED
    BY <1>2, <2>1, <2>2, <2>3 DEF ScoreInv
<1>4. CASE ~(s.choice.exists /\ ~s.read.exists /\ choice.exists)
  <2>1. /\ record' = [record EXCEPT ![s.user] = s.rec]
        /\ choice' = [f \in DOMAIN choice |->
                        IF s.choice[f] # s.read[f] THEN s.choice[f] ELSE choice[f]]
        /\ stale' = s.overtaken
    BY <1>4 DEF SaveCommit
  <2>2. s.user \in Agents /\ s.rec \in Record /\ s.read \in Choice /\ s.choice \in Choice
        /\ s.overtaken \in BOOLEAN
    BY <1>1 DEF Save
  <2>3. \A v \in Agents : record'[v] = IF v = s.user THEN s.rec ELSE record[v]
    BY <1>1, <2>1, <2>2 DEF PmsTypes
  <2>4. record' \in [Agents -> Record]
    BY <1>1, <2>1, <2>2 DEF PmsTypes
  <2>5. choice' = [exists |-> IF s.choice.exists # s.read.exists THEN s.choice.exists ELSE choice.exists,
                   tie |-> IF s.choice.tie # s.read.tie THEN s.choice.tie ELSE choice.tie,
                   tied |-> IF s.choice.tied # s.read.tied THEN s.choice.tied ELSE choice.tied,
                   selected |-> IF s.choice.selected # s.read.selected THEN s.choice.selected
                                ELSE choice.selected]
    BY <1>1, <2>1 DEF Choice
  <2>6. choice' \in Choice
    BY <1>1, <2>2, <2>5 DEF Choice
  <2>7. ~s.overtaken => choice' = s.choice
    <3> SUFFICES ASSUME ~s.overtaken PROVE choice' = s.choice
      OBVIOUS
    <3>1. s.read = choice
      BY DEF ScoreInv, Pending
    <3> QED
      BY <2>2, <2>5, <3>1 DEF Choice
  <2>8. PmsTypes'
    BY <1>1, <1>2, <2>1, <2>2, <2>4, <2>6 DEF PmsTypes
  <2>9. Known'
    BY <1>2, <2>3 DEF ScoreInv, Known
  <2>10. Pending'
    BY <1>2 DEF Pending
  <2>11. EomTruth'
    <3>1. CASE s.overtaken
      BY <2>1, <3>1 DEF EomTruth
    <3>2. CASE ~s.overtaken
      <4>1. s.choice = Recalculated(record', choice)
        BY <2>1, <3>2 DEF ScoreInv, Pending
      <4>2. Chosen(record', choice')
        BY <1>1, <2>7, <3>2, <4>1, RecalculatedChosen
      <4> QED
        BY <4>2 DEF EomTruth, Chosen, Winner
    <3> QED
      BY <2>2, <3>1, <3>2
  <2> QED
    BY <1>2, <2>3, <2>8, <2>9, <2>10, <2>11 DEF ScoreInv
<1> QED
  BY <1>3, <1>4

----------------------------------------------------------------------------
pmsAll == <<leaveVars, pmsVars>>

\* The overrides stand in every step but the commit of a save.
LEMMA ScoreStep ==
    ASSUME LeaveTypes, LeaveTypes', ScoreInv, [PmsNext]_pmsAll
    PROVE  ScoreInv' /\ (KeptOverrides \/ (saving # {} /\ saving' = {}))
<1>1. ASSUME UNCHANGED pmsVars PROVE ScoreInv' /\ KeptOverrides
  <2>1. work \in [Agents -> -1 .. 2] /\ work' = work /\ config' = config
    BY <1>1 DEF pmsVars, ScoreInv, PmsTypes
  <2>2. UNCHANGED <<record, choice, saving, stale, retired>>
    BY <1>1 DEF pmsVars
  <2> QED
    BY <2>1, <2>2, OnlyConfigs
<1>2. CASE LeaveSteps(Req) \/ PolicySteps
  BY <1>1, <1>2 DEF LeaveSteps, PolicySteps
<1>3. CASE LeaveApplied(Req, Agents)
  <2>1. ASSUME NEW r \in Req, ApproveAndApply(r) PROVE ScoreInv' /\ KeptOverrides
    <3> DEFINE u == Form[r].user
    <3>1. u \in Agents /\ ledger'[u] \in Seq(LedgerRow) /\ adh[u] \in Int
      BY FormAssumption DEF LeaveTypes
    <3>2. LeaveImpact(u, ledger'[u], adh[u])
      BY <2>1 DEF ApproveAndApply
    <3> HIDE DEF u
    <3> QED
      BY <3>1, <3>2, ScoreLeave
  <2>2. ASSUME NEW u \in Agents, NEW halves \in Carries, CarryAndApply(u, halves)
        PROVE  ScoreInv' /\ KeptOverrides
    <3>1. ledger[u] \in Seq(LedgerRow) /\ adh[u] \in Int
      BY DEF LeaveTypes
    <3>2. LeaveImpact(u, ledger[u], adh[u])
      BY <2>2 DEF CarryAndApply
    <3> QED
      BY <3>1, <3>2, ScoreLeave
  <2>3. ASSUME NEW u \in Agents, NEW totals \in Totals, TotalsAndApply(u, totals)
        PROVE  ScoreInv' /\ KeptOverrides
    <3> DEFINE table == IF ledger[u] = <<>> THEN <<>> ELSE ledger'[u]
               count == IF adh[u] = -1 THEN -1 ELSE adh'[u]
    <3>1. ledger'[u] \in Seq(LedgerRow) /\ adh'[u] \in Int /\ <<>> \in Seq(LedgerRow)
      BY DEF LeaveTypes
    <3>2. table \in Seq(LedgerRow) /\ count \in Int
      BY <3>1
    <3>3. LeaveImpact(u, table, count)
      BY <2>3 DEF TotalsAndApply
    <3> HIDE DEF table, count
    <3> QED
      BY <3>2, <3>3, ScoreLeave
  <2> QED
    BY <1>3, <2>1, <2>2, <2>3 DEF LeaveApplied
<1>4. CASE ScoreSteps(Agents)
  <2>1. ASSUME NEW s \in saving, SaveCommit(s) PROVE ScoreInv' /\ saving # {} /\ saving' = {}
    BY <2>1, ScoreSaveCommit DEF SaveCommit
  <2>2. ASSUME NEW u \in Agents, NEW typed \in Typed, NEW st \in {"DRAFT", "COMPLETED"},
               SaveBegin(u, typed, st)
        PROVE  ScoreInv' /\ KeptOverrides
    BY <2>2, ScoreSaveBegin
  <2>3. ASSUME NEW u \in Agents, NEW days \in Shares, EnterDays(u, days)
        PROVE  ScoreInv' /\ KeptOverrides
    BY <2>3, ScoreEnterDays
  <2>4. ASSUME NEW u \in Agents, ViewRecord(u) \/ RefreshAuto(u) \/ Resolve(u)
        PROVE  ScoreInv' /\ KeptOverrides
    BY <2>4, ScoreView, ScoreRefresh, ScoreResolve
  <2>5. CASE MonthlyTable
    BY <2>5, ScoreTable
  <2> QED
    BY <1>4, <2>1, <2>2, <2>3, <2>4, <2>5 DEF ScoreSteps
<1>5. CASE ConfigSteps
  BY <1>5, ScoreConfig
<1>6. CASE UNCHANGED pmsAll
  BY <1>1, <1>6 DEF pmsAll
<1> QED
  BY <1>2, <1>3, <1>4, <1>5, <1>6 DEF PmsNext

LEMMA ScoreInvSums == ScoreInv => ScoreIsSum
<1> SUFFICES ASSUME ScoreInv, ~retired, NEW u \in Agents
             PROVE  LET r == record[u]
                    IN /\ r.final = Total(r.metrics) /\ r.max = TotalWeight(r.metrics)
                       /\ r.final <= r.max
                       /\ \A m \in DOMAIN r.metrics : r.metrics[m].value <= r.metrics[m].weight
  BY DEF ScoreIsSum
<1>1. record[u].metrics \in Maps /\ Sound(record[u].metrics) /\ Valued(record[u])
  BY DEF ScoreInv, PmsTypes, Record, Known, Fits, Standing
<1>2. Total(record[u].metrics) <= TotalWeight(record[u].metrics)
  BY <1>1, TotalsTyped
<1> QED
  BY <1>1, <1>2 DEF Valued, Sound

THEOREM ScoresInvariant == PmsSpec => [](LeaveTypes /\ ScoreInv)
<1>1. LeaveInit /\ PmsInit => LeaveTypes /\ ScoreInv
  BY LeaveTypesInit, ScoreInit
<1>2. LeaveTypes /\ ScoreInv /\ [PmsNext]_pmsAll => (LeaveTypes /\ ScoreInv)'
  BY LeaveTypesNext, ScoreStep, ScoresStepLeave DEF pmsAll
<1> QED
  BY <1>1, <1>2, PTL DEF PmsSpec, pmsAll

\* The score of a record is the sum of its metrics and at most its maximum.
THEOREM ScoresAreSums == PmsSpec => []ScoreIsSum
<1>1. ScoreInv => ScoreIsSum
  BY ScoreInvSums
<1> QED
  BY <1>1, ScoresInvariant, PTL

\* The stored Employee of the Month is the winner that is shown.
THEOREM ChoiceIsWinner == PmsSpec => []EomTruth
<1>1. ScoreInv => EomTruth
  BY DEF ScoreInv
<1> QED
  BY <1>1, ScoresInvariant, PTL

\* After every step of the records the scores are sums and the winner the best
\* of them, and a typed score outlasts whatever is computed beside it.
THEOREM ScoresStayTrue == PmsSpec => ScoresTrue
<1>1. ScoreInv' => (UNCHANGED <<record, choice, stale, retired>> \/ (ScoreIsSum' /\ EomTruth'))
  <2>1. ScoreInv => ScoreIsSum /\ EomTruth
    BY ScoreInvSums DEF ScoreInv
  <2> QED
    BY <2>1, PTL
<1>2. ASSUME LeaveTypes, LeaveTypes', ScoreInv, [PmsNext]_pmsAll
      PROVE  [\A u \in Agents : \A m \in DOMAIN record[u].metrics :
                record[u].metrics[m].over /\ (saving' # {} \/ saving = {})
                    => record'[u].metrics[m].value = record[u].metrics[m].value]_<<record, saving>>
  BY <1>2, ScoreStep DEF KeptOverrides, KeepsOverrides
<1> QED
  BY <1>1, <1>2, ScoresInvariant, PTL DEF ScoresTrue, OverridesStand, PmsSpec, pmsAll

----------------------------------------------------------------------------
(* Tasks: the weights of an agent.                                         *)
LEMMA WeightOverIs == \A f, S : WeightOver(f, S) = Sum(f, S)
BY DEF WeightOver, Sum

AssignmentRow == [user : Agent, sub : Subtask, kid : SubSubtask \cup {Whole}, weight : Int,
                  from : Nat, to : Int, status : Statuses]

TaskTypes ==
    /\ DOMAIN subtasks \subseteq Subtask /\ IsFiniteSet(DOMAIN subtasks)
    /\ DOMAIN children \subseteq SubSubtask /\ IsFiniteSet(DOMAIN children)
    /\ IsFiniteSet(DOMAIN rows) /\ \A r \in DOMAIN rows : rows[r] \in AssignmentRow
    /\ lastBulk \in [Agent -> [set : BOOLEAN, day : Nat, total : Int]]

\* The part of a subtask's weight that each of its targets gets.
LEMMA ShareInt == ASSUME NEW w \in Nat, NEW n \in Nat \ {0}, NEW up \in BOOLEAN PROVE Share(w, n, up) \in Int
<1>1. w \div n \in Int
  OBVIOUS
<1> QED
  BY <1>1 DEF Share

\* The targets of a set of subtasks are finitely many.
LEMMA TargetsFinite ==
    ASSUME TaskTypes, NEW ss \in SUBSET DOMAIN subtasks
    PROVE  /\ IsFiniteSet(ss) /\ IsFiniteSet(TargetsOf(ss))
           /\ TargetsOf(ss) \subseteq ss \X (SubSubtask \cup {Whole})
<1> DEFINE kids == DOMAIN children \cup {Whole}
<1>1. IsFiniteSet(ss) /\ IsFiniteSet(kids)
  BY FS_Subset, FS_AddElement DEF TaskTypes
<1>2. IsFiniteSet(ss \X kids)
  <2> HIDE DEF kids
  <2> QED
    BY <1>1, FS_Product
<1>3. TargetsOf(ss) \subseteq ss \X kids
  BY DEF TargetsOf, ActiveChildren
<1>4. kids \subseteq SubSubtask \cup {Whole}
  BY DEF TaskTypes
<1>5. IsFiniteSet(TargetsOf(ss))
  <2> HIDE DEF kids
  <2> QED
    BY <1>2, <1>3, FS_Subset
<1> QED
  BY <1>1, <1>3, <1>4, <1>5

\* The target of a subtask is the subtask itself, or its active children.
LEMMA TargetsAre ==
    ASSUME TaskTypes, NEW ss \in SUBSET DOMAIN subtasks, NEW s \in ss
    PROVE  /\ ActiveChildren(s) = {} => {key \in TargetsOf(ss) : key[1] = s} = {<<s, Whole>>}
           /\ ActiveChildren(s) # {} =>
                {key \in TargetsOf(ss) : key[1] = s} = {<<s, k>> : k \in ActiveChildren(s)}
           /\ Whole \notin ActiveChildren(s)
<1>1. \A key \in TargetsOf(ss) : \E t \in ss :
         key \in IF ActiveChildren(t) = {} THEN {<<t, Whole>>} ELSE {t} \X ActiveChildren(t)
  BY DEF TargetsOf
<1>2. \A key : key \in (IF ActiveChildren(s) = {} THEN {<<s, Whole>>} ELSE {s} \X ActiveChildren(s))
               => key \in TargetsOf(ss)
  BY DEF TargetsOf
<1>3. Whole \notin ActiveChildren(s)
  BY TaskAssumption DEF TaskTypes, ActiveChildren
<1> HIDE DEF ActiveChildren, TargetsOf
<1>4. ASSUME ActiveChildren(s) = {} PROVE {key \in TargetsOf(ss) : key[1] = s} = {<<s, Whole>>}
  BY <1>1, <1>2, <1>4
<1>5. ASSUME ActiveChildren(s) # {}
      PROVE  {key \in TargetsOf(ss) : key[1] = s} = {<<s, k>> : k \in ActiveChildren(s)}
  BY <1>1, <1>2, <1>5
<1> QED
  BY <1>3, <1>4, <1>5

\* What the targets get adds up to what the admin typed.
LEMMA DistributedAddsUp ==
    ASSUME TaskTypes, NEW ss \in SUBSET DOMAIN subtasks,
           NEW weightOf \in [ss -> Amounts], NEW up \in BOOLEAN, NEW lastChild,
           \A s \in ss : ActiveChildren(s) # {} => lastChild[s] \in ActiveChildren(s)
    PROVE  LET weights == Distributed(weightOf, lastChild, up) IN
           /\ DOMAIN weights = TargetsOf(ss) /\ \A key \in TargetsOf(ss) : weights[key] \in Int
           /\ Sum(weights, TargetsOf(ss)) = Sum(weightOf, ss)
           /\ Sum(weightOf, ss) \in Int
<1> DEFINE weights == Distributed(weightOf, lastChild, up)
           T == TargetsOf(ss)
           n(s) == Cardinality(ActiveChildren(s))
           share(s) == Share(weightOf[s], n(s), up)
           group == [key \in T |-> key[1]]
<1>1. IsFiniteSet(ss) /\ IsFiniteSet(T) /\ T \subseteq ss \X (SubSubtask \cup {Whole})
  BY TargetsFinite
<1>2. DOMAIN weights = T
  BY DEF Distributed
<1>3. \A s \in ss : weightOf[s] \in Nat
  BY TaskAssumption
<1>4. \A s \in ss : IsFiniteSet(ActiveChildren(s)) /\ n(s) \in Nat /\ (ActiveChildren(s) # {} => n(s) # 0)
  <2> SUFFICES ASSUME NEW s \in ss
               PROVE IsFiniteSet(ActiveChildren(s)) /\ n(s) \in Nat /\ (ActiveChildren(s) # {} => n(s) # 0)
    OBVIOUS
  <2>1. ActiveChildren(s) \subseteq DOMAIN children
    BY DEF ActiveChildren
  <2>2. IsFiniteSet(ActiveChildren(s))
    BY <2>1, FS_Subset DEF TaskTypes
  <2> QED
    BY <2>2, FS_CardinalityType, FS_EmptySet
<1>5. \A s \in ss : ActiveChildren(s) # {} => share(s) \in Int
  BY <1>3, <1>4, ShareInt
<1>6. \A key \in T : weights[key] =
        IF key[2] = Whole THEN weightOf[key[1]]
        ELSE IF key[2] = lastChild[key[1]] THEN weightOf[key[1]] - share(key[1]) * (n(key[1]) - 1)
        ELSE share(key[1])
  BY DEF Distributed
<1> HIDE DEF weights, T, n, share
<1>7. \A s \in ss : /\ \A key \in T : key[1] = s => weights[key] \in Int
                    /\ weightOf[s] = Sum(weights, {key \in T : group[key] = s})
  <2> SUFFICES ASSUME NEW s \in ss
               PROVE  /\ \A key \in T : key[1] = s => weights[key] \in Int
                      /\ weightOf[s] = Sum(weights, {key \in T : group[key] = s})
    OBVIOUS
  <2> DEFINE G == {key \in T : key[1] = s}
             kids == ActiveChildren(s)
  <2>1. {key \in T : group[key] = s} = G
    OBVIOUS
  <2>2. CASE kids = {}
    <3>1. G = {<<s, Whole>>}
      BY <2>2, TargetsAre DEF T
    <3>2. <<s, Whole>> \in T /\ weights[<<s, Whole>>] = weightOf[s]
      BY <1>6, <3>1
    <3>3. \A key \in G : weights[key] = weightOf[s]
      BY <3>1, <3>2
    <3>4. Sum(weights, G) = Sum(weights, G \ {<<s, Whole>>}) + weights[<<s, Whole>>]
      <4>1. IsFiniteSet(G) /\ <<s, Whole>> \in G
        BY <3>1, FS_Singleton
      <4> HIDE DEF G
      <4> QED
        BY <4>1, <3>3, <1>3, SumAdds
    <3>5. Sum(weights, G) = weightOf[s]
      <4>1. G \ {<<s, Whole>>} = {}
        BY <3>1
      <4>2. Sum(weights, {}) = 0
        BY SumOfNone
      <4>3. weightOf[s] \in Nat
        BY <1>3
      <4> HIDE DEF G
      <4>4. Sum(weights, G \ {<<s, Whole>>}) = 0
        BY <4>1, <4>2, Zenon
      <4> QED
        BY ONLY <4>3, <4>4, <3>4, <3>2
    <3>6. \A key \in G : weights[key] \in Int
      BY <3>3, <1>3
    <3> QED
      BY <2>1, <3>5, <3>6
  <2>3. CASE kids # {}
    <3> DEFINE last == lastChild[s]
               pair == [k \in kids |-> <<s, k>>]
               h == [k \in kids |-> IF k = last THEN weightOf[s] - share(s) * (n(s) - 1) ELSE share(s)]
    <3>1. G = {<<s, k>> : k \in kids} /\ Whole \notin kids /\ last \in kids
      BY <2>3, TargetsAre DEF T
    <3>2. G = {pair[k] : k \in kids}
      BY <3>1
    <3>3. share(s) \in Int /\ n(s) \in Nat /\ weightOf[s] \in Nat /\ IsFiniteSet(kids)
      BY <2>3, <1>3, <1>4, <1>5
    <3>4. share(s) * (n(s) - 1) \in Int
      BY <3>3
    <3>5. \A k \in kids : h[k] \in Int
      BY <3>3, <3>4
    <3>6. \A k \in kids : weights[<<s, k>>] = h[k]
      <4> SUFFICES ASSUME NEW k \in kids PROVE weights[<<s, k>>] = h[k]
        OBVIOUS
      <4>1. <<s, k>> \in T /\ k # Whole
        BY <3>1
      <4> QED
        BY <1>6, <4>1
    <3>7. Sum(weights, G) = Sum(h, kids)
      <4>1. \A k, j \in kids : pair[k] = pair[j] => k = j
        OBVIOUS
      <4>2. \A k \in kids : h[k] \in Int /\ weights[pair[k]] = h[k]
        BY <3>5, <3>6
      <4> HIDE DEF pair, h, kids, G
      <4>3. Sum(weights, {pair[k] : k \in kids}) = Sum(h, kids)
        BY <3>3, <4>1, <4>2, SumRenamed
      <4> QED
        BY <3>2, <4>3
    <3>8. Sum(h, kids) = Sum(h, kids \ {last}) + h[last]
      <4> HIDE DEF h, kids, last
      <4> QED
        BY <3>1, <3>3, <3>5, SumAdds
    <3>9. Sum(h, kids \ {last}) = share(s) * (n(s) - 1)
      <4>1. IsFiniteSet(kids \ {last}) /\ Cardinality(kids \ {last}) = n(s) - 1
        BY <3>1, <3>3, FS_RemoveElement DEF n
      <4>2. \A k \in kids \ {last} : h[k] = share(s)
        OBVIOUS
      <4> HIDE DEF h, kids, last
      <4>3. Sum(h, kids \ {last}) = share(s) * Cardinality(kids \ {last})
        BY <3>3, <4>1, <4>2, SumEqual
      <4> QED
        BY <4>1, <4>3
    <3>10. h[last] = weightOf[s] - share(s) * (n(s) - 1)
      BY <3>1
    <3>11. Sum(weights, G) = weightOf[s]
      <4> DEFINE x == share(s) * (n(s) - 1)
      <4> HIDE DEF h, kids, last, G, x
      <4> QED
        BY <3>3, <3>4, <3>7, <3>8, <3>9, <3>10 DEF x
    <3>12. \A key \in G : weights[key] \in Int
      BY <3>1, <3>5, <3>6
    <3> QED
      BY <2>1, <3>11, <3>12
  <2> QED
    BY <2>2, <2>3
<1>8. \A key \in T : weights[key] \in Int /\ group[key] \in ss
  BY <1>1, <1>7
<1>9. Sum(weights, T) = Sum(weightOf, ss)
  <2>1. \A s \in ss : weightOf[s] = Sum(weights, {key \in T : group[key] = s})
    BY <1>7
  <2>2. \A key \in T : group[key] \in ss
    BY <1>8
  <2>3. \A key \in T : weights[key] \in Int
    BY <1>8
  <2> HIDE DEF group
  <2> QED
    BY ONLY <1>1, <2>1, <2>2, <2>3, SumGrouped
<1>10. Sum(weightOf, ss) \in Int
  BY <1>1, <1>3, SumInt
<1> QED
  BY <1>2, <1>8, <1>9, <1>10 DEF weights, T
----------------------------------------------------------------------------
\* Between two bulk assignments: the agent's rows began by the latest one, no two of
\* those in force since then have the same target, and while nothing was deleted or
\* assigned singly they add up to what the admin typed.
Held(u) == Current(lastBulk[u].day) \cap RowsOf(u)
InOrder(u) ==
    /\ \A r \in RowsOf(u) : rows[r].from <= lastBulk[u].day
    /\ \A r, q \in Held(u) : Key(rows[r]) = Key(rows[q]) => r = q
Weighed(u) == lastBulk[u].set => ActiveWeightTotal(u, lastBulk[u].day) = lastBulk[u].total
TaskInv == TaskTypes /\ \A u \in Agent \ direct : InOrder(u) /\ Weighed(u)

LEMMA TasksBegin == TaskInit => TaskInv
<1> SUFFICES ASSUME TaskInit PROVE TaskInv
  OBVIOUS
<1>1. DOMAIN subtasks = {} /\ DOMAIN children = {} /\ DOMAIN rows = {}
  BY DEF TaskInit
<1>2. TaskTypes
  BY <1>1, FS_EmptySet DEF TaskInit, TaskTypes
<1>3. \A u \in Agent : InOrder(u) /\ Weighed(u)
  BY <1>1 DEF TaskInit, InOrder, Weighed, RowsOf, Held
<1> QED
  BY <1>2, <1>3 DEF TaskInv

\* Whose rows are as they were, less some, stays in order.
LEMMA FewerRows ==
    ASSUME TaskTypes, TaskTypes', NEW u \in Agent, InOrder(u),
           lastBulk'[u].day = lastBulk[u].day,
           \A r \in RowsOf(u)' : r \in RowsOf(u) /\ rows'[r] = rows[r]
    PROVE  InOrder(u)'
<1>1. \A r \in RowsOf(u)' : rows'[r].from <= lastBulk'[u].day
  BY DEF InOrder
<1>2. \A r \in Held(u)' : r \in Held(u) /\ rows'[r] = rows[r]
  BY DEF Held, Current, RowsOf
<1>3. \A r, q \in Held(u)' : Key(rows'[r]) = Key(rows'[q]) => r = q
  BY <1>2 DEF InOrder
<1> QED
  BY <1>1, <1>3 DEF InOrder

\* And whose rows and latest bulk assignment are all as they were is weighed as before.
LEMMA SameRows ==
    ASSUME TaskTypes, TaskTypes', NEW u \in Agent, InOrder(u), Weighed(u),
           lastBulk'[u] = lastBulk[u], RowsOf(u)' = RowsOf(u),
           \A r \in RowsOf(u) : rows'[r] = rows[r]
    PROVE  InOrder(u)' /\ Weighed(u)'
<1>1. InOrder(u)'
  BY FewerRows
<1>2. Held(u)' = Held(u)
  BY DEF Held, Current, RowsOf
<1> DEFINE w == [r \in DOMAIN rows |-> rows[r].weight]
           v == [r \in DOMAIN rows' |-> rows'[r].weight]
<1>3. Held(u) \subseteq DOMAIN rows
  BY DEF Held, Current
<1>4. IsFiniteSet(Held(u)) /\ \A r \in Held(u) : w[r] \in Int /\ w[r] = v[r]
  <2>1. IsFiniteSet(Held(u))
    BY <1>3, FS_Subset DEF TaskTypes
  <2>2. \A r \in Held(u) : r \in RowsOf(u) /\ r \in DOMAIN rows /\ r \in DOMAIN rows'
    BY <1>2, <1>3 DEF Held, Current
  <2>3. \A r \in DOMAIN rows : rows[r].weight \in Int
    BY DEF TaskTypes, AssignmentRow
  <2> QED
    BY <2>1, <2>2, <2>3
<1>5. Sum(w, Held(u)) = Sum(v, Held(u))
  <2> HIDE DEF w, v
  <2> QED
    BY <1>4, SumSame
<1>6. ActiveWeightTotal(u, lastBulk[u].day) = Sum(w, Held(u))
  BY WeightOverIs DEF ActiveWeightTotal, Held
<1>7. ActiveWeightTotal(u, lastBulk[u].day)' = Sum(v, Held(u)')
  BY WeightOverIs DEF ActiveWeightTotal, Held
<1>8. Weighed(u)'
  BY <1>2, <1>5, <1>6, <1>7 DEF Weighed
<1> QED
  BY <1>1, <1>8

\* After a deletion, or an assignment to somebody else, no bulk assignment is the latest.
LEMMA Forgotten ==
    ASSUME TaskTypes, Forget, NEW u \in Agent
    PROVE  lastBulk'[u].day = lastBulk[u].day /\ Weighed(u)'
BY DEF TaskTypes, Forget, Weighed

LEMMA ForgetTyped ==
    ASSUME TaskTypes, Forget
    PROVE  lastBulk' \in [Agent -> [set : BOOLEAN, day : Nat, total : Int]]
BY DEF TaskTypes, Forget

----------------------------------------------------------------------------
LEMMA TreeGrows ==
    ASSUME TaskInv, UNCHANGED <<rows, lastBulk, direct>>, TaskTypes'
    PROVE  TaskInv'
<1>1. ASSUME NEW u \in Agent \ direct' PROVE InOrder(u)' /\ Weighed(u)'
  <2>1. u \in Agent /\ InOrder(u) /\ Weighed(u) /\ TaskTypes
    BY <1>1 DEF TaskInv
  <2>2. RowsOf(u)' = RowsOf(u)
    BY DEF RowsOf
  <2> QED
    BY <2>1, <2>2, SameRows
<1> QED
  BY <1>1 DEF TaskInv

LEMMA WithDomain == \A f, x, v : DOMAIN With(f, x, v) = DOMAIN f \cup {x}
BY DEF With

LEMMA SaveCategoryKeeps ==
    ASSUME TaskInv, NEW c \in Category, NEW standing \in Statuses, SaveCategory(c, standing)
    PROVE  TaskInv'
<1>1. TaskTypes
  BY DEF TaskInv
<1>2. DOMAIN subtasks' \in {DOMAIN subtasks, DOMAIN subtasks \cup {Other[c]}}
  BY WithDomain DEF SaveCategory
<1>3. IsFiniteSet(DOMAIN subtasks') /\ DOMAIN subtasks' \subseteq Subtask
  BY <1>1, <1>2, TaskAssumption, FS_AddElement DEF TaskTypes
<1>4. TaskTypes'
  BY <1>1, <1>3 DEF TaskTypes, SaveCategory
<1> QED
  BY <1>4, TreeGrows DEF SaveCategory

LEMMA SaveSubtaskKeeps ==
    ASSUME TaskInv, NEW s \in Subtask, NEW c \in Category, NEW standing \in Statuses, NEW other \in BOOLEAN,
           SaveSubtask(s, c, standing, other)
    PROVE  TaskInv'
<1>1. TaskTypes
  BY DEF TaskInv
<1>2. DOMAIN subtasks' = DOMAIN subtasks \cup {s}
  BY WithDomain DEF SaveSubtask
<1>3. IsFiniteSet(DOMAIN subtasks') /\ DOMAIN subtasks' \subseteq Subtask
  BY <1>1, <1>2, FS_AddElement DEF TaskTypes
<1>4. TaskTypes'
  BY <1>1, <1>3 DEF TaskTypes, SaveSubtask
<1> QED
  BY <1>4, TreeGrows DEF SaveSubtask

LEMMA SaveSubSubtaskKeeps ==
    ASSUME TaskInv, NEW k \in SubSubtask, NEW standing \in Statuses, SaveSubSubtask(k, standing)
    PROVE  TaskInv'
<1>1. TaskTypes
  BY DEF TaskInv
<1>2. DOMAIN children' = DOMAIN children \cup {k}
  BY WithDomain DEF SaveSubSubtask
<1>3. IsFiniteSet(DOMAIN children') /\ DOMAIN children' \subseteq SubSubtask
  BY <1>1, <1>2, FS_AddElement DEF TaskTypes
<1>4. TaskTypes'
  BY <1>1, <1>3 DEF TaskTypes, SaveSubSubtask
<1> QED
  BY <1>4, TreeGrows DEF SaveSubSubtask

LEMMA CascadeKeeps ==
    ASSUME TaskInv, NEW cs, NEW ss, NEW ks, Cascade(cs, ss, ks)
    PROVE  TaskInv'
<1>1. TaskTypes /\ Forget /\ direct' = direct
  BY DEF TaskInv, Cascade
<1>2. /\ DOMAIN subtasks' \subseteq DOMAIN subtasks /\ DOMAIN children' \subseteq DOMAIN children
      /\ DOMAIN rows' \subseteq DOMAIN rows /\ \A r \in DOMAIN rows' : rows'[r] = rows[r]
  BY DEF Cascade, Without
<1>3. TaskTypes'
  <2>1. IsFiniteSet(DOMAIN subtasks') /\ IsFiniteSet(DOMAIN children') /\ IsFiniteSet(DOMAIN rows')
    BY <1>1, <1>2, FS_Subset DEF TaskTypes
  <2>2. lastBulk' \in [Agent -> [set : BOOLEAN, day : Nat, total : Int]]
    BY <1>1, ForgetTyped
  <2> QED
    BY <1>1, <1>2, <2>1, <2>2 DEF TaskTypes
<1>4. ASSUME NEW u \in Agent \ direct' PROVE InOrder(u)' /\ Weighed(u)'
  <2>1. u \in Agent /\ InOrder(u)
    BY <1>1, <1>4 DEF TaskInv
  <2>2. lastBulk'[u].day = lastBulk[u].day /\ Weighed(u)'
    BY <1>1, <2>1, Forgotten
  <2>3. \A r \in RowsOf(u)' : r \in RowsOf(u) /\ rows'[r] = rows[r]
    BY <1>2 DEF RowsOf
  <2> QED
    BY <1>1, <1>3, <2>1, <2>2, <2>3, FewerRows
<1> QED
  BY <1>3, <1>4 DEF TaskInv

LEMMA SaveAssignmentKeeps ==
    ASSUME TaskInv, NEW u \in Agent, NEW s \in Subtask, NEW k \in SubSubtask \cup {Whole}, NEW w \in Amounts,
           NEW from \in Day, NEW to \in Limits, NEW standing \in Statuses, NEW r \in Row,
           SaveAssignment(u, s, k, w, from, to, standing, r)
    PROVE  TaskInv'
<1> DEFINE row == [user |-> u, sub |-> s, kid |-> k, weight |-> w, from |-> from, to |-> to,
                   status |-> standing]
<1>1. TaskTypes /\ Forget /\ rows' = With(rows, r, row) /\ UNCHANGED <<subtasks, children>>
  BY DEF TaskInv, SaveAssignment
<1>2. direct' = direct \cup {u} \cup {rows[q].user : q \in DOMAIN rows \cap {r}}
  BY DEF SaveAssignment
<1>3. row \in AssignmentRow
  BY TaskAssumption DEF AssignmentRow
<1>4. row.user = u
  OBVIOUS
<1> HIDE DEF row
<1>5. /\ DOMAIN rows' = DOMAIN rows \cup {r}
      /\ \A q \in DOMAIN rows' : rows'[q] = IF q = r THEN row ELSE rows[q]
  BY <1>1 DEF With
<1>6. TaskTypes'
  <2>1. IsFiniteSet(DOMAIN rows')
    BY <1>1, <1>5, FS_AddElement DEF TaskTypes
  <2>2. \A q \in DOMAIN rows' : rows'[q] \in AssignmentRow
    BY <1>1, <1>3, <1>5 DEF TaskTypes
  <2>3. lastBulk' \in [Agent -> [set : BOOLEAN, day : Nat, total : Int]]
    BY <1>1, ForgetTyped
  <2> QED
    BY <1>1, <2>1, <2>2, <2>3 DEF TaskTypes
<1>7. ASSUME NEW v \in Agent \ direct' PROVE InOrder(v)' /\ Weighed(v)'
  <2>1. v \in Agent /\ v # u /\ v \notin direct /\ (r \in DOMAIN rows => rows[r].user # v)
    BY <1>2, <1>7
  <2>2. InOrder(v)
    BY <2>1 DEF TaskInv
  <2>3. lastBulk'[v].day = lastBulk[v].day /\ Weighed(v)'
    BY <1>1, <2>1, Forgotten
  <2>4. \A q \in RowsOf(v)' : q \in RowsOf(v) /\ rows'[q] = rows[q]
    BY <1>4, <1>5, <2>1 DEF RowsOf
  <2> QED
    BY <1>1, <1>6, <2>1, <2>2, <2>3, <2>4, FewerRows
<1> QED
  BY <1>6, <1>7 DEF TaskInv
----------------------------------------------------------------------------
(* A bulk assignment.  What a request writes, in the words of the code.    *)
InForce(u, from) == Current(from) \cap RowsOf(u)
InForceFor(u, from, key) == {r \in InForce(u, from) : Key(rows[r]) = key}
Candidates(u, from, key) ==
    IF InForceFor(u, from, key) # {} THEN InForceFor(u, from, key) ELSE Existing(u, key, from)
Others(u, from, targets) == {r \in InForce(u, from) : Key(rows[r]) \notin targets}
Ended(u, from, targets) == {r \in Others(u, from, targets) : rows[r].from < from}
UsedRows(chosen) == {chosen[key] : key \in DOMAIN chosen}
KeyOf(chosen, r) == CHOOSE key \in DOMAIN chosen : chosen[key] = r
NewRow(u, key, w, from, to, standing) ==
    [user |-> u, sub |-> key[1], kid |-> key[2], weight |-> w, from |-> from, to |-> to, status |-> standing]
Table(u, from, to, standing, chosen, weights) ==
    [r \in DOMAIN rows \cup UsedRows(chosen) |->
        IF r \in UsedRows(chosen)
        THEN NewRow(u, KeyOf(chosen, r), weights[KeyOf(chosen, r)], from, to, standing)
        ELSE IF r \in Ended(u, from, DOMAIN chosen)
        THEN [rows[r] EXCEPT !.to = from - 1, !.status = "INACTIVE"]
        ELSE rows[r]]

BulkWrites(u, c, weightOf, from, to, standing, up, chosen) ==
    /\ from <= to /\ DOMAIN weightOf = ActiveSubtasks(c)
    /\ Cardinality(UsedRows(chosen)) = Cardinality(DOMAIN chosen)
    /\ \A key \in DOMAIN chosen :
         IF Candidates(u, from, key) # {} THEN chosen[key] \in Candidates(u, from, key)
         ELSE chosen[key] \in Row \ DOMAIN rows
    /\ \E lastChild :
         /\ \A s \in DOMAIN weightOf : ActiveChildren(s) # {} => lastChild[s] \in ActiveChildren(s)
         /\ DOMAIN chosen = DOMAIN Distributed(weightOf, lastChild, up)
         /\ rows' = Without(Table(u, from, to, standing, chosen, Distributed(weightOf, lastChild, up)),
                            Others(u, from, DOMAIN chosen) \ Ended(u, from, DOMAIN chosen))
    /\ lastBulk' = [lastBulk EXCEPT ![u] = [set |-> standing = "ACTIVE", day |-> from,
                                            total |-> WeightOver(weightOf, DOMAIN weightOf)]]
    /\ direct' = IF from < lastBulk[u].day THEN direct \cup {u} ELSE direct
    /\ UNCHANGED <<subtasks, children>>

LEMMA SaveTaskAssignmentIs ==
    ASSUME NEW u, NEW c, NEW weightOf, NEW from, NEW to, NEW standing, NEW up, NEW chosen,
           SaveTaskAssignment(u, c, weightOf, from, to, standing, up, chosen)
    PROVE  BulkWrites(u, c, weightOf, from, to, standing, up, chosen)
<1>1. /\ from <= to /\ DOMAIN weightOf = ActiveSubtasks(c)
      /\ lastBulk' = [lastBulk EXCEPT ![u] = [set |-> standing = "ACTIVE", day |-> from,
                                              total |-> WeightOver(weightOf, DOMAIN weightOf)]]
      /\ direct' = IF from < lastBulk[u].day THEN direct \cup {u} ELSE direct
      /\ UNCHANGED <<subtasks, children>>
  BY DEF SaveTaskAssignment
<1>2. Cardinality(UsedRows(chosen)) = Cardinality(DOMAIN chosen)
  BY DEF SaveTaskAssignment, UsedRows
<1>3. \A key \in DOMAIN chosen :
         IF Candidates(u, from, key) # {} THEN chosen[key] \in Candidates(u, from, key)
         ELSE chosen[key] \in Row \ DOMAIN rows
  BY DEF SaveTaskAssignment, Candidates, InForce, InForceFor
<1>4. \E lastChild :
         /\ \A s \in DOMAIN weightOf : ActiveChildren(s) # {} => lastChild[s] \in ActiveChildren(s)
         /\ DOMAIN chosen = DOMAIN Distributed(weightOf, lastChild, up)
         /\ rows' = Without(Table(u, from, to, standing, chosen, Distributed(weightOf, lastChild, up)),
                            Others(u, from, DOMAIN chosen) \ Ended(u, from, DOMAIN chosen))
  BY Zenon DEF SaveTaskAssignment, Table, NewRow, KeyOf, UsedRows, Ended, Others, InForce
<1> QED
  BY <1>1, <1>2, <1>3, <1>4 DEF BulkWrites

\* Every row named for a target is new or one of the agent's rows for it, and no two are the same.
RowsNamed(u, from, chosen) ==
    /\ IsFiniteSet(DOMAIN chosen) /\ Cardinality(UsedRows(chosen)) = Cardinality(DOMAIN chosen)
    /\ \A key \in DOMAIN chosen :
          IF Candidates(u, from, key) # {} THEN chosen[key] \in Candidates(u, from, key)
          ELSE chosen[key] \in Row \ DOMAIN rows
RowsFit(u, from, chosen) ==
    /\ IsFiniteSet(UsedRows(chosen))
    /\ \A key, other \in DOMAIN chosen : chosen[key] = chosen[other] => key = other
    /\ \A key \in DOMAIN chosen : KeyOf(chosen, chosen[key]) = key
    /\ \A key \in DOMAIN chosen : chosen[key] \in DOMAIN rows =>
          rows[chosen[key]].user = u /\ Key(rows[chosen[key]]) = key
    /\ \A key \in DOMAIN chosen : InForceFor(u, from, key) # {} =>
          chosen[key] \in InForceFor(u, from, key)
LEMMA RowsChosen ==
    ASSUME TaskTypes, NEW u, NEW from, NEW chosen, RowsNamed(u, from, chosen)
    PROVE  RowsFit(u, from, chosen)
<1> USE DEF RowsNamed
<1> DEFINE f == [key \in DOMAIN chosen |-> chosen[key]]
<1>1. f \in Surjection(DOMAIN chosen, UsedRows(chosen))
  BY DEF Surjection, UsedRows
<1>2. IsFiniteSet(UsedRows(chosen)) /\ f \in Injection(DOMAIN chosen, UsedRows(chosen))
  <2> HIDE DEF f
  <2> QED
    BY <1>1, FS_Surjection
<1>3. \A key, other \in DOMAIN chosen : chosen[key] = chosen[other] => key = other
  BY <1>2 DEF Injection, IsInjective
<1>4. \A key \in DOMAIN chosen : KeyOf(chosen, chosen[key]) = key
  BY <1>3 DEF KeyOf
<1>5. \A key : InForceFor(u, from, key) \subseteq {r \in RowsOf(u) : Key(rows[r]) = key}
  BY DEF InForceFor, InForce
<1>6. \A key : Candidates(u, from, key) \subseteq {r \in RowsOf(u) : Key(rows[r]) = key}
  BY <1>5 DEF Candidates, Existing
<1>7. ASSUME NEW key \in DOMAIN chosen, chosen[key] \in DOMAIN rows
      PROVE  rows[chosen[key]].user = u /\ Key(rows[chosen[key]]) = key
  BY <1>6, <1>7 DEF RowsOf
<1>8. ASSUME NEW key \in DOMAIN chosen, InForceFor(u, from, key) # {}
      PROVE  chosen[key] \in InForceFor(u, from, key)
  BY <1>8 DEF Candidates
<1> QED
  BY <1>2, <1>3, <1>4, <1>7, <1>8 DEF RowsFit

\* What a bulk assignment leaves: the rows of its targets, written anew; ended rows of the
\* agent; and the other rows that were not in force, as they were.
LEMMA RowsWritten ==
    ASSUME TaskTypes, NEW u \in Agent, NEW from \in Day, NEW to \in Limits, NEW standing \in Statuses,
           NEW chosen, DOMAIN chosen \subseteq Subtask \X (SubSubtask \cup {Whole}),
           RowsNamed(u, from, chosen),
           NEW weights, \A key \in DOMAIN chosen : weights[key] \in Int,
           rows' = Without(Table(u, from, to, standing, chosen, weights),
                           Others(u, from, DOMAIN chosen) \ Ended(u, from, DOMAIN chosen))
    PROVE  /\ \A key \in DOMAIN chosen : /\ chosen[key] \in DOMAIN rows'
                                         /\ rows'[chosen[key]] = NewRow(u, key, weights[key], from, to, standing)
           /\ \A r \in DOMAIN rows' \ UsedRows(chosen) :
                /\ r \in DOMAIN rows /\ rows'[r].user = rows[r].user /\ rows'[r].from = rows[r].from
                /\ rows'[r].status = "INACTIVE" \/ (rows'[r] = rows[r] /\ r \notin Others(u, from, DOMAIN chosen))
                /\ rows[r].user # u => rows'[r] = rows[r]
           /\ \A r \in DOMAIN rows : rows[r].user # u => r \in DOMAIN rows' /\ r \notin UsedRows(chosen)
           /\ IsFiniteSet(DOMAIN rows') /\ \A r \in DOMAIN rows' : rows'[r] \in AssignmentRow
<1> DEFINE used == UsedRows(chosen)
           targets == DOMAIN chosen
           others == Others(u, from, targets)
           ended == Ended(u, from, targets)
<1>1. /\ IsFiniteSet(used)
      /\ \A key \in targets : KeyOf(chosen, chosen[key]) = key
      /\ \A key \in targets : chosen[key] \in DOMAIN rows =>
            rows[chosen[key]].user = u /\ Key(rows[chosen[key]]) = key
  <2> HIDE DEF others, ended
  <2>1. RowsFit(u, from, chosen)
    BY RowsChosen
  <2> QED
    BY <2>1, Zenon DEF RowsFit
<1>2. \A r \in used : \E key \in targets : r = chosen[key]
  BY DEF UsedRows
<1>3. \A key \in targets : chosen[key] \in used
  BY DEF UsedRows
<1>4. \A r \in others : /\ r \in DOMAIN rows /\ rows[r].user = u /\ Key(rows[r]) \notin targets
                        /\ rows[r].status = "ACTIVE"
  BY DEF Others, InForce, Current, RowsOf
<1>5. used \cap others = {}
  BY <1>1, <1>2, <1>4
<1>6. ended \subseteq others
  BY DEF Ended
<1> DEFINE table == Table(u, from, to, standing, chosen, weights)
<1>7. DOMAIN table = DOMAIN rows \cup used
  BY DEF Table
<1>8. DOMAIN rows' = (DOMAIN rows \cup used) \ (others \ ended)
  BY <1>7 DEF Without
<1>9. \A r \in DOMAIN rows' : rows'[r] = table[r]
  BY <1>8 DEF Without
<1>10. \A r \in DOMAIN rows \cup used :
          table[r] = IF r \in used THEN NewRow(u, KeyOf(chosen, r), weights[KeyOf(chosen, r)], from, to, standing)
                     ELSE IF r \in ended THEN [rows[r] EXCEPT !.to = from - 1, !.status = "INACTIVE"]
                     ELSE rows[r]
  BY DEF Table
<1> HIDE DEF used, targets, others, ended, table
<1>11. ASSUME NEW key \in targets
       PROVE  /\ chosen[key] \in DOMAIN rows'
              /\ rows'[chosen[key]] = NewRow(u, key, weights[key], from, to, standing)
  <2>1. chosen[key] \in used /\ KeyOf(chosen, chosen[key]) = key
    BY <1>1, <1>3
  <2>2. chosen[key] \in DOMAIN rows'
    BY <2>1, <1>5, <1>8
  <2> QED
    BY <2>1, <2>2, <1>9, <1>10
<1>12. ASSUME NEW r \in DOMAIN rows' \ used
       PROVE  /\ r \in DOMAIN rows /\ rows'[r].user = rows[r].user /\ rows'[r].from = rows[r].from
              /\ rows'[r].status = "INACTIVE" \/ (rows'[r] = rows[r] /\ r \notin others)
              /\ rows[r].user # u => rows'[r] = rows[r]
              /\ rows'[r] \in AssignmentRow
  <2>1. r \in DOMAIN rows /\ rows[r] \in AssignmentRow
    BY <1>8 DEF TaskTypes
  <2>2. CASE r \in ended
    <3>1. rows'[r] = [rows[r] EXCEPT !.to = from - 1, !.status = "INACTIVE"]
      BY <2>1, <2>2, <1>9, <1>10
    <3>2. from - 1 \in Int /\ "INACTIVE" \in Statuses
      BY TaskAssumption DEF Statuses
    <3>3. rows'[r] \in AssignmentRow
      BY <2>1, <3>1, <3>2 DEF AssignmentRow
    <3>4. rows'[r].user = rows[r].user /\ rows'[r].from = rows[r].from /\ rows'[r].status = "INACTIVE"
      BY <2>1, <3>1 DEF AssignmentRow
    <3>5. rows[r].user = u
      BY <2>2, <1>4, <1>6
    <3> QED
      BY <2>1, <3>3, <3>4, <3>5
  <2>3. CASE r \notin ended
    <3>1. rows'[r] = rows[r]
      BY <2>1, <2>3, <1>9, <1>10
    <3>2. r \notin others
      BY <2>3, <1>8
    <3> QED
      BY <2>1, <3>1, <3>2
  <2> QED
    BY <2>2, <2>3
<1>13. ASSUME NEW r \in DOMAIN rows, rows[r].user # u PROVE r \in DOMAIN rows' /\ r \notin used
  <2>1. r \notin others
    BY <1>4, <1>13
  <2>2. r \notin used
    BY <1>1, <1>2, <1>13
  <2> QED
    BY <2>1, <2>2, <1>8
<1>14. IsFiniteSet(DOMAIN rows')
  <2>1. IsFiniteSet(DOMAIN rows \cup used)
    BY <1>1, FS_Union DEF TaskTypes
  <2> QED
    BY <2>1, <1>8, FS_Subset
<1>15. ASSUME NEW r \in used PROVE rows'[r] \in AssignmentRow
  <2>1. PICK key \in targets : r = chosen[key]
    BY <1>2
  <2>2. rows'[r] = NewRow(u, key, weights[key], from, to, standing)
    BY <2>1, <1>11
  <2>3. key[1] \in Subtask /\ key[2] \in SubSubtask \cup {Whole} /\ weights[key] \in Int
    BY DEF targets
  <2>4. from \in Nat /\ to \in Int
    BY TaskAssumption
  <2> QED
    BY <2>2, <2>3, <2>4 DEF NewRow, AssignmentRow
<1>16. \A r \in DOMAIN rows' : rows'[r] \in AssignmentRow
  BY <1>12, <1>15
<1> QED
  BY <1>11, <1>12, <1>13, <1>14, <1>16 DEF used, targets, others

LEMMA SaveTaskAssignmentKeeps ==
    ASSUME TaskInv, NEW u \in Agent, NEW c \in Category, NEW from \in Day, NEW to \in Limits,
           NEW standing \in Statuses, NEW up \in BOOLEAN, NEW weightOf \in [ActiveSubtasks(c) -> Amounts],
           NEW chosen \in [TargetsOf(DOMAIN weightOf) -> Row],
           SaveTaskAssignment(u, c, weightOf, from, to, standing, up, chosen)
    PROVE  TaskInv'
<1> DEFINE ss == ActiveSubtasks(c)
           targets == DOMAIN chosen
           used == UsedRows(chosen)
<1>1. TaskTypes /\ DOMAIN weightOf = ss /\ ss \subseteq DOMAIN subtasks
  BY DEF TaskInv, ActiveSubtasks
<1>2. targets = TargetsOf(ss) /\ targets \subseteq Subtask \X (SubSubtask \cup {Whole}) /\ IsFiniteSet(targets)
  <2>1. targets = TargetsOf(ss)
    BY <1>1
  <2>2. IsFiniteSet(TargetsOf(ss)) /\ TargetsOf(ss) \subseteq ss \X (SubSubtask \cup {Whole})
    BY <1>1, TargetsFinite
  <2>3. ss \subseteq Subtask
    BY <1>1 DEF TaskTypes
  <2> QED
    BY <2>1, <2>2, <2>3
<1>14. BulkWrites(u, c, weightOf, from, to, standing, up, chosen)
  BY SaveTaskAssignmentIs
<1>3. /\ from <= to
      /\ Cardinality(used) = Cardinality(targets)
      /\ \A key \in targets :
            IF Candidates(u, from, key) # {} THEN chosen[key] \in Candidates(u, from, key)
            ELSE chosen[key] \in Row \ DOMAIN rows
      /\ lastBulk' = [lastBulk EXCEPT ![u] = [set |-> standing = "ACTIVE", day |-> from,
                                              total |-> WeightOver(weightOf, DOMAIN weightOf)]]
      /\ direct' = IF from < lastBulk[u].day THEN direct \cup {u} ELSE direct
      /\ UNCHANGED <<subtasks, children>>
  BY <1>14 DEF BulkWrites
<1>15. RowsNamed(u, from, chosen)
  BY <1>2, <1>3 DEF RowsNamed
<1>16. RowsFit(u, from, chosen)
  BY <1>1, <1>15, RowsChosen
<1>4. PICK lastChild :
        /\ \A s \in DOMAIN weightOf : ActiveChildren(s) # {} => lastChild[s] \in ActiveChildren(s)
        /\ DOMAIN chosen = DOMAIN Distributed(weightOf, lastChild, up)
        /\ rows' = Without(Table(u, from, to, standing, chosen, Distributed(weightOf, lastChild, up)),
                           Others(u, from, DOMAIN chosen) \ Ended(u, from, DOMAIN chosen))
  BY <1>14 DEF BulkWrites
<1> DEFINE weights == Distributed(weightOf, lastChild, up)
<1>5. /\ \A key \in targets : weights[key] \in Int
      /\ Sum(weights, targets) = Sum(weightOf, ss) /\ Sum(weightOf, ss) \in Int
  BY <1>1, <1>2, <1>4, DistributedAddsUp
<1> HIDE DEF ss, weights
<1>6. /\ \A key \in targets : /\ chosen[key] \in DOMAIN rows'
                             /\ rows'[chosen[key]] = NewRow(u, key, weights[key], from, to, standing)
      /\ \A r \in DOMAIN rows' \ used :
            /\ r \in DOMAIN rows /\ rows'[r].user = rows[r].user /\ rows'[r].from = rows[r].from
            /\ rows'[r].status = "INACTIVE" \/ (rows'[r] = rows[r] /\ r \notin Others(u, from, DOMAIN chosen))
            /\ rows[r].user # u => rows'[r] = rows[r]
      /\ \A r \in DOMAIN rows : rows[r].user # u => r \in DOMAIN rows' /\ r \notin used
      /\ IsFiniteSet(DOMAIN rows') /\ \A r \in DOMAIN rows' : rows'[r] \in AssignmentRow
  <2>1. rows' = Without(Table(u, from, to, standing, chosen, weights),
                        Others(u, from, DOMAIN chosen) \ Ended(u, from, DOMAIN chosen))
    BY <1>4 DEF weights
  <2> QED
    BY <1>1, <1>2, <1>5, <1>15, <2>1, RowsWritten
<1>7. from \in Nat /\ to \in Int /\ lastBulk[u] \in [set : BOOLEAN, day : Nat, total : Int]
  BY <1>1, TaskAssumption DEF TaskTypes
<1>8. /\ lastBulk' \in [Agent -> [set : BOOLEAN, day : Nat, total : Int]]
      /\ lastBulk'[u] = [set |-> standing = "ACTIVE", day |-> from, total |-> Sum(weightOf, ss)]
      /\ \A v \in Agent \ {u} : lastBulk'[v] = lastBulk[v]
  <2>1. WeightOver(weightOf, DOMAIN weightOf) = Sum(weightOf, ss)
    BY <1>1, WeightOverIs
  <2> QED
    BY <1>1, <1>3, <1>5, <1>7, <2>1 DEF TaskTypes
<1>9. TaskTypes'
  BY <1>1, <1>3, <1>6, <1>8 DEF TaskTypes
<1>10. \A r \in used : \E key \in targets : r = chosen[key]
  BY DEF UsedRows
<1>11. \A r \in used : r \in DOMAIN rows' /\ rows'[r].user = u /\ rows'[r].from = from /\ rows'[r].to = to
                       /\ rows'[r].status = standing
  <2> SUFFICES ASSUME NEW r \in used
               PROVE  r \in DOMAIN rows' /\ rows'[r].user = u /\ rows'[r].from = from /\ rows'[r].to = to
                      /\ rows'[r].status = standing
    OBVIOUS
  <2>1. PICK key \in targets : r = chosen[key]
    BY <1>10
  <2>2. r \in DOMAIN rows' /\ rows'[r] = NewRow(u, key, weights[key], from, to, standing)
    BY <1>6, <2>1
  <2> QED
    BY <2>2 DEF NewRow
<1>12. ASSUME NEW v \in Agent \ direct', v # u PROVE InOrder(v)' /\ Weighed(v)'
  <2>1. v \in Agent \ direct /\ InOrder(v) /\ Weighed(v) /\ lastBulk'[v] = lastBulk[v]
    BY <1>3, <1>8, <1>12 DEF TaskInv
  <2>2. \A r \in DOMAIN rows' : rows'[r].user = v => r \in DOMAIN rows /\ rows[r].user = v
    BY <1>6, <1>11, <1>12
  <2>3. \A r \in DOMAIN rows : rows[r].user = v => r \in DOMAIN rows' /\ rows'[r] = rows[r]
    BY <1>6, <1>12
  <2>4. RowsOf(v)' = RowsOf(v) /\ \A r \in RowsOf(v) : rows'[r] = rows[r]
    BY <2>2, <2>3 DEF RowsOf
  <2> QED
    BY <1>1, <1>9, <2>1, <2>4, SameRows
<1>13. ASSUME u \notin direct' PROVE InOrder(u)' /\ Weighed(u)'
  <2>1. u \notin direct /\ lastBulk[u].day <= from /\ InOrder(u)
    BY <1>3, <1>7, <1>13 DEF TaskInv
  <2>2. \A r, q \in InForce(u, from) : Key(rows[r]) = Key(rows[q]) => r = q
    <3>1. InForce(u, from) \subseteq Held(u)
      <4> SUFFICES ASSUME NEW r \in InForce(u, from) PROVE r \in Held(u)
        OBVIOUS
      <4>1. /\ r \in RowsOf(u) /\ r \in DOMAIN rows /\ rows[r].status = "ACTIVE"
            /\ rows[r].from <= from /\ from <= rows[r].to /\ rows[r].from <= lastBulk[u].day
        BY <2>1 DEF InForce, Current, InOrder
      <4>2. rows[r].to \in Int
        BY <1>1, <4>1 DEF TaskTypes, AssignmentRow
      <4>3. lastBulk[u].day <= rows[r].to
        BY <1>7, <2>1, <4>1, <4>2
      <4> QED
        BY <4>1, <4>3 DEF Held, Current
    <3> QED
      BY <2>1, <3>1 DEF InOrder
  <2>3. \A r \in RowsOf(u)' : r \in DOMAIN rows' /\ rows'[r].from <= from
    <3> SUFFICES ASSUME NEW r \in RowsOf(u)' PROVE r \in DOMAIN rows' /\ rows'[r].from <= from
      OBVIOUS
    <3>1. r \in DOMAIN rows' /\ rows'[r].user = u
      BY DEF RowsOf
    <3>2. CASE r \in used
      BY <1>7, <1>11, <3>1, <3>2
    <3>3. CASE r \notin used
      <4>1. r \in DOMAIN rows /\ rows[r].user = u /\ rows'[r].from = rows[r].from
        BY <1>6, <3>1, <3>3
      <4>2. rows[r].from <= lastBulk[u].day /\ rows[r].from \in Nat
        BY <1>1, <2>1, <4>1 DEF InOrder, RowsOf, TaskTypes, AssignmentRow
      <4> QED
        BY <1>7, <2>1, <3>1, <4>1, <4>2
    <3> QED
      BY <3>2, <3>3
  <2>4. Held(u)' = IF standing = "ACTIVE" THEN used ELSE {}
    <3>1. \A r : r \in Held(u)' <=> /\ r \in DOMAIN rows' /\ rows'[r].user = u /\ rows'[r].status = "ACTIVE"
                                    /\ rows'[r].from <= from /\ from <= rows'[r].to
      BY <1>8 DEF Held, Current, RowsOf
    <3>2. \A r \in used : r \in Held(u)' <=> standing = "ACTIVE"
      BY <1>3, <1>7, <1>11, <3>1
    <3>3. ASSUME NEW r \in Held(u)', r \notin used PROVE FALSE
      <4>1. r \in DOMAIN rows' /\ rows'[r].status = "ACTIVE" /\ rows'[r].from <= from /\ from <= rows'[r].to
            /\ rows'[r].user = u
        BY <3>1
      <4>2. r \in DOMAIN rows /\ rows'[r] = rows[r] /\ r \notin Others(u, from, targets)
        BY <1>6, <3>3, <4>1
      <4>3. r \in InForce(u, from)
        BY <4>1, <4>2 DEF InForce, Current, RowsOf
      <4>4. Key(rows[r]) \in targets
        BY <4>2, <4>3 DEF Others
      <4>5. r \in InForceFor(u, from, Key(rows[r]))
        BY <4>3 DEF InForceFor
      <4>6. chosen[Key(rows[r])] \in InForceFor(u, from, Key(rows[r]))
        BY <1>16, <4>4, <4>5 DEF RowsFit
      <4>7. chosen[Key(rows[r])] = r
        BY <2>2, <4>3, <4>6 DEF InForceFor
      <4> QED
        BY <3>3, <4>4, <4>7 DEF UsedRows
    <3>4. CASE standing = "ACTIVE"
      BY <3>2, <3>3, <3>4
    <3>5. CASE standing # "ACTIVE"
      BY <3>2, <3>3, <3>5
    <3> QED
      BY <3>4, <3>5
  <2>5. \A r, q \in used : Key(rows'[r]) = Key(rows'[q]) => r = q
    <3>1. \A key \in targets : Key(rows'[chosen[key]]) = key
      <4> SUFFICES ASSUME NEW key \in targets PROVE Key(rows'[chosen[key]]) = key
        OBVIOUS
      <4>1. rows'[chosen[key]] = NewRow(u, key, weights[key], from, to, standing)
        BY <1>6
      <4>2. key = <<key[1], key[2]>>
        BY <1>2
      <4> QED
        BY <4>1, <4>2 DEF NewRow, Key
    <3> QED
      BY <1>10, <3>1
  <2>6. InOrder(u)'
    <3>1. \A r \in RowsOf(u)' : rows'[r].from <= lastBulk'[u].day
      BY <1>8, <2>3
    <3>2. \A r, q \in Held(u)' : Key(rows'[r]) = Key(rows'[q]) => r = q
      BY <2>4, <2>5
    <3> QED
      BY <3>1, <3>2 DEF InOrder
  <2>7. ASSUME lastBulk'[u].set PROVE ActiveWeightTotal(u, lastBulk[u].day)' = lastBulk'[u].total
    <3> DEFINE w == [r \in DOMAIN rows' |-> rows'[r].weight]
    <3>1. standing = "ACTIVE" /\ Held(u)' = used
      BY <1>8, <2>4, <2>7
    <3>2. ActiveWeightTotal(u, lastBulk[u].day)' = Sum(w, Held(u)')
      BY WeightOverIs DEF ActiveWeightTotal, Held
    <3>3. \A key \in targets : weights[key] \in Int /\ w[chosen[key]] = weights[key]
      <4> SUFFICES ASSUME NEW key \in targets PROVE weights[key] \in Int /\ w[chosen[key]] = weights[key]
        OBVIOUS
      <4>1. chosen[key] \in DOMAIN rows' /\ rows'[chosen[key]] = NewRow(u, key, weights[key], from, to, standing)
        BY <1>6
      <4>2. rows'[chosen[key]].weight = weights[key]
        BY <4>1 DEF NewRow
      <4> QED
        BY <1>5, <4>1, <4>2
    <3>4. \A key, other \in targets : chosen[key] = chosen[other] => key = other
      BY <1>16 DEF RowsFit
    <3>5. Sum(w, used) = Sum(weights, targets)
      <4> HIDE DEF w
      <4>1. Sum(w, {chosen[key] : key \in targets}) = Sum(weights, targets)
        BY <1>2, <3>3, <3>4, SumRenamed
      <4> QED
        BY <4>1 DEF UsedRows
    <3> QED
      BY <1>5, <1>8, <3>1, <3>2, <3>5
  <2> QED
    BY <2>6, <2>7 DEF Weighed
<1> QED
  BY <1>9, <1>12, <1>13 DEF TaskInv

LEMMA TaskStep == TaskInv /\ [TaskNext]_taskVars => TaskInv'
<1> SUFFICES ASSUME TaskInv, [TaskNext]_taskVars PROVE TaskInv'
  OBVIOUS
<1>1. CASE UNCHANGED taskVars
  <2>1. TaskTypes'
    BY <1>1 DEF TaskInv, TaskTypes, taskVars
  <2> QED
    BY <1>1, <2>1, TreeGrows DEF taskVars
<1>2. CASE TreeSteps
  <2>1. CASE \E c \in Category, standing \in Statuses : SaveCategory(c, standing)
    BY <2>1, SaveCategoryKeeps
  <2>2. CASE \E s \in Subtask, c \in Category, standing \in Statuses, other \in BOOLEAN :
                SaveSubtask(s, c, standing, other)
    BY <2>2, SaveSubtaskKeeps
  <2>3. CASE \E k \in SubSubtask, standing \in Statuses : SaveSubSubtask(k, standing)
    BY <2>3, SaveSubSubtaskKeeps
  <2>4. CASE \E c \in Category : DeleteCategory(c)
    BY <2>4, CascadeKeeps DEF DeleteCategory
  <2>5. CASE \E s \in Subtask : DeleteSubtask(s)
    BY <2>5, CascadeKeeps DEF DeleteSubtask
  <2>6. CASE \E k \in SubSubtask : DeleteSubSubtask(k)
    BY <2>6, CascadeKeeps DEF DeleteSubSubtask
  <2> QED
    BY <1>2, <2>1, <2>2, <2>3, <2>4, <2>5, <2>6 DEF TreeSteps
<1>3. CASE AssignmentSteps
  <2>1. CASE \E u \in Agent, s \in Subtask, k \in SubSubtask \cup {Whole}, w \in Amounts,
                from \in Day, to \in Limits, standing \in Statuses, r \in Row :
                  SaveAssignment(u, s, k, w, from, to, standing, r)
    BY <2>1, SaveAssignmentKeeps
  <2>2. CASE \E u \in Agent, c \in Category, from \in Day, to \in Limits,
                standing \in Statuses, up \in BOOLEAN :
             \E weightOf \in [ActiveSubtasks(c) -> Amounts] :
             \E chosen \in [TargetsOf(DOMAIN weightOf) -> Row] :
                  SaveTaskAssignment(u, c, weightOf, from, to, standing, up, chosen)
    BY <2>2, SaveTaskAssignmentKeeps
  <2> QED
    BY <1>3, <2>1, <2>2 DEF AssignmentSteps
<1> QED
  BY <1>1, <1>2, <1>3 DEF TaskNext

(***************************************************************************)
(* A bulk assignment leaves an agent with the weights the admin typed and  *)
(* nothing else (save_task_assignment()), for any task tree, any number of *)
(* agents, rows and dates, and however the tree changed between two.       *)
(***************************************************************************)
THEOREM WeightsAsTyped == TaskSpec => []AssignedWeight
<1>1. TaskInv => AssignedWeight
  BY DEF TaskInv, Weighed, AssignedWeight
<1> QED
  BY <1>1, TasksBegin, TaskStep, PTL DEF TaskSpec

----------------------------------------------------------------------------
(* The inbox and the reports.                                              *)

\* Two messages of a thread have two ids.
Thread(ms) == ms \subseteq Message /\ IsFiniteSet(ms) /\ \A m, n \in ms : m.id = n.id => m = n
IdsOf(ms) == {m.id : m \in ms}

Said == [set : BOOLEAN, read : BOOLEAN, message : Nat]
Conversation == [unread : Nat, override : Said, last : Int, holder : Viewer \cup {Unowned}, closed : BOOLEAN]
AtEbay == [messages : SUBSET Message, unread : Nat]
Fields(r, names) == r = [f \in names |-> r[f]]

\* A mark that says read is for a message that an agent marked as read.
Marked(r, known) == r.override.set /\ r.override.read => r.override.message \in known

RowsTyped ==
    time \in 0..LastTime /\ ebay \in AtEbay /\ conversation \in Conversation /\ said \in Said
ImportTyped ==
    /\ Fields(import, {"step", "ebay", "row", "stored"})
    /\ import.step \in {"none", "fetched", "loaded"}
    /\ import.step # "none" => import.ebay \in AtEbay
    /\ import.step = "loaded" => import.row \in Conversation
MarksTyped ==
    /\ DOMAIN marks = Viewer
    /\ \A a \in Viewer : marks[a].set \in BOOLEAN /\ marks[a].read \in BOOLEAN
    /\ \A a \in Viewer : marks[a].set => marks[a].row \in Conversation
ViewsTyped == RowsTyped /\ ImportTyped /\ MarksTyped

Threads ==
    /\ Thread(stored) /\ Inbounds # {}
    /\ Thread(ebay.messages) /\ IdsOf(stored) \subseteq IdsOf(ebay.messages)
    /\ import.step # "none" => /\ Thread(import.ebay.messages) /\ import.ebay.messages # {}
                               /\ IdsOf(import.ebay.messages) \subseteq IdsOf(ebay.messages)
    /\ \A a \in Viewer : marks[a].set => Thread(marks[a].stored) /\ marks[a].stored # {}

MarksKept ==
    /\ Marked(conversation, markedRead)
    /\ said.set => conversation.override = said
    /\ import.step = "loaded" => Marked(import.row, markedRead)

ViewsInv == ViewsTyped /\ Threads /\ MarksKept

LEMMA MessageTyped ==
    ASSUME NEW m \in Message
    PROVE  /\ m.id \in Nat /\ m.at \in Nat /\ m.at <= LastTime /\ m.id \in Ids
           /\ m.from \in {"CUSTOMER", "PROVIDER", "AGENT"}
           /\ m.read \in {"read", "unread", "unknown"} /\ m.actor \in Viewer \cup {Unowned}
BY ViewsAssumption DEF Message, Ids

\* A thread has one latest message: of the latest time and, of those, the largest id.
LEMMA LatestIs ==
    ASSUME NEW ms, Thread(ms), ms # {}
    PROVE  /\ LatestOf(ms) \in ms
           /\ \A n \in ms \ {LatestOf(ms)} : Later(LatestOf(ms), n)
           /\ \A m \in ms : (\A n \in ms \ {m} : Later(m, n)) => m = LatestOf(ms)
<1> DEFINE Times == {m.at : m \in ms}
<1>0. ms \subseteq Message
  BY DEF Thread
<1>1. PICK at \in Times : \A t \in Times : t <= at
  <2>1. Times \in SUBSET Nat /\ Times # {} /\ LastTime \in Nat /\ \A t \in Times : t <= LastTime
    BY <1>0, MessageTyped, ViewsAssumption
  <2> QED
    BY ONLY <2>1, GreatestElement
<1> DEFINE Latests == {m \in ms : m.at = at}
           Names == {m.id : m \in Latests}
<1>2. PICK id \in Names : \A i \in Names : i <= id
  <2>1. Names \in SUBSET Nat /\ Names # {} /\ MaxMessages \in Nat /\ \A i \in Names : i <= MaxMessages
    BY <1>0, MessageTyped, ViewsAssumption DEF Ids
  <2> QED
    BY ONLY <2>1, GreatestElement
<1>3. PICK m \in Latests : m.id = id
  OBVIOUS
<1>4. ASSUME NEW n \in ms \ {m} PROVE Later(m, n)
  <2>1. m.at \in Nat /\ n.at \in Nat /\ m.id \in Nat /\ n.id \in Nat
    BY <1>0, MessageTyped
  <2>2. n.at <= m.at /\ n.id # m.id
    BY <1>1, <1>3 DEF Thread
  <2>3. n.at = m.at => n.id <= m.id
    BY <1>2, <1>3
  <2> QED
    BY <2>1, <2>2, <2>3 DEF Later
<1>5. \E k \in ms : \A n \in ms \ {k} : Later(k, n)
  BY <1>3, <1>4
<1>6. LatestOf(ms) \in ms /\ \A n \in ms \ {LatestOf(ms)} : Later(LatestOf(ms), n)
  BY <1>5 DEF LatestOf
<1>7. ASSUME NEW k \in ms, \A n \in ms \ {k} : Later(k, n) PROVE k = LatestOf(ms)
  <2> SUFFICES ASSUME k # LatestOf(ms) PROVE FALSE
    OBVIOUS
  <2>1. Later(k, LatestOf(ms)) /\ Later(LatestOf(ms), k)
    BY <1>6, <1>7
  <2>2. k \in Message /\ LatestOf(ms) \in Message
    BY <1>0, <1>6
  <2> QED
    BY <2>1, <2>2, MessageTyped DEF Later
<1> QED
  BY <1>6, <1>7

\* A thread whose messages are rewritten, each with its id, is a thread of the same ids.
LEMMA RewrittenThread ==
    ASSUME NEW ms, Thread(ms), NEW F, \A m \in ms : F[m] \in Message /\ F[m].id = m.id
    PROVE  Thread({F[m] : m \in ms}) /\ IdsOf({F[m] : m \in ms}) = IdsOf(ms)
<1>1. IsFiniteSet({F[m] : m \in ms})
  <2> DEFINE G == [m \in ms |-> F[m]]
  <2>1. G \in Surjection(ms, {F[m] : m \in ms})
    BY DEF Surjection
  <2> QED
    BY <2>1, FS_Surjection DEF Thread
<1> QED
  BY <1>1 DEF Thread, IdsOf

\* A thread with a message of another id, or a part of a thread, added to it.
LEMMA LongerThread ==
    ASSUME NEW ms, Thread(ms), NEW ns, Thread(ns), IdsOf(ms) \cap IdsOf(ns) = {}
    PROVE  Thread(ms \cup ns) /\ IdsOf(ms \cup ns) = IdsOf(ms) \cup IdsOf(ns)
<1>1. IsFiniteSet(ms \cup ns)
  BY FS_Union DEF Thread
<1> QED
  BY <1>1 DEF Thread, IdsOf

LEMMA OneMessage ==
    ASSUME NEW m \in Message
    PROVE  Thread({m}) /\ IdsOf({m}) = {m.id}
<1>1. IsFiniteSet({m})
  BY FS_Singleton
<1> QED
  BY <1>1 DEF Thread, IdsOf

\* What is shown of a thread that has a message of its buyer, and whose marks are kept.
LEMMA ViewsFit == ViewsInv => ViewsShown
<1> SUFFICES ASSUME ViewsInv, stored # {} PROVE ViewsShown
  BY DEF ViewsShown
<1> DEFINE latest == LatestOf(stored)
           local == conversation.override
<1>1. /\ stored \subseteq Message /\ latest \in stored /\ latest \in Message
      /\ \A n \in stored \ {latest} : Later(latest, n)
      /\ \A m \in stored : (\A n \in stored \ {m} : Later(m, n)) => m = latest
  BY LatestIs DEF ViewsInv, Threads, Thread
<1>2. local \in Said /\ said \in Said /\ conversation \in Conversation /\ time \in Int /\ conversation.last \in Int
  BY DEF ViewsInv, ViewsTyped, RowsTyped, Conversation
<1>3. MarkHolds
  <2> SUFFICES ASSUME said.set, latest.id = said.message
              PROVE NotRead(conversation, stored) = ~said.read
    BY DEF MarkHolds
  <2>1. local = said
    BY DEF ViewsInv, MarksKept
  <2> QED
    BY <2>1 DEF NotRead
<1>4. NoneHidden
  <2> SUFFICES ASSUME Inbound(latest), latest.read = "unread", latest.id \notin markedRead
              PROVE NotRead(conversation, stored)
    BY DEF NoneHidden
  <2>1. CASE local.set /\ local.message = latest.id
    BY <2>1 DEF NotRead, ViewsInv, MarksKept, Marked
  <2>2. CASE ~(local.set /\ local.message = latest.id)
    BY <2>2 DEF NotRead, ProviderUnread
  <2> QED
    BY <2>1, <2>2
<1>5. BadgeIsFilter
  <2>1. UnreadOnly(conversation, stored) = NotRead(conversation, stored)
    <3> DEFINE Badge == \/ /\ local.message = latest.id /\ local.set
                           /\ ~local.read
                        \/ /\ ~(local.message = latest.id /\ local.set)
                           /\ ProviderUnread(conversation, latest)
    <3>1. UnreadOnly(conversation, stored) <=> Badge
      <4>1. ASSUME UnreadOnly(conversation, stored) PROVE Badge
        <5>1. PICK m \in stored :
                /\ \A n \in stored \ {m} : Later(m, n)
                /\ \/ /\ local.message = m.id /\ local.set
                      /\ ~local.read
                   \/ /\ ~(local.message = m.id /\ local.set)
                      /\ ProviderUnread(conversation, m)
          BY <4>1 DEF UnreadOnly
        <5>2. m = latest
          BY <1>1, <5>1
        <5> QED
          BY <5>1, <5>2, Zenon
      <4>2. ASSUME Badge PROVE UnreadOnly(conversation, stored)
        BY <1>1, <4>2, Zenon DEF UnreadOnly
      <4> QED
        BY <4>1, <4>2
    <3>2. NotRead(conversation, stored) <=> Badge
      BY <1>2 DEF NotRead, Said, ProviderUnread, Inbound
    <3>3. UnreadOnly(conversation, stored) \in BOOLEAN /\ NotRead(conversation, stored) \in BOOLEAN
      BY DEF UnreadOnly, NotRead, ProviderUnread, Inbound
    <3> QED
      BY <3>1, <3>2, <3>3
  <2>2. NotRead(conversation, stored) = (ShownStatus(conversation, stored) = "Not Read")
    <3>1. NotRead(conversation, stored) \in BOOLEAN
      BY DEF NotRead, ProviderUnread, Inbound
    <3> QED
      BY <3>1 DEF ShownStatus
  <2> QED
    BY <2>1, <2>2 DEF BadgeIsFilter
<1>6. ReportFits
  <2>1. ASSUME NEW f \in Filters, InboxFinds(f) PROVE ReportFinds(f)
    BY <1>2, <2>1, ViewsAssumption DEF Filters, FilterDays, InboxFinds, ReportFinds
  <2>2. ASSUME NEW f \in Filters, f.agent = Unowned, ~f.unread, ReportFinds(f) PROVE InboxFinds(f)
    BY <1>2, <2>2, ViewsAssumption DEF Filters, FilterDays, InboxFinds, ReportFinds
  <2>3. ASSUME NEW f \in Filters, NEW a \in Viewer, ReportFinds(Scoped(f, a))
        PROVE  conversation.holder = a \/ Authored(a)
    <3>1. Scoped(f, a).agent = a /\ a # Unowned
      BY ViewsAssumption DEF Filters, Scoped
    <3> QED
      BY <2>3, <3>1 DEF ReportFinds
  <2>4. latest \in LastOnes
    BY <1>1, MessageTyped DEF LastOnes, Later
  <2>5. ASSUME Cardinality(LastOnes) = 1 PROVE ReportDirections = {Direction(stored)}
    <3>1. IsFiniteSet(LastOnes)
      BY FS_Subset DEF LastOnes, ViewsInv, Threads, Thread
    <3>2. LastOnes = {latest}
      BY <2>4, <2>5, <3>1, FS_Singleton
    <3> QED
      BY <3>2 DEF ReportDirections, Direction
  <2>6. ASSUME Overdue PROVE Direction(stored) = "Buyer" /\ Compliance = "no"
    <3> DEFINE Times == {m.at : m \in Inbounds}
    <3>1. Times \in SUBSET Nat /\ Times # {}
      BY <1>1, MessageTyped DEF Inbounds, ViewsInv, Threads
    <3>2. FirstInbound \in Times
      BY <3>1, LeastElement DEF FirstInbound, Min
    <3>3. PICK m \in Inbounds : m.at = FirstInbound
      BY <3>2
    <3>4. latest.at >= FirstInbound
      BY <3>3, <2>4 DEF LastOnes, Inbounds
    <3>5. ~SellerSide(latest)
      BY <1>1, <2>6, <3>4 DEF Overdue, Responses, Replies
    <3>6. DueBy \in Int
      BY <3>1, <3>2, ViewsAssumption DEF DueBy
    <3>7. Compliance = "no"
      BY <1>2, <2>6, <3>6 DEF Overdue, Compliance
    <3> QED
      BY <3>5, <3>7 DEF Direction
  <2> QED
    BY <2>1, <2>2, <2>3, <2>5, <2>6 DEF ReportFits
<1>7. EverythingFindsAll
  BY DEF EverythingFindsAll, Scopes, Places, OrderPlaces, SkuPlaces
<1> QED
  BY <1>3, <1>4, <1>5, <1>6, <1>7 DEF ViewsShown

LEMMA ViewsBegin == ViewsInit => ViewsInv
<1> SUFFICES ASSUME ViewsInit PROVE ViewsInv
  OBVIOUS
<1>1. First \in Message
  BY ViewsAssumption DEF First, Message, Ids
<1>2. Thread({First})
  BY <1>1, OneMessage
<1>3. ViewsTyped
  <2>1. ebay \in AtEbay /\ time \in 0..LastTime
    BY <1>1, ViewsAssumption DEF ViewsInit, AtEbay
  <2>2. said \in Said /\ conversation \in Conversation
    BY DEF ViewsInit, Conversation, Said, Unsaid
  <2>3. Fields(import, {"step", "ebay", "row", "stored"}) /\ import.step = "none"
    BY DEF ViewsInit, Fields, NotImporting
  <2>4. DOMAIN marks = Viewer /\ \A a \in Viewer : ~marks[a].set /\ marks[a].set \in BOOLEAN /\ marks[a].read \in BOOLEAN
    BY DEF ViewsInit, NotMarking
  <2> QED
    BY <2>1, <2>2, <2>3, <2>4 DEF ViewsTyped, RowsTyped, ImportTyped, MarksTyped
<1>4. Threads
  BY <1>1, <1>2 DEF ViewsInit, Threads, Inbounds, Inbound, First, NotImporting, NotMarking
<1>5. MarksKept
  BY DEF ViewsInit, MarksKept, Marked, Unsaid, NotImporting
<1> QED
  BY <1>3, <1>4, <1>5 DEF ViewsInv

LEMMA ImportStays == ViewsInv /\ UNCHANGED import => ImportTyped'
BY DEF ViewsInv, ViewsTyped, ImportTyped, Fields

LEMMA MarksStay == ViewsInv /\ UNCHANGED marks => MarksTyped'
BY DEF ViewsInv, ViewsTyped, MarksTyped

\* Something that arrives at eBay: a message of a new id.
LEMMA UnusedIsNew ==
    ASSUME ViewsInv, NEW id \in Unused
    PROVE  id \in Ids /\ id \notin IdsOf(ebay.messages) /\ id \notin IdsOf(stored)
BY DEF Unused, ViewsInv, Threads, IdsOf

LEMMA EbayMessageKeeps ==
    ASSUME ViewsInv, NEW new \in Arrivals, EbayMessage(new[1], new[2], new[3])
    PROVE  ViewsInv'
<1>1. PICK id \in Unused :
        /\ ebay' = [ebay EXCEPT
              !.messages = @ \cup {[id |-> id, at |-> time, from |-> new[1], read |-> new[2], actor |-> Unowned]},
              !.unread = new[3]]
        /\ UNCHANGED <<time, conversation, stored, import, marks, said, markedRead>>
  BY DEF EbayMessage
<1> DEFINE m == [id |-> id, at |-> time, from |-> new[1], read |-> new[2], actor |-> Unowned]
<1>2. m \in Message /\ new[3] \in Nat
  BY UnusedIsNew, ViewsAssumption DEF Message, ViewsInv, ViewsTyped, RowsTyped
<1>3. ebay'.messages = ebay.messages \cup {m} /\ ebay' \in AtEbay
  BY <1>1, <1>2 DEF ViewsInv, ViewsTyped, RowsTyped, AtEbay
<1> HIDE DEF m
<1>4. Thread(ebay.messages) /\ m.id = id
  BY DEF ViewsInv, Threads, m
<1>5. Thread(ebay'.messages) /\ IdsOf(ebay.messages) \subseteq IdsOf(ebay'.messages)
  <2>1. Thread({m}) /\ IdsOf({m}) = {m.id}
    BY <1>2, OneMessage
  <2>2. IdsOf(ebay.messages) \cap IdsOf({m}) = {}
    BY <1>4, <2>1, UnusedIsNew
  <2>3. Thread(ebay.messages \cup {m}) /\ IdsOf(ebay.messages \cup {m}) = IdsOf(ebay.messages) \cup IdsOf({m})
    BY <1>4, <2>1, <2>2, LongerThread
  <2> QED
    BY <1>3, <2>3
<1>6. ViewsTyped'
  <2>1. RowsTyped'
    BY <1>1, <1>3 DEF ViewsInv, ViewsTyped, RowsTyped
  <2> QED
    BY <1>1, <2>1, ImportStays, MarksStay DEF ViewsTyped
<1>7. Threads'
  BY <1>1, <1>5 DEF ViewsInv, Threads, Inbounds, IdsOf
<1>8. MarksKept'
  BY <1>1 DEF ViewsInv, MarksKept, Marked
<1> QED
  BY <1>6, <1>7, <1>8 DEF ViewsInv

LEMMA EbayReadKeeps ==
    ASSUME ViewsInv, NEW read \in BOOLEAN, EbayRead(read)
    PROVE  ViewsInv'
<1> DEFINE F == [m \in ebay.messages |->
        [m EXCEPT !.read = IF @ = "unknown" THEN @ ELSE IF read THEN "read" ELSE "unread"]]
<1>1. Thread(ebay.messages)
  BY DEF ViewsInv, Threads
<1>2. \A m \in ebay.messages : F[m] \in Message /\ F[m].id = m.id
  BY <1>1 DEF Thread, Message
<1>3. ebay'.messages = {F[m] : m \in ebay.messages} /\ ebay' \in AtEbay
  <2> DEFINE N == {[m EXCEPT !.read = IF @ = "unknown" THEN @ ELSE IF read THEN "read" ELSE "unread"]
                    : m \in ebay.messages}
  <2>1. N = {F[m] : m \in ebay.messages} /\ N \in SUBSET Message
    BY <1>2, Zenon
  <2>2. ebay' = [ebay EXCEPT !.messages = N, !.unread = IF read THEN 0 ELSE 1]
    BY DEF EbayRead
  <2> HIDE DEF N
  <2>3. ebay \in AtEbay
    BY DEF ViewsInv, ViewsTyped, RowsTyped
  <2>4. ebay'.messages = N /\ ebay' \in AtEbay
    BY <2>1, <2>2, <2>3 DEF AtEbay
  <2> QED
    BY <2>1, <2>4
<1> HIDE DEF F
<1>4. Thread(ebay'.messages) /\ IdsOf(ebay'.messages) = IdsOf(ebay.messages)
  BY <1>1, <1>2, <1>3, RewrittenThread
<1>5. ViewsTyped'
  <2>1. RowsTyped'
    <3>1. UNCHANGED <<time, conversation, said>>
      BY DEF EbayRead
    <3> QED
      BY <1>3, <3>1 DEF ViewsInv, ViewsTyped, RowsTyped
  <2> QED
    BY <2>1, ImportStays, MarksStay DEF EbayRead, ViewsTyped
<1>6. Threads'
  BY <1>4 DEF EbayRead, ViewsInv, Threads, Inbounds, IdsOf
<1>7. MarksKept'
  BY DEF EbayRead, ViewsInv, MarksKept, Marked
<1> QED
  BY <1>5, <1>6, <1>7 DEF ViewsInv

LEMMA ImportReads == ViewsInv /\ (Fetch \/ ImportLoad) => ViewsInv'
<1>1. ASSUME ViewsInv, Fetch PROVE ViewsInv'
  <2>1. ebay.messages # {}
    BY <1>1 DEF ViewsInv, Threads, IdsOf, Inbounds
  <2>2. ViewsTyped'
    <3>1. ImportTyped'
      BY <1>1 DEF Fetch, ImportTyped, ViewsInv, ViewsTyped, RowsTyped, Fields, NotImporting
    <3> QED
      BY <1>1, <3>1, MarksStay DEF Fetch, ViewsInv, ViewsTyped, RowsTyped
  <2>3. Threads'
    BY <1>1, <2>1 DEF Fetch, ViewsInv, Threads, Inbounds, IdsOf, NotImporting
  <2>4. MarksKept'
    BY <1>1 DEF Fetch, ViewsInv, MarksKept, Marked, NotImporting
  <2> QED
    BY <2>2, <2>3, <2>4 DEF ViewsInv
<1>2. ASSUME ViewsInv, ImportLoad PROVE ViewsInv'
  <2>1. import'.step = "loaded" /\ import'.ebay = import.ebay /\ import'.row = conversation
        /\ Fields(import, {"step", "ebay", "row", "stored"})'
    BY <1>2 DEF ImportLoad, ViewsInv, ViewsTyped, ImportTyped, Fields
  <2>2. ViewsTyped'
    <3>1. ImportTyped'
      BY <1>2, <2>1 DEF ImportLoad, ImportTyped, ViewsInv, ViewsTyped, RowsTyped
    <3> QED
      BY <1>2, <3>1, MarksStay DEF ImportLoad, ViewsInv, ViewsTyped, RowsTyped
  <2>3. Threads'
    BY <1>2, <2>1 DEF ImportLoad, ViewsInv, Threads, Inbounds, IdsOf
  <2>4. MarksKept'
    BY <1>2, <2>1 DEF ImportLoad, ViewsInv, MarksKept, Marked
  <2> QED
    BY <2>2, <2>3, <2>4 DEF ViewsInv
<1> QED
  BY <1>1, <1>2

\* The latest time of a thread is a time.
LEMMA LatestTime ==
    ASSUME NEW ms, Thread(ms), ms # {}
    PROVE  Max({m.at : m \in ms}) \in Int
<1> DEFINE Times == {m.at : m \in ms}
<1>1. Times \in SUBSET Nat /\ Times # {} /\ LastTime \in Nat /\ \A t \in Times : t <= LastTime
  BY MessageTyped, ViewsAssumption DEF Thread
<1>2. \E t \in Times : \A n \in Times : n <= t
  BY ONLY <1>1, GreatestElement
<1>3. \E t \in Times : \A n \in Times : t >= n
  BY <1>1, <1>2
<1> QED
  BY <1>1, <1>3 DEF Max

\* What the import makes of the messages: the thread with eBay's new messages in it, its
\* older ones from whom they were.
LEMMA ImportedThread ==
    ASSUME NEW fetched, Thread(fetched), NEW loaded, NEW ms, Thread(ms)
    PROVE  LET after == MessagesAfter(fetched, loaded, ms)
           IN  /\ Thread(after) /\ IdsOf(after) = IdsOf(ms) \cup IdsOf(fetched)
               /\ \A m \in ms : \E n \in after : n.from = m.from
<1> DEFINE known == {m.id : m \in ms}
           old(id) == CHOOSE m \in loaded : m.id = id
           new(id) == CHOOSE m \in fetched : m.id = id
           F == [m \in ms |->
                  IF m.id \in {n.id : n \in fetched} /\ m.id \in {n.id : n \in loaded}
                  THEN [m EXCEPT !.read = Column(new(m.id).read, old(m.id).read, @),
                                 !.actor = Column(Unowned, old(m.id).actor, @)]
                  ELSE m]
           kept == {F[m] : m \in ms}
           more == {m \in fetched : m.id \notin known}
<1>1. \A m \in ms : F[m] \in Message /\ F[m].id = m.id /\ F[m].from = m.from
  <2> SUFFICES ASSUME NEW m \in ms PROVE F[m] \in Message /\ F[m].id = m.id /\ F[m].from = m.from
    OBVIOUS
  <2>1. m \in Message
    BY DEF Thread
  <2>2. CASE m.id \in {n.id : n \in fetched} /\ m.id \in {n.id : n \in loaded}
    <3>1. new(m.id) \in fetched
      BY <2>2
    <3>2. new(m.id).read \in {"read", "unread", "unknown"}
      BY <3>1 DEF Thread, Message
    <3>3. Column(new(m.id).read, old(m.id).read, m.read) \in {"read", "unread", "unknown"}
      BY <2>1, <3>2 DEF Column, Message
    <3>4. Column(Unowned, old(m.id).actor, m.actor) \in Viewer \cup {Unowned}
      BY <2>1 DEF Column, Message
    <3>5. F[m] = [m EXCEPT !.read = Column(new(m.id).read, old(m.id).read, m.read),
                           !.actor = Column(Unowned, old(m.id).actor, m.actor)]
      BY <2>2
    <3> QED
      BY <2>1, <3>3, <3>4, <3>5 DEF Message
  <2>3. CASE ~(m.id \in {n.id : n \in fetched} /\ m.id \in {n.id : n \in loaded})
    BY <2>1, <2>3
  <2> QED
    BY <2>2, <2>3
<1>2. MessagesAfter(fetched, loaded, ms) = kept \cup more
  BY DEF MessagesAfter
<1> HIDE DEF F
<1>3. Thread(kept) /\ IdsOf(kept) = IdsOf(ms)
  BY <1>1, RewrittenThread
<1>4. Thread(more)
  BY FS_Subset DEF Thread
<1>5. IdsOf(kept) \cap IdsOf(more) = {} /\ IdsOf(ms) \cup IdsOf(more) = IdsOf(ms) \cup IdsOf(fetched)
  BY <1>3 DEF IdsOf
<1>6. Thread(kept \cup more) /\ IdsOf(kept \cup more) = IdsOf(ms) \cup IdsOf(fetched)
  <2> HIDE DEF kept, more
  <2> QED
    BY <1>3, <1>4, <1>5, LongerThread
<1> QED
  BY <1>1, <1>2, <1>6

LEMMA ImportApplyKeeps == ViewsInv /\ ImportApply => ViewsInv'
<1> SUFFICES ASSUME ViewsInv, ImportApply PROVE ViewsInv'
  OBVIOUS
<1> DEFINE fetched == import.ebay
           row == import.row
           after == MessagesAfter(fetched.messages, import.stored, stored)
<1>1. PICK changed \in BOOLEAN : conversation' = Upserted(fetched, row, conversation, changed)
  BY DEF ImportApply
<1>2. Thread(fetched.messages) /\ fetched.messages # {} /\ IdsOf(fetched.messages) \subseteq IdsOf(ebay.messages)
      /\ Thread(stored) /\ Marked(row, markedRead) /\ row \in Conversation /\ fetched \in AtEbay
  BY DEF ImportApply, ViewsInv, Threads, MarksKept, ViewsTyped, ImportTyped
<1>3. Max({m.at : m \in fetched.messages}) \in Int
  BY <1>2, LatestTime
<1> DEFINE mark == IF changed THEN CarriedOver(row)
                   ELSE Column(CarriedOver(row), row.override, conversation.override)
<1>4. conversation' = [conversation EXCEPT
          !.unread = Column(fetched.unread, row.unread, conversation.unread),
          !.override = mark,
          !.last = Column(Max({m.at : m \in fetched.messages}), row.last, conversation.last)]
  BY <1>1 DEF Upserted
<1>5. Column(fetched.unread, row.unread, conversation.unread) \in Nat
      /\ Column(Max({m.at : m \in fetched.messages}), row.last, conversation.last) \in Int
  BY <1>2, <1>3 DEF Column, AtEbay, ViewsInv, ViewsTyped, RowsTyped, Conversation
<1>6. mark \in {row.override, conversation.override}
  BY DEF CarriedOver, Column
<1>7. conversation' \in Conversation /\ conversation'.override = mark
  <2> HIDE DEF mark
  <2> QED
    BY <1>2, <1>4, <1>5, <1>6 DEF Conversation, ViewsInv, ViewsTyped, RowsTyped
<1>8. Thread(after) /\ IdsOf(after) \subseteq IdsOf(ebay.messages)
      /\ \A m \in stored : \E n \in after : n.from = m.from
  BY <1>2, ImportedThread DEF ViewsInv, Threads
<1>9. stored' = after /\ import' = NotImporting /\ UNCHANGED <<time, ebay, marks, markedRead>>
      /\ said' = IF Overtaken(row, import.stored) THEN Unsaid ELSE said
  BY DEF ImportApply
<1> HIDE DEF after
<1>10. ViewsTyped'
  <2>1. ImportTyped'
    BY <1>9 DEF ImportTyped, Fields, NotImporting
  <2>2. RowsTyped'
    BY <1>7, <1>9 DEF ViewsInv, ViewsTyped, RowsTyped, Unsaid, Said
  <2> QED
    BY <1>9, <2>1, <2>2, MarksStay DEF ViewsTyped
<1>11. Threads'
  BY <1>8, <1>9 DEF ViewsInv, Threads, Inbounds, Inbound, IdsOf, NotImporting
<1>12. MarksKept'
  <2>1. Marked(conversation, markedRead)'
    BY <1>2, <1>6, <1>7, <1>9 DEF ViewsInv, MarksKept, Marked
  <2>2. (said.set => conversation.override = said)'
    <3> SUFFICES ASSUME said'.set PROVE conversation'.override = said'
      OBVIOUS
    <3>1. said' = said /\ row = conversation
      BY <1>9 DEF Overtaken, Unsaid
    <3> QED
      BY <1>6, <1>7, <3>1 DEF ViewsInv, MarksKept
  <2> QED
    BY <1>9, <2>1, <2>2 DEF MarksKept, NotImporting
<1> QED
  BY <1>10, <1>11, <1>12 DEF ViewsInv

LEMMA MarkLoadKeeps ==
    ASSUME ViewsInv, NEW a \in Viewer, NEW read \in BOOLEAN, MarkLoad(a, read)
    PROVE  ViewsInv'
<1>1. stored # {}
  BY DEF ViewsInv, Threads, Inbounds
<1>2. marks'[a].set /\ marks'[a].read = read /\ marks'[a].row = conversation /\ marks'[a].stored = stored
      /\ DOMAIN marks' = Viewer /\ \A b \in Viewer : b # a => marks'[b] = marks[b]
  BY DEF MarkLoad, ViewsInv, ViewsTyped, MarksTyped
<1>3. UNCHANGED <<time, ebay, conversation, stored, import, said, markedRead>>
  BY DEF MarkLoad
<1>4. ViewsTyped'
  <2>1. RowsTyped'
    BY <1>3 DEF ViewsInv, ViewsTyped, RowsTyped
  <2>2. MarksTyped'
    <3>1. marks'[a].set \in BOOLEAN /\ marks'[a].read \in BOOLEAN /\ marks'[a].row \in Conversation
      BY <1>2 DEF MarkLoad, ViewsInv, ViewsTyped, RowsTyped
    <3> QED
      BY <1>2, <3>1 DEF ViewsInv, ViewsTyped, MarksTyped
  <2> QED
    BY <1>3, <2>1, <2>2, ImportStays DEF ViewsTyped
<1>5. Threads'
  <2>1. Thread(stored) /\ \A b \in Viewer : marks[b].set => Thread(marks[b].stored) /\ marks[b].stored # {}
    BY DEF ViewsInv, Threads
  <2>2. \A b \in Viewer : marks'[b].set => Thread(marks'[b].stored) /\ marks'[b].stored # {}
    BY <1>1, <1>2, <2>1
  <2> QED
    BY <1>3, <2>2 DEF ViewsInv, Threads, Inbounds, IdsOf
<1>6. MarksKept'
  BY <1>3 DEF ViewsInv, MarksKept, Marked
<1> QED
  BY <1>4, <1>5, <1>6 DEF ViewsInv

LEMMA MarkCommitKeeps ==
    ASSUME ViewsInv, NEW a \in Viewer, MarkCommit(a)
    PROVE  ViewsInv'
<1> DEFINE mine == marks[a]
           mark == [set |-> TRUE, read |-> mine.read, message |-> LatestOf(mine.stored).id]
           loaded == {m.id : m \in {n \in mine.stored : Inbound(n) /\ n.read # "read"}}
           F == [m \in stored |-> IF mine.read /\ m.id \in loaded THEN [m EXCEPT !.read = "read"] ELSE m]
           after == {F[m] : m \in stored}
           override == Column(mark, mine.row.override, conversation.override)
           unread == IF mine.read THEN Column(0, mine.row.unread, conversation.unread) ELSE conversation.unread
<1>1. mine.set /\ mine.read \in BOOLEAN /\ mine.row \in Conversation
      /\ Thread(mine.stored) /\ mine.stored # {} /\ Thread(stored)
  BY DEF MarkCommit, ViewsInv, ViewsTyped, MarksTyped, Threads
<1>2. LatestOf(mine.stored) \in mine.stored /\ mark \in Said
  <2>1. LatestOf(mine.stored) \in mine.stored
    BY <1>1, LatestIs
  <2> QED
    BY <1>1, <2>1, MessageTyped DEF Thread, Said
<1>3. conversation' = [conversation EXCEPT !.override = override, !.unread = unread]
      /\ said' = (IF Overtaken(mine.row, mine.stored) THEN Unsaid ELSE mark)
      /\ markedRead' = (IF mine.read THEN markedRead \cup IdsOf(mine.stored) ELSE markedRead)
      /\ marks' = [marks EXCEPT ![a] = NotMarking]
      /\ UNCHANGED <<time, ebay, import>>
  BY DEF MarkCommit, IdsOf
<1>4. stored' = after
  BY DEF MarkCommit
<1>5. \A m \in stored : F[m] \in Message /\ F[m].id = m.id /\ F[m].from = m.from
  BY <1>1 DEF Thread, Message
<1> HIDE DEF F
<1>6. Thread(after) /\ IdsOf(after) = IdsOf(stored)
  BY <1>1, <1>5, RewrittenThread
<1>7. override \in {mark, conversation.override} /\ override \in Said /\ unread \in Nat
  <2>1. conversation \in Conversation
    BY DEF ViewsInv, ViewsTyped, RowsTyped
  <2>2. override \in {mark, conversation.override}
    BY DEF Column
  <2>3. unread \in Nat
    BY <2>1 DEF Column, Conversation
  <2> HIDE DEF mark, override
  <2> QED
    BY <1>2, <2>1, <2>2, <2>3 DEF Conversation
<1>8. conversation' \in Conversation /\ conversation'.override = override
  <2> HIDE DEF override, unread
  <2> QED
    BY <1>3, <1>7 DEF ViewsInv, ViewsTyped, RowsTyped, Conversation
<1>9. DOMAIN marks' = Viewer /\ ~marks'[a].set /\ marks'[a].set \in BOOLEAN /\ marks'[a].read \in BOOLEAN
      /\ \A b \in Viewer : b # a => marks'[b] = marks[b]
  BY <1>3 DEF NotMarking, ViewsInv, ViewsTyped, MarksTyped
<1>10. ViewsTyped'
  <2>1. RowsTyped'
    <3>1. Unsaid \in Said
      BY DEF Unsaid, Said
    <3> HIDE DEF mark
    <3> QED
      BY <1>2, <1>3, <1>8, <3>1 DEF ViewsInv, ViewsTyped, RowsTyped
  <2>2. MarksTyped'
    BY <1>9 DEF ViewsInv, ViewsTyped, MarksTyped
  <2> QED
    BY <1>3, <2>1, <2>2, ImportStays DEF ViewsTyped
<1>11. Threads'
  <2>1. PICK m \in stored : Inbound(m)
    BY DEF ViewsInv, Threads, Inbounds
  <2>2. F[m] \in after /\ Inbound(F[m])
    BY <1>5, <2>1 DEF Inbound
  <2>3. \A b \in Viewer : marks'[b].set => Thread(marks'[b].stored) /\ marks'[b].stored # {}
    BY <1>9 DEF ViewsInv, Threads
  <2> HIDE DEF after
  <2> QED
    BY <1>3, <1>4, <1>6, <2>2, <2>3 DEF ViewsInv, Threads, Inbounds, IdsOf
<1>12. MarksKept'
  <2>1. markedRead \subseteq markedRead' /\ (mark.read => mark.message \in markedRead')
    BY <1>2, <1>3 DEF IdsOf
  <2>2. Marked(conversation, markedRead)'
    <3> HIDE DEF mark
    <3> QED
      BY <1>7, <1>8, <2>1 DEF ViewsInv, MarksKept, Marked
  <2>3. (said.set => conversation.override = said)'
    <3> SUFFICES ASSUME said'.set PROVE conversation'.override = said'
      OBVIOUS
    <3>1. said' = mark /\ mine.row = conversation
      BY <1>3 DEF Overtaken, Unsaid
    <3>2. override = mark
      BY <3>1 DEF Column
    <3> QED
      BY <1>8, <3>1, <3>2
  <2>4. (import.step = "loaded" => Marked(import.row, markedRead))'
    BY <1>3, <2>1 DEF ViewsInv, MarksKept, Marked
  <2> QED
    BY <2>2, <2>3, <2>4 DEF MarksKept
<1> QED
  BY <1>10, <1>11, <1>12 DEF ViewsInv

LEMMA ReplyKeeps ==
    ASSUME ViewsInv, NEW a \in Viewer, Reply(a)
    PROVE  ViewsInv'
<1>1. PICK id \in Unused :
        LET m == [id |-> id, at |-> time, from |-> "AGENT", read |-> "read", actor |-> a]
        IN  /\ stored' = stored \cup {m}
            /\ ebay' = [ebay EXCEPT !.messages = @ \cup {[m EXCEPT !.actor = Unowned]}]
            /\ conversation' = [conversation EXCEPT !.last = time, !.holder = IF @ = Unowned THEN @ ELSE a]
            /\ UNCHANGED <<time, import, marks, said, markedRead>>
  BY DEF Reply
<1> DEFINE m == [id |-> id, at |-> time, from |-> "AGENT", read |-> "read", actor |-> a]
           n == [m EXCEPT !.actor = Unowned]
<1>2. id \in Ids /\ id \notin IdsOf(ebay.messages) /\ id \notin IdsOf(stored)
  BY UnusedIsNew
<1>3. m \in Message /\ n \in Message /\ m.id = id /\ n.id = id
  BY <1>2 DEF Message, ViewsInv, ViewsTyped, RowsTyped
<1>4. stored' = stored \cup {m} /\ ebay' = [ebay EXCEPT !.messages = ebay.messages \cup {n}]
      /\ conversation' = [conversation EXCEPT !.last = time,
                              !.holder = IF conversation.holder = Unowned THEN conversation.holder ELSE a]
      /\ UNCHANGED <<time, import, marks, said, markedRead>>
  BY <1>1
<1> HIDE DEF m, n
<1>5. Thread(ebay.messages) /\ Thread(stored) /\ IdsOf(stored) \subseteq IdsOf(ebay.messages)
      /\ ebay \in AtEbay /\ conversation \in Conversation /\ time \in Int
  BY DEF ViewsInv, Threads, ViewsTyped, RowsTyped
<1>6. ebay'.messages = ebay.messages \cup {n} /\ ebay' \in AtEbay
  BY <1>3, <1>4, <1>5 DEF AtEbay
<1>7. conversation' \in Conversation /\ conversation'.override = conversation.override
  BY <1>4, <1>5 DEF Conversation
<1>8. Thread({m}) /\ Thread({n}) /\ IdsOf({m}) = {id} /\ IdsOf({n}) = {id}
  BY <1>3, OneMessage
<1>9. IdsOf(ebay.messages) \cap IdsOf({n}) = {} /\ IdsOf(stored) \cap IdsOf({m}) = {}
  BY <1>2, <1>8
<1>10. Thread(stored') /\ IdsOf(stored') = IdsOf(stored) \cup {id}
  <2>1. Thread(stored \cup {m}) /\ IdsOf(stored \cup {m}) = IdsOf(stored) \cup IdsOf({m})
    BY <1>5, <1>8, <1>9, LongerThread
  <2> QED
    BY <1>4, <1>8, <2>1
<1>11. Thread(ebay'.messages) /\ IdsOf(ebay'.messages) = IdsOf(ebay.messages) \cup {id}
  <2>1. Thread(ebay.messages \cup {n}) /\ IdsOf(ebay.messages \cup {n}) = IdsOf(ebay.messages) \cup IdsOf({n})
    BY <1>5, <1>8, <1>9, LongerThread
  <2> QED
    BY <1>6, <1>8, <2>1
<1>12. ViewsTyped'
  <2>1. RowsTyped'
    BY <1>4, <1>6, <1>7 DEF ViewsInv, ViewsTyped, RowsTyped
  <2> QED
    BY <1>4, <2>1, ImportStays, MarksStay DEF ViewsTyped
<1>13. Threads'
  <2>1. IdsOf(stored') \subseteq IdsOf(ebay'.messages) /\ IdsOf(ebay.messages) \subseteq IdsOf(ebay'.messages)
    BY <1>5, <1>10, <1>11
  <2>2. Inbounds' # {}
    BY <1>4 DEF ViewsInv, Threads, Inbounds
  <2> QED
    BY <1>4, <1>10, <1>11, <2>1, <2>2 DEF ViewsInv, Threads, IdsOf
<1>14. MarksKept'
  BY <1>4, <1>7 DEF ViewsInv, MarksKept, Marked
<1> QED
  BY <1>12, <1>13, <1>14 DEF ViewsInv

LEMMA RestKeeps ==
    ASSUME ViewsInv, TimePasses \/ Close \/ (\E a \in Viewer : Assign(a)) \/ UNCHANGED viewsVars
    PROVE  ViewsInv'
<1>1. UNCHANGED <<ebay, stored, import, marks, said, markedRead>>
  BY DEF TimePasses, Close, Assign, viewsVars
<1>2. time' \in 0..LastTime
  BY ViewsAssumption DEF TimePasses, Close, Assign, viewsVars, ViewsInv, ViewsTyped, RowsTyped
<1>3. conversation' \in Conversation /\ conversation'.override = conversation.override
  <2>1. conversation \in Conversation
    BY DEF ViewsInv, ViewsTyped, RowsTyped
  <2>2. CASE conversation' = conversation
    BY <2>1, <2>2
  <2>3. CASE Close
    BY <2>1, <2>3 DEF Close, Conversation
  <2>4. CASE \E a \in Viewer : Assign(a)
    BY <2>1, <2>4 DEF Assign, Conversation
  <2> QED
    BY <2>2, <2>3, <2>4 DEF TimePasses, viewsVars
<1>4. ViewsTyped'
  <2>1. RowsTyped'
    BY <1>1, <1>2, <1>3 DEF ViewsInv, ViewsTyped, RowsTyped
  <2> QED
    BY <1>1, <2>1, ImportStays, MarksStay DEF ViewsTyped
<1>5. Threads'
  BY <1>1 DEF ViewsInv, Threads, Inbounds, IdsOf
<1>6. MarksKept'
  BY <1>1, <1>3 DEF ViewsInv, MarksKept, Marked
<1> QED
  BY <1>4, <1>5, <1>6 DEF ViewsInv

LEMMA ViewsStep == ViewsInv /\ [ViewsNext]_viewsVars => ViewsInv'
<1> SUFFICES ASSUME ViewsInv, [ViewsNext]_viewsVars PROVE ViewsInv'
  OBVIOUS
<1>1. CASE TimePasses \/ Close \/ (\E a \in Viewer : Assign(a)) \/ UNCHANGED viewsVars
  BY <1>1, RestKeeps
<1>2. CASE Fetch \/ ImportLoad
  BY <1>2, ImportReads
<1>3. CASE ImportApply
  BY <1>3, ImportApplyKeeps
<1>4. CASE \E new \in Arrivals : EbayMessage(new[1], new[2], new[3])
  BY <1>4, EbayMessageKeeps
<1>5. CASE \E read \in BOOLEAN : EbayRead(read)
  BY <1>5, EbayReadKeeps
<1>6. CASE \E a \in Viewer : (\E read \in BOOLEAN : MarkLoad(a, read)) \/ OpenConversation(a)
  BY <1>6, MarkLoadKeeps DEF OpenConversation
<1>7. CASE \E a \in Viewer : MarkCommit(a)
  BY <1>7, MarkCommitKeeps
<1>8. CASE \E a \in Viewer : Reply(a)
  BY <1>8, ReplyKeeps
<1> QED
  BY <1>1, <1>2, <1>3, <1>4, <1>5, <1>6, <1>7, <1>8 DEF ViewsNext, MarkSteps, ReportSteps

(***************************************************************************)
(* What an agent said of the latest message stands under eBay's own marks, *)
(* nothing unread is hidden, the database's filter finds what shows the    *)
(* badge and the report counts what the inbox lists: for any number of     *)
(* agents and messages, and any arrivals, times and filters.               *)
(***************************************************************************)
THEOREM ViewsAgree == ViewsSpec => []ViewsShown
BY ViewsBegin, ViewsStep, ViewsFit, PTL DEF ViewsSpec

----------------------------------------------------------------------------
(* The work of a day.                                                      *)

Counts == [Task -> Nat]
Report == [copied : BOOLEAN, tasks : Counts]
SaveRow == [copied : BOOLEAN, day : 1 .. LastDay, since : Counts, tasks : Counts]
WorkTyped ==
    /\ today \in 1 .. LastDay /\ DOMAIN catalog \subseteq Task
    /\ done \in Counts /\ since \in Counts
    /\ report \in [1 .. LastDay -> Report]
    /\ saves \subseteq SaveRow /\ \A s \in saves : s.day <= today
    /\ DOMAIN dialog \subseteq Task /\ \A t \in DOMAIN dialog : dialog[t] \in Nat
    /\ DOMAIN entry = 1 .. LastDay

\* An entry made after its day has the last word on it: the day's report changes no more.
EntriesStand ==
    /\ \A d \in 1 .. LastDay : entry[d].after => d < today /\ entry[d].scored = Performed(d)
    /\ \A d \in 1 .. LastDay : d > today => ~report[d].copied

\* What is copied of a task, what the open review shows of it and what a copy under way
\* will write, each with the work done since, is at most the work of the day.
CountsOnce ==
    ~resaved => \A t \in Task : Source[t] = "counted" =>
        /\ report[today].copied => report[today].tasks[t] + since[t] <= done[t]
        /\ t \in DOMAIN dialog => dialog[t] <= done[t]
        /\ \A s \in saves : s.copied /\ s.day = today => s.tasks[t] + s.since[t] <= done[t]

WorkInv == WorkTyped /\ EntriesStand /\ CountsOnce

LEMMA ZeroCounts == Zero \in Counts /\ \A t \in Task : Zero[t] = 0
BY DEF Zero, Counts

LEMMA WorkBegins == WorkInit => WorkInv
<1> SUFFICES ASSUME WorkInit PROVE WorkInv
  OBVIOUS
<1>1. WorkTyped
  <2>1. DOMAIN dialog = {}
    BY DEF WorkInit
  <2>2. NoReport \in Report
    BY ZeroCounts DEF NoReport, Report
  <2> QED
    BY <2>1, <2>2, ZeroCounts, WorkAssumption DEF WorkInit, WorkTyped
<1>2. EntriesStand
  BY DEF WorkInit, EntriesStand, NoReport, NoEntry
<1>3. CountsOnce
  <2>1. DOMAIN dialog = {}
    BY DEF WorkInit
  <2> QED
    BY <2>1, WorkAssumption DEF WorkInit, CountsOnce, NoReport
<1> QED
  BY <1>1, <1>2, <1>3 DEF WorkInv

LEMMA WorkFits == WorkInv => NoWorkCountedTwice /\ FinishedDayStands
<1> SUFFICES ASSUME WorkInv PROVE NoWorkCountedTwice /\ FinishedDayStands
  OBVIOUS
<1>1. NoWorkCountedTwice
  <2> SUFFICES ASSUME ~resaved, NEW t \in ActiveTasks, Source[t] = "counted" PROVE Shown(t) <= done[t]
    BY DEF NoWorkCountedTwice
  <2>1. t \in Task /\ ~Manual(t)
    BY DEF ActiveTasks, Manual, WorkInv, WorkTyped
  <2>2. done[t] \in Nat
    BY <2>1 DEF WorkInv, WorkTyped, Counts
  <2> QED
    BY <2>1, <2>2 DEF Shown, WorkInv, CountsOnce
<1>2. FinishedDayStands
  BY DEF FinishedDayStands, WorkInv, EntriesStand
<1> QED
  BY <1>1, <1>2

\* One more of a task's work.
LEMMA CountedIs ==
    ASSUME NEW counts \in Counts, NEW t \in Task
    PROVE  /\ Counted(counts, t) \in Counts /\ Counted(counts, t)[t] = counts[t] + 1
           /\ \A x \in Task : x # t => Counted(counts, t)[x] = counts[x]
BY DEF Counted, Counts

\* Reports and the entries of days are left alone.
LEMMA EntriesStay ==
    ASSUME EntriesStand, UNCHANGED <<today, report, entry>>
    PROVE  EntriesStand'
BY DEF EntriesStand, Performed

\* Nothing that is counted is touched.
LEMMA CountsStay ==
    ASSUME CountsOnce, UNCHANGED <<today, done, since, report, dialog, saves, resaved>>
    PROVE  CountsOnce'
BY DEF CountsOnce

LEMMA CatalogKeeps ==
    ASSUME WorkInv, NEW t \in Task, NEW active \in BOOLEAN, CreateTask(t) \/ UpdateTask(t, active)
    PROVE  WorkInv'
<1>1. UNCHANGED <<today, done, since, report, dialog, saves, entry, resaved>>
  BY DEF CreateTask, UpdateTask
<1>2. DOMAIN catalog' \subseteq Task
  BY DEF CreateTask, UpdateTask, WorkInv, WorkTyped
<1>3. WorkTyped'
  BY <1>1, <1>2 DEF WorkInv, WorkTyped
<1> QED
  BY <1>1, <1>3, EntriesStay, CountsStay DEF WorkInv

\* Work, and offers of another day, counted into saves under way.
LEMMA SavesCount ==
    ASSUME WorkInv, NEW t \in Task, saves' = {[s EXCEPT !.since = Counted(@, t)] : s \in saves}
    PROVE  /\ saves' \subseteq SaveRow
           /\ \A n \in saves' : \E s \in saves :
                n.copied = s.copied /\ n.day = s.day /\ n.tasks = s.tasks /\ n.since = Counted(s.since, t)
<1>1. \A s \in saves : s \in SaveRow /\ Counted(s.since, t) \in Counts
  BY CountedIs DEF WorkInv, WorkTyped, SaveRow
<1> SUFFICES ASSUME NEW n \in saves'
            PROVE /\ n \in SaveRow
                  /\ \E s \in saves :
                        n.copied = s.copied /\ n.day = s.day /\ n.tasks = s.tasks /\ n.since = Counted(s.since, t)
  OBVIOUS
<1>2. PICK s \in saves : n = [s EXCEPT !.since = Counted(s.since, t)]
  OBVIOUS
<1> QED
  BY <1>1, <1>2 DEF SaveRow

LEMMA WorkKeeps ==
    ASSUME WorkInv, NEW t \in Task, Work(t)
    PROVE  WorkInv'
<1>1. /\ done' = Counted(done, t)
      /\ since' = (IF report[today].copied THEN Counted(since, t) ELSE since)
      /\ saves' = {[s EXCEPT !.since = Counted(@, t)] : s \in saves}
      /\ UNCHANGED <<today, catalog, report, dialog, entry, resaved>>
  BY DEF Work
<1>2. /\ saves' \subseteq SaveRow
      /\ \A n \in saves' : \E s \in saves :
            n.copied = s.copied /\ n.day = s.day /\ n.tasks = s.tasks /\ n.since = Counted(s.since, t)
  BY <1>1, SavesCount
<1>3. done \in Counts /\ since \in Counts /\ done' \in Counts /\ since' \in Counts
  BY <1>1, CountedIs DEF WorkInv, WorkTyped
<1>4. WorkTyped'
  BY <1>1, <1>2, <1>3 DEF WorkInv, WorkTyped
<1>5. CountsOnce'
  <2> SUFFICES ASSUME ~resaved, NEW x \in Task, Source[x] = "counted"
              PROVE /\ report[today].copied => report[today].tasks[x] + since'[x] <= done'[x]
                    /\ x \in DOMAIN dialog => dialog[x] <= done'[x]
                    /\ \A n \in saves' : n.copied /\ n.day = today => n.tasks[x] + n.since[x] <= done'[x]
    BY <1>1 DEF CountsOnce
  <2>1. /\ report[today].copied => report[today].tasks[x] + since[x] <= done[x]
        /\ x \in DOMAIN dialog => dialog[x] <= done[x]
        /\ \A s \in saves : s.copied /\ s.day = today => s.tasks[x] + s.since[x] <= done[x]
    BY DEF WorkInv, CountsOnce
  <2>2. done[x] \in Nat /\ since[x] \in Nat /\ report[today].tasks[x] \in Nat
        /\ (x \in DOMAIN dialog => dialog[x] \in Nat)
        /\ \A s \in saves : s.tasks[x] \in Nat /\ s.since[x] \in Nat /\ s.since \in Counts
    BY DEF WorkInv, WorkTyped, Counts, SaveRow, Report
  <2>3. done'[x] = IF x = t THEN done[x] + 1 ELSE done[x]
    BY <1>1, <1>3, CountedIs
  <2>4. report[today].copied => since'[x] = IF x = t THEN since[x] + 1 ELSE since[x]
    BY <1>1, <1>3, CountedIs
  <2>5. \A s \in saves : Counted(s.since, t)[x] = IF x = t THEN s.since[x] + 1 ELSE s.since[x]
    BY <2>2, CountedIs
  <2>6. report[today].copied => report[today].tasks[x] + since'[x] <= done'[x]
    BY <2>1, <2>2, <2>3, <2>4
  <2>7. x \in DOMAIN dialog => dialog[x] <= done'[x]
    BY <2>1, <2>2, <2>3
  <2>8. ASSUME NEW n \in saves', n.copied, n.day = today PROVE n.tasks[x] + n.since[x] <= done'[x]
    <3>1. PICK s \in saves : n.copied = s.copied /\ n.day = s.day /\ n.tasks = s.tasks /\ n.since = Counted(s.since, t)
      BY <1>2
    <3>2. s.tasks[x] + s.since[x] <= done[x]
      BY <2>1, <2>8, <3>1
    <3> QED
      BY <2>2, <2>3, <2>5, <3>1, <3>2
  <2> QED
    BY <2>6, <2>7, <2>8
<1> QED
  BY <1>1, <1>4, <1>5, EntriesStay DEF WorkInv

LEMMA OfferKeeps ==
    ASSUME WorkInv, NEW t \in Task, OfferOfAnotherDay(t)
    PROVE  WorkInv'
<1>1. /\ Source[t] = "offers"
      /\ since' = (IF report[today].copied THEN Counted(since, t) ELSE since)
      /\ saves' = {[s EXCEPT !.since = Counted(@, t)] : s \in saves}
      /\ UNCHANGED <<today, catalog, done, report, dialog, entry, resaved>>
  BY DEF OfferOfAnotherDay
<1>2. /\ saves' \subseteq SaveRow
      /\ \A n \in saves' : \E s \in saves :
            n.copied = s.copied /\ n.day = s.day /\ n.tasks = s.tasks /\ n.since = Counted(s.since, t)
  BY <1>1, SavesCount
<1>3. since \in Counts /\ since' \in Counts
  BY <1>1, CountedIs DEF WorkInv, WorkTyped
<1>4. WorkTyped'
  BY <1>1, <1>2, <1>3 DEF WorkInv, WorkTyped
<1>5. CountsOnce'
  <2> SUFFICES ASSUME ~resaved, NEW x \in Task, Source[x] = "counted"
              PROVE /\ report[today].copied => report[today].tasks[x] + since'[x] <= done[x]
                    /\ x \in DOMAIN dialog => dialog[x] <= done[x]
                    /\ \A n \in saves' : n.copied /\ n.day = today => n.tasks[x] + n.since[x] <= done[x]
    BY <1>1 DEF CountsOnce
  <2>1. x # t /\ \A s \in saves : s.since \in Counts
    BY <1>1 DEF WorkInv, WorkTyped, SaveRow
  <2>2. since'[x] = since[x] /\ \A s \in saves : Counted(s.since, t)[x] = s.since[x]
    BY <1>1, <1>3, <2>1, CountedIs
  <2>3. /\ report[today].copied => report[today].tasks[x] + since[x] <= done[x]
        /\ x \in DOMAIN dialog => dialog[x] <= done[x]
        /\ \A s \in saves : s.copied /\ s.day = today => s.tasks[x] + s.since[x] <= done[x]
    BY DEF WorkInv, CountsOnce
  <2>4. ASSUME NEW n \in saves', n.copied, n.day = today PROVE n.tasks[x] + n.since[x] <= done[x]
    <3>1. PICK s \in saves : n.copied = s.copied /\ n.day = s.day /\ n.tasks = s.tasks /\ n.since = Counted(s.since, t)
      BY <1>2
    <3> QED
      BY <2>2, <2>3, <2>4, <3>1
  <2> QED
    BY <2>2, <2>3, <2>4
<1> QED
  BY <1>1, <1>4, <1>5, EntriesStay DEF WorkInv

LEMMA MidnightKeeps == WorkInv /\ Midnight => WorkInv'
<1> SUFFICES ASSUME WorkInv, Midnight PROVE WorkInv'
  OBVIOUS
<1>1. /\ today < LastDay /\ today' = today + 1 /\ today \in 1 .. LastDay /\ LastDay \in Nat
      /\ done' = Zero /\ since' = Zero /\ dialog' = <<>> /\ resaved' = FALSE
      /\ UNCHANGED <<catalog, report, saves, entry>>
  BY WorkAssumption DEF Midnight, WorkInv, WorkTyped
<1>2. DOMAIN dialog' = {}
  BY <1>1
<1>3. \A s \in saves : s.day \in Int /\ s.day <= today
  BY DEF WorkInv, WorkTyped, SaveRow
<1>4. WorkTyped'
  BY <1>1, <1>2, <1>3, ZeroCounts DEF WorkInv, WorkTyped
<1>5. EntriesStand'
  <2>1. \A d : Performed(d)' = Performed(d)
    BY <1>1 DEF Performed
  <2>2. \A d \in 1 .. LastDay : (d < today => d < today') /\ (d > today' => d > today)
    BY <1>1
  <2> QED
    BY <1>1, <2>1, <2>2 DEF WorkInv, EntriesStand
<1>6. CountsOnce'
  <2>1. ~report[today'].copied
    BY <1>1 DEF WorkInv, EntriesStand
  <2>2. \A s \in saves : s.day # today'
    BY <1>1, <1>3
  <2> QED
    BY <1>1, <1>2, <2>1, <2>2 DEF CountsOnce
<1> QED
  BY <1>4, <1>5, <1>6 DEF WorkInv

LEMMA OpenDialogKeeps == WorkInv /\ OpenDialog => WorkInv'
<1> SUFFICES ASSUME WorkInv, OpenDialog PROVE WorkInv'
  OBVIOUS
<1>1. DOMAIN dialog' = ActiveTasks /\ (\A t \in ActiveTasks : dialog'[t] = Shown(t))
      /\ UNCHANGED <<today, catalog, done, since, report, saves, entry, resaved>>
  BY DEF OpenDialog
<1>2. ActiveTasks \subseteq Task
  BY DEF ActiveTasks, WorkInv, WorkTyped
<1>3. \A t \in Task : Shown(t) \in Nat
  <2> SUFFICES ASSUME NEW t \in Task PROVE Shown(t) \in Nat
    OBVIOUS
  <2>1. report[today].tasks[t] \in Nat /\ since[t] \in Nat /\ done[t] \in Nat
    BY DEF WorkInv, WorkTyped, Report, Counts
  <2> QED
    BY <2>1 DEF Shown
<1>4. WorkTyped'
  BY <1>1, <1>2, <1>3 DEF WorkInv, WorkTyped
<1>5. CountsOnce'
  BY <1>1, WorkFits DEF NoWorkCountedTwice, WorkInv, CountsOnce
<1> QED
  BY <1>1, <1>4, <1>5, EntriesStay DEF WorkInv

LEMMA CopyBeginKeeps ==
    ASSUME WorkInv, NEW quantity \in [DOMAIN dialog -> 0 .. 2 * MaxWork], CopyBegin(quantity)
    PROVE  WorkInv'
<1> DEFINE new == NewSave(TRUE, Reviewed(quantity))
<1>1. /\ DOMAIN dialog = ActiveTasks /\ saves' = saves \cup {new} /\ dialog' = <<>>
      /\ \A t \in ActiveTasks : quantity[t] <= IF Manual(t) THEN 1 ELSE dialog[t]
      /\ UNCHANGED <<today, catalog, done, since, report, entry, resaved>>
  BY DEF CopyBegin
<1>2. DOMAIN dialog' = {} /\ DOMAIN dialog \subseteq Task /\ MaxWork \in Nat
  BY <1>1, WorkAssumption DEF WorkInv, WorkTyped
<1>3. Reviewed(quantity) \in Counts
  BY <1>2 DEF Reviewed, Counts
<1>4. new \in SaveRow /\ new.day = today /\ new.since = Zero /\ new.tasks = Reviewed(quantity)
  BY <1>3, ZeroCounts DEF NewSave, SaveRow, WorkInv, WorkTyped
<1> HIDE DEF new
<1>5. WorkTyped'
  BY <1>1, <1>2, <1>4 DEF WorkInv, WorkTyped
<1>6. CountsOnce'
  <2> SUFFICES ASSUME ~resaved, NEW t \in Task, Source[t] = "counted"
              PROVE \A s \in saves' : s.copied /\ s.day = today => s.tasks[t] + s.since[t] <= done[t]
    BY <1>1, <1>2 DEF WorkInv, CountsOnce
  <2>1. done[t] \in Nat /\ new.since[t] = 0 /\ ~Manual(t)
    BY <1>4, ZeroCounts DEF WorkInv, WorkTyped, Counts, Manual
  <2>2. new.tasks[t] \in Nat /\ new.tasks[t] <= done[t]
    <3>1. CASE t \in DOMAIN dialog
      <4>1. new.tasks[t] = quantity[t] /\ quantity[t] \in Nat /\ quantity[t] <= dialog[t]
        BY <1>1, <1>2, <1>4, <2>1, <3>1 DEF Reviewed
      <4>2. dialog[t] <= done[t] /\ dialog[t] \in Nat
        BY <3>1 DEF WorkInv, CountsOnce, WorkTyped
      <4> QED
        BY <2>1, <4>1, <4>2
    <3>2. CASE t \notin DOMAIN dialog
      <4>1. new.tasks[t] = 0
        BY <1>4, <3>2 DEF Reviewed
      <4> QED
        BY <2>1, <4>1
    <3> QED
      BY <3>1, <3>2
  <2>3. new.tasks[t] + new.since[t] <= done[t]
    BY <2>1, <2>2
  <2> QED
    BY <1>1, <2>3 DEF WorkInv, CountsOnce
<1> QED
  BY <1>1, <1>5, <1>6, EntriesStay DEF WorkInv

LEMMA SaveTasksBeginKeeps ==
    ASSUME WorkInv, NEW ts \in SUBSET Task, NEW quantity \in [ts -> {1}], SaveTasksBegin(quantity)
    PROVE  WorkInv'
<1> DEFINE tasks == [t \in Task |-> IF t \in DOMAIN quantity THEN quantity[t] ELSE AutomaticTasks[t]]
           new == NewSave(FALSE, tasks)
<1>1. saves' = saves \cup {new} /\ UNCHANGED <<today, catalog, done, since, report, dialog, entry, resaved>>
  BY DEF SaveTasksBegin
<1>2. \A t \in Task : AutomaticTasks[t] \in Nat
  BY DEF AutomaticTasks, WorkInv, WorkTyped, Counts
<1>3. tasks \in Counts
  BY <1>2 DEF Counts
<1> HIDE DEF tasks
<1>4. new \in SaveRow /\ new.day = today /\ ~new.copied
  BY <1>3, ZeroCounts DEF NewSave, SaveRow, WorkInv, WorkTyped
<1> HIDE DEF new
<1>5. WorkTyped'
  BY <1>1, <1>4 DEF WorkInv, WorkTyped
<1>6. CountsOnce'
  BY <1>1, <1>4 DEF WorkInv, CountsOnce
<1> QED
  BY <1>1, <1>5, <1>6, EntriesStay DEF WorkInv

LEMMA SaveReportKeeps ==
    ASSUME WorkInv, NEW s \in saves, SaveReport(s)
    PROVE  WorkInv'
<1>1. saves' = saves \ {s} /\ s \in SaveRow /\ UNCHANGED <<today, catalog, done, dialog, entry>>
  BY DEF SaveReport, WorkInv, WorkTyped
<1>2. CASE s.day # today
  <2>1. UNCHANGED <<report, since, resaved>>
    BY <1>2 DEF SaveReport
  <2>2. WorkTyped'
    BY <1>1, <2>1 DEF WorkInv, WorkTyped
  <2>3. CountsOnce'
    BY <1>1, <2>1 DEF WorkInv, CountsOnce
  <2> QED
    BY <1>1, <2>1, <2>2, <2>3, EntriesStay DEF WorkInv
<1>3. CASE s.day = today
  <2> DEFINE new == [copied |-> report[today].copied \/ s.copied, tasks |-> s.tasks]
  <2>1. /\ report' = [report EXCEPT ![today] = new]
        /\ since' = (IF s.copied THEN s.since ELSE since)
        /\ resaved' = (resaved \/ (~s.copied /\ report[today].copied))
    BY <1>3 DEF SaveReport
  <2>2. new \in Report /\ new.tasks = s.tasks /\ new.copied = (report[today].copied \/ s.copied)
        /\ report \in [1 .. LastDay -> Report] /\ today \in 1 .. LastDay
    BY <1>1 DEF Report, SaveRow, WorkInv, WorkTyped
  <2> HIDE DEF new
  <2>3. report' \in [1 .. LastDay -> Report] /\ report'[today] = new
        /\ \A d \in 1 .. LastDay : d # today => report'[d] = report[d]
    BY <2>1, <2>2
  <2>4. WorkTyped'
    <3>1. since' \in Counts
      BY <1>1, <2>1 DEF WorkInv, WorkTyped, SaveRow
    <3> QED
      BY <1>1, <2>3, <3>1 DEF WorkInv, WorkTyped
  <2>5. EntriesStand'
    <3>1. \A d \in 1 .. LastDay : d < today => Performed(d)' = Performed(d)
      <4>1. \A d \in 1 .. LastDay : d < today => report'[d] = report[d]
        BY <2>2, <2>3
      <4> QED
        BY <4>1 DEF Performed
    <3>2. \A d \in 1 .. LastDay : d > today => ~report'[d].copied
      BY <2>2, <2>3 DEF WorkInv, EntriesStand
    <3> QED
      BY <1>1, <3>1, <3>2 DEF WorkInv, EntriesStand
  <2>6. CountsOnce'
    <3> SUFFICES ASSUME ~resaved', NEW t \in Task, Source[t] = "counted"
                PROVE /\ report'[today].copied => report'[today].tasks[t] + since'[t] <= done[t]
                      /\ t \in DOMAIN dialog => dialog[t] <= done[t]
                      /\ \A q \in saves' : q.copied /\ q.day = today => q.tasks[t] + q.since[t] <= done[t]
      BY <1>1 DEF CountsOnce
    <3>1. ~resaved /\ (~s.copied => ~report[today].copied)
      BY <2>1
    <3>2. /\ t \in DOMAIN dialog => dialog[t] <= done[t]
          /\ \A q \in saves : q.copied /\ q.day = today => q.tasks[t] + q.since[t] <= done[t]
      BY <3>1 DEF WorkInv, CountsOnce
    <3>3. CASE s.copied
      BY <1>1, <1>3, <2>1, <2>2, <2>3, <3>2, <3>3
    <3>4. CASE ~s.copied
      BY <1>1, <2>2, <2>3, <3>1, <3>2, <3>4
    <3> QED
      BY <3>3, <3>4
  <2> QED
    BY <2>4, <2>5, <2>6 DEF WorkInv
<1> QED
  BY <1>2, <1>3

LEMMA EntryKeeps ==
    ASSUME WorkInv, NEW d \in 1 .. LastDay, SaveEntry(d) \/ DeleteEntry(d)
    PROVE  WorkInv'
<1>1. UNCHANGED <<today, catalog, done, since, report, dialog, saves, resaved>>
  BY DEF SaveEntry, DeleteEntry
<1>2. DOMAIN entry = 1 .. LastDay
  BY DEF WorkInv, WorkTyped
<1>3. DOMAIN entry' = 1 .. LastDay /\ \A e \in 1 .. LastDay : e # d => entry'[e] = entry[e]
  BY <1>2 DEF SaveEntry, DeleteEntry
<1>4. entry'[d].after => d < today /\ entry'[d].scored = Performed(d)
  <2>1. CASE SaveEntry(d)
    <3>1. entry'[d] = [exists |-> TRUE, after |-> d < today, scored |-> Performed(d)]
      BY <1>2, <2>1 DEF SaveEntry
    <3>2. PICK e : e = entry'[d]
      OBVIOUS
    <3>3. e = [exists |-> TRUE, after |-> d < today, scored |-> Performed(d)]
      BY <3>1, <3>2
    <3>4. e.after => d < today
      BY ONLY <3>3
    <3>5. e.scored = Performed(d)
      BY ONLY <3>3
    <3> QED
      BY <3>2, <3>4, <3>5
  <2>2. CASE DeleteEntry(d)
    BY <1>2, <2>2 DEF DeleteEntry, NoEntry
  <2> QED
    BY <2>1, <2>2
<1>5. WorkTyped'
  BY <1>1, <1>3 DEF WorkInv, WorkTyped
<1>6. EntriesStand'
  <2>1. \A e : Performed(e)' = Performed(e)
    BY <1>1 DEF Performed
  <2> QED
    BY <1>1, <1>3, <1>4, <2>1 DEF WorkInv, EntriesStand
<1> QED
  BY <1>1, <1>5, <1>6, CountsStay DEF WorkInv

LEMMA WorkStep == WorkInv /\ [WorkSteps]_workVars => WorkInv'
<1> SUFFICES ASSUME WorkInv, [WorkSteps]_workVars PROVE WorkInv'
  OBVIOUS
<1>1. CASE \E t \in Task : CreateTask(t)
  BY <1>1, CatalogKeeps
<1>2. CASE \E t \in Task, active \in BOOLEAN : UpdateTask(t, active)
  BY <1>2, CatalogKeeps
<1>3. CASE \E t \in Task : Work(t)
  BY <1>3, WorkKeeps
<1>4. CASE \E t \in Task : OfferOfAnotherDay(t)
  BY <1>4, OfferKeeps
<1>5. CASE Midnight
  BY <1>5, MidnightKeeps
<1>6. CASE OpenDialog
  BY <1>6, OpenDialogKeeps
<1>7. CASE \E quantity \in [DOMAIN dialog -> 0 .. 2 * MaxWork] : CopyBegin(quantity)
  BY <1>7, CopyBeginKeeps
<1>8. CASE \E ts \in SUBSET {t \in Task : Manual(t)} : \E quantity \in [ts -> {1}] : SaveTasksBegin(quantity)
  BY <1>8, SaveTasksBeginKeeps
<1>9. CASE \E s \in saves : SaveReport(s)
  BY <1>9, SaveReportKeeps
<1>10. CASE \E d \in 1 .. LastDay : SaveEntry(d) \/ DeleteEntry(d)
  BY <1>10, EntryKeeps
<1>11. CASE UNCHANGED workVars
  <2>1. WorkTyped'
    BY <1>11 DEF workVars, WorkInv, WorkTyped
  <2> QED
    BY <1>11, <2>1, EntriesStay, CountsStay DEF workVars, WorkInv
<1> QED
  BY <1>1, <1>2, <1>3, <1>4, <1>5, <1>6, <1>7, <1>8, <1>9, <1>10, <1>11 DEF WorkSteps

----------------------------------------------------------------------------
(* The breaks.                                                             *)

\* Half the numbers of disjoint sets, rounded down one by one, lose at most one for each.
LEMMA Halves ==
    ASSUME NEW S, IsFiniteSet(S), NEW m, NEW U,
           \A s \in S : /\ IsFiniteSet(U[s]) /\ m[s] \in Nat
                        /\ 2 * m[s] <= Cardinality(U[s]) /\ Cardinality(U[s]) <= 2 * m[s] + 1,
           \A s, q \in S : s # q => U[s] \cap U[q] = {},
           NEW all, \A x : x \in all <=> \E s \in S : x \in U[s]
    PROVE  /\ IsFiniteSet(all) /\ Sum(m, S) \in Nat
           /\ 2 * Sum(m, S) <= Cardinality(all)
           /\ Cardinality(all) <= 2 * Sum(m, S) + Cardinality(S)
<1> DEFINE All(T) == UNION {U[s] : s \in T}
           P == {T \in SUBSET S : /\ IsFiniteSet(All(T)) /\ Sum(m, T) \in Nat
                                  /\ 2 * Sum(m, T) <= Cardinality(All(T))
                                  /\ Cardinality(All(T)) <= 2 * Sum(m, T) + Cardinality(T)}
<1>1. {} \in P
  <2>1. All({}) = {}
    OBVIOUS
  <2> QED
    BY <2>1, SumOfNone, FS_EmptySet
<1>2. ASSUME NEW T \in SUBSET S, T # {}, \A s \in T : T \ {s} \in P PROVE T \in P
  <2>1. PICK s \in T : TRUE
    BY <1>2
  <2> DEFINE R == T \ {s}
  <2>2. IsFiniteSet(T) /\ IsFiniteSet(R) /\ Cardinality(T) = Cardinality(R) + 1 /\ Cardinality(R) \in Nat
    <3>1. IsFiniteSet(T)
      BY FS_Subset
    <3>2. IsFiniteSet(R) /\ Cardinality(R) = Cardinality(T) - 1
      BY <2>1, <3>1, FS_RemoveElement
    <3>3. Cardinality(T) \in Nat /\ Cardinality(R) \in Nat
      BY <3>1, <3>2, FS_CardinalityType
    <3> HIDE DEF R
    <3> QED
      BY <3>1, <3>2, <3>3
  <2>3. Sum(m, T) = Sum(m, R) + m[s]
    BY <2>2, SumAdds
  <2>4. All(T) = All(R) \cup U[s] /\ All(R) \cap U[s] = {}
    OBVIOUS
  <2>5. /\ IsFiniteSet(All(R)) /\ Sum(m, R) \in Nat /\ 2 * Sum(m, R) <= Cardinality(All(R))
        /\ Cardinality(All(R)) <= 2 * Sum(m, R) + Cardinality(R)
    BY <1>2
  <2>6. /\ IsFiniteSet(U[s]) /\ m[s] \in Nat /\ 2 * m[s] <= Cardinality(U[s])
        /\ Cardinality(U[s]) <= 2 * m[s] + 1
    OBVIOUS
  <2> HIDE DEF R, All
  <2>7. IsFiniteSet(All(T)) /\ Cardinality(All(T)) = Cardinality(All(R)) + Cardinality(U[s])
    <3>1. Cardinality(All(R) \cap U[s]) = 0
      BY <2>4, FS_EmptySet
    <3>2. IsFiniteSet(All(R) \cup U[s])
          /\ Cardinality(All(R) \cup U[s]) = Cardinality(All(R)) + Cardinality(U[s]) - Cardinality(All(R) \cap U[s])
      BY <2>5, <2>6, FS_Union
    <3>3. Cardinality(All(R)) \in Nat /\ Cardinality(U[s]) \in Nat
      BY <2>5, <2>6, FS_CardinalityType
    <3> QED
      BY <2>4, <3>1, <3>2, <3>3
  <2>8. Cardinality(All(R)) \in Nat /\ Cardinality(U[s]) \in Nat
    BY <2>5, <2>6, FS_CardinalityType
  <2>9. /\ Sum(m, T) \in Nat /\ 2 * Sum(m, T) <= Cardinality(All(T))
        /\ Cardinality(All(T)) <= 2 * Sum(m, T) + Cardinality(T)
    BY <2>2, <2>3, <2>5, <2>6, <2>7, <2>8
  <2> QED
    BY <2>7, <2>9
<1>3. S \in P
  <2> HIDE DEF P
  <2>1. P \subseteq SUBSET S
    BY DEF P
  <2>2. SUBSET S \subseteq P
    BY <1>1, <1>2, <2>1, SubsetInduction
  <2> QED
    BY <2>2
<1>4. All(S) = all
  OBVIOUS
<1> QED
  BY <1>3, <1>4

\* The half minutes of a break, or of any span of time that falls between two others.
LEMMA SpanHalved ==
    ASSUME NEW start \in Int, NEW finish \in Int, NEW first \in Int, NEW last \in Int
    PROVE  LET from == Max({start, first})
               to == Min({finish, last})
               m == Max({0, (to - from) \div 2})
               U == from .. to - 1
           IN  /\ from \in Int /\ to \in Int /\ m \in Nat /\ IsFiniteSet(U)
               /\ 2 * m <= Cardinality(U) /\ Cardinality(U) <= 2 * m + 1
               /\ (from <= to => Cardinality(U) = to - from)
               /\ \A x \in U : x \in Int /\ start <= x /\ first <= x /\ x < finish /\ x < last
               /\ \A x \in Int : start <= x /\ first <= x /\ x < finish /\ x < last => x \in U
<1> DEFINE from == Max({start, first})
           to == Min({finish, last})
           half == (to - from) \div 2
           m == Max({0, half})
           U == from .. to - 1
<1>1. from \in {start, first} /\ from >= start /\ from >= first
  BY MaxOfTwo
<1>2. to \in {finish, last} /\ to <= finish /\ to <= last
  BY MinOfTwo
<1> HIDE DEF from, to
<1>3. from \in Int /\ to \in Int
  BY <1>1, <1>2
<1>4. half \in Int /\ 2 * half <= to - from /\ to - from <= 2 * half + 1
  BY <1>3
<1> HIDE DEF half
<1>5. m \in {0, half} /\ m >= 0 /\ m >= half
  <2>1. half \in Int
    BY <1>4
  <2> QED
    BY ONLY <2>1, MaxOfTwo
<1>6. IsFiniteSet(U) /\ Cardinality(U) = IF from > to - 1 THEN 0 ELSE to - 1 - from + 1
  BY <1>3, FS_Interval
<1> HIDE DEF m
<1>7. \A x \in U : x \in Int /\ start <= x /\ first <= x /\ x < finish /\ x < last
  BY <1>1, <1>2, <1>3
<1>8. \A x \in Int : start <= x /\ first <= x /\ x < finish /\ x < last => x \in U
  BY <1>1, <1>2, <1>3
<1> HIDE DEF U
<1>9. m \in Nat /\ 2 * m <= Cardinality(U) /\ Cardinality(U) <= 2 * m + 1 /\ (from <= to => Cardinality(U) = to - from)
  BY <1>3, <1>4, <1>5, <1>6
<1> QED
  BY <1>3, <1>6, <1>7, <1>8, <1>9 DEF from, to, half, m, U

\* Days follow one another.
LEMMA DayOfHalfMinute ==
    ASSUME NEW x \in Nat
    PROVE  LET d == x \div DayLength
           IN d \in Nat /\ d * DayLength <= x /\ x < (d + 1) * DayLength
<1>1. DayLength \in Nat /\ DayLength > 0
  BY BreakAssumption
<1> QED
  BY <1>1

LEMMA DaysApart ==
    ASSUME NEW d \in Int, NEW e \in Int, d < e
    PROVE  (d + 1) * DayLength <= e * DayLength
<1>1. DayLength \in Nat /\ DayLength > 0
  BY BreakAssumption
<1>2. e - (d + 1) \in Nat
  OBVIOUS
<1>3. (e - (d + 1)) * DayLength \in Nat
  BY <1>1, <1>2
<1>4. (e - (d + 1)) * DayLength = e * DayLength - (d + 1) * DayLength
  BY <1>1
<1>5. e * DayLength \in Int /\ (d + 1) * DayLength \in Int
  BY <1>1
<1> QED
  BY <1>3, <1>4, <1>5

BreakRow == [user : Staff, start : Nat, end : Nat \cup {Never}, minutes : Int]
\* A break began before now and, if it is over, ended between then and now.
Spent(b, t) ==
    /\ b \in BreakRow /\ b.start <= t
    /\ b.end # Never => b.start <= b.end /\ b.end <= t /\ b.minutes = (b.end - b.start) \div 2
BreaksSpent ==
    /\ clock \in 0 .. Horizon /\ starting \in [Staff -> Nat] /\ IsFiniteSet(DOMAIN sessions)
    /\ \A s \in DOMAIN sessions : Spent(sessions[s], clock)
\* One break is over before another begins.
Before(b, c) == b.end # Never /\ b.end <= c.start
BreaksApart ==
    \A s, q \in DOMAIN sessions :
        s # q /\ sessions[s].user = sessions[q].user /\ sessions[s].user \notin doubled =>
            Before(sessions[s], sessions[q]) \/ Before(sessions[q], sessions[s])
\* A start that has found no active break finds it true when it inserts one.
StartsAlone == \A u \in Staff \ doubled : starting[u] <= 1 /\ (starting[u] = 1 => OpenOf(u) = {})
BreakInv == BreaksSpent /\ BreaksApart /\ StartsAlone

LEMMA BreaksBegin == BreakInit => BreakInv
<1> SUFFICES ASSUME BreakInit PROVE BreakInv
  OBVIOUS
<1>1. DOMAIN sessions = {}
  BY DEF BreakInit
<1> QED
  BY <1>1, FS_EmptySet, BreakAssumption DEF BreakInit, BreakInv, BreaksSpent, BreaksApart, StartsAlone

LEMMA TickKeeps == BreakInv /\ Tick => BreakInv'
<1> SUFFICES ASSUME BreakInv, Tick PROVE BreakInv'
  OBVIOUS
<1>1. BreaksSpent'
  BY BreakAssumption DEF BreakInv, BreaksSpent, Tick, Spent, BreakRow
<1>2. BreaksApart' /\ StartsAlone'
  BY DEF BreakInv, BreaksApart, StartsAlone, OpenOf, Before, Tick
<1> QED
  BY <1>1, <1>2 DEF BreakInv

LEMMA StartCheckKeeps ==
    ASSUME BreakInv, NEW u \in Staff, StartCheck(u)
    PROVE  BreakInv'
<1>1. starting' = [starting EXCEPT ![u] = starting[u] + 1] /\ OpenOf(u) = {}
      /\ doubled' = (IF starting[u] > 0 THEN doubled \cup {u} ELSE doubled) /\ UNCHANGED <<clock, sessions>>
  BY DEF StartCheck
<1>2. starting \in [Staff -> Nat]
  BY DEF BreakInv, BreaksSpent
<1>3. BreaksSpent'
  BY <1>1, <1>2 DEF BreakInv, BreaksSpent
<1>4. BreaksApart'
  BY <1>1 DEF BreakInv, BreaksApart
<1>5. StartsAlone'
  <2> SUFFICES ASSUME NEW w \in Staff \ doubled'
              PROVE starting'[w] <= 1 /\ (starting'[w] = 1 => OpenOf(w)' = {})
    BY DEF StartsAlone
  <2>1. w \notin doubled /\ OpenOf(w)' = OpenOf(w)
    BY <1>1 DEF OpenOf
  <2>2. starting[w] <= 1 /\ (starting[w] = 1 => OpenOf(w) = {})
    BY <2>1 DEF BreakInv, StartsAlone
  <2>3. CASE w = u
    BY <1>1, <1>2, <2>1, <2>2, <2>3
  <2>4. CASE w # u
    BY <1>1, <1>2, <2>1, <2>2, <2>4
  <2> QED
    BY <2>3, <2>4
<1> QED
  BY <1>3, <1>4, <1>5 DEF BreakInv

LEMMA StartInsertKeeps ==
    ASSUME BreakInv, NEW u \in Staff, NEW n \in Session, StartInsert(u, n)
    PROVE  BreakInv'
<1> DEFINE new == [user |-> u, start |-> clock, end |-> Never, minutes |-> 0]
<1>1. /\ starting[u] > 0 /\ n \notin DOMAIN sessions
      /\ DOMAIN sessions' = DOMAIN sessions \cup {n}
      /\ \A q \in DOMAIN sessions : sessions'[q] = sessions[q]
      /\ sessions'[n] = new
      /\ starting' = [starting EXCEPT ![u] = starting[u] - 1]
      /\ UNCHANGED <<clock, doubled>>
  BY DEF StartInsert
<1>2. starting \in [Staff -> Nat] /\ clock \in Nat /\ IsFiniteSet(DOMAIN sessions)
      /\ \A s \in DOMAIN sessions : Spent(sessions[s], clock)
  BY DEF BreakInv, BreaksSpent
<1>3. Spent(new, clock) /\ new.user = u /\ new.start = clock /\ new.end = Never
  BY <1>2 DEF Spent, BreakRow
<1> HIDE DEF new
<1>4. BreaksSpent'
  <2>1. IsFiniteSet(DOMAIN sessions')
    BY <1>1, <1>2, FS_AddElement
  <2>2. \A s \in DOMAIN sessions' : Spent(sessions'[s], clock)
    BY <1>1, <1>2, <1>3
  <2>3. starting' \in [Staff -> Nat]
    BY <1>1, <1>2
  <2> QED
    BY <1>1, <2>1, <2>2, <2>3 DEF BreakInv, BreaksSpent
<1>5. ASSUME u \notin doubled PROVE OpenOf(u) = {} /\ starting'[u] = 0
  BY <1>1, <1>2, <1>5 DEF BreakInv, StartsAlone
<1>6. BreaksApart'
  <2>1. ASSUME NEW s \in DOMAIN sessions, sessions[s].user = u, u \notin doubled
        PROVE  Before(sessions[s], new)
    <3>1. sessions[s].end # Never
      BY <1>5, <2>1 DEF OpenOf
    <3> QED
      BY <1>2, <1>3, <3>1 DEF Before, Spent
  <2> SUFFICES ASSUME NEW s \in DOMAIN sessions', NEW q \in DOMAIN sessions', s # q,
                      sessions'[s].user = sessions'[q].user, sessions'[s].user \notin doubled
              PROVE Before(sessions'[s], sessions'[q]) \/ Before(sessions'[q], sessions'[s])
    BY <1>1 DEF BreaksApart
  <2>2. CASE s = n
    BY <1>1, <1>3, <2>1, <2>2
  <2>3. CASE q = n
    BY <1>1, <1>3, <2>1, <2>3
  <2>4. CASE s # n /\ q # n
    BY <1>1, <2>4 DEF BreakInv, BreaksApart
  <2> QED
    BY <2>2, <2>3, <2>4
<1>7. StartsAlone'
  <2> SUFFICES ASSUME NEW w \in Staff \ doubled
              PROVE starting'[w] <= 1 /\ (starting'[w] = 1 => OpenOf(w)' = {})
    BY <1>1 DEF StartsAlone
  <2>1. CASE w = u
    BY <1>5, <2>1
  <2>2. CASE w # u
    <3>1. starting'[w] = starting[w]
      BY <1>1, <1>2, <2>2
    <3>2. OpenOf(w)' = OpenOf(w)
      BY <1>1, <1>3, <2>2 DEF OpenOf
    <3> QED
      BY <3>1, <3>2 DEF BreakInv, StartsAlone
  <2> QED
    BY <2>1, <2>2
<1> QED
  BY <1>4, <1>6, <1>7 DEF BreakInv

LEMMA EndKeeps ==
    ASSUME BreakInv, NEW u \in Staff, NEW n \in Session, End(u, n)
    PROVE  BreakInv'
<1> DEFINE over == [sessions[n] EXCEPT !.end = clock, !.minutes = (clock - sessions[n].start) \div 2]
<1>1. /\ n \in DOMAIN sessions /\ sessions[n].user = u /\ sessions[n].end = Never
      /\ DOMAIN sessions' = DOMAIN sessions
      /\ \A q \in DOMAIN sessions : q # n => sessions'[q] = sessions[q]
      /\ sessions'[n] = over
      /\ UNCHANGED <<clock, starting, doubled>>
  BY DEF End, ActiveBreak, OpenOf
<1>2. clock \in Nat /\ IsFiniteSet(DOMAIN sessions) /\ \A s \in DOMAIN sessions : Spent(sessions[s], clock)
  BY DEF BreakInv, BreaksSpent
<1>3. Spent(over, clock) /\ over.user = u /\ over.start = sessions[n].start /\ over.end = clock /\ clock # Never
  <2> DEFINE b == sessions[n]
             half == (clock - b.start) \div 2
  <2>1. b \in BreakRow /\ b.user = u /\ b.start \in Nat /\ b.start <= clock
    BY <1>1, <1>2 DEF Spent, BreakRow
  <2>2. half \in Int
    BY <1>2, <2>1
  <2>3. over = [b EXCEPT !.end = clock, !.minutes = half]
    OBVIOUS
  <2> HIDE DEF b, over, half
  <2>4. over \in BreakRow /\ over.user = u /\ over.start = b.start /\ over.end = clock /\ over.minutes = half
    BY <1>2, <2>1, <2>2, <2>3 DEF BreakRow
  <2>5. clock # Never
    BY <1>2, BreakAssumption
  <2>6. Spent(over, clock)
    BY <1>2, <2>1, <2>4 DEF Spent, half
  <2> QED
    BY <2>4, <2>5, <2>6 DEF b
<1> HIDE DEF over
<1>4. BreaksSpent'
  <2>1. \A s \in DOMAIN sessions' : Spent(sessions'[s], clock)
    BY <1>1, <1>2, <1>3
  <2> QED
    BY <1>1, <2>1 DEF BreakInv, BreaksSpent
<1>5. BreaksApart'
  <2> SUFFICES ASSUME NEW s \in DOMAIN sessions, NEW q \in DOMAIN sessions, s # q,
                      sessions'[s].user = sessions'[q].user, sessions'[s].user \notin doubled
              PROVE Before(sessions'[s], sessions'[q]) \/ Before(sessions'[q], sessions'[s])
    BY <1>1 DEF BreaksApart
  <2>1. Before(sessions[s], sessions[q]) \/ Before(sessions[q], sessions[s])
    BY <1>1, <1>3 DEF BreakInv, BreaksApart
  <2>2. CASE s = n
    BY <1>1, <1>3, <2>1, <2>2 DEF Before
  <2>3. CASE q = n
    BY <1>1, <1>3, <2>1, <2>3 DEF Before
  <2>4. CASE s # n /\ q # n
    BY <1>1, <2>1, <2>4
  <2> QED
    BY <2>2, <2>3, <2>4
<1>6. StartsAlone'
  <2> SUFFICES ASSUME NEW w \in Staff \ doubled
              PROVE starting[w] <= 1 /\ (starting[w] = 1 => OpenOf(w)' = {})
    BY <1>1 DEF StartsAlone
  <2>1. OpenOf(w)' \subseteq OpenOf(w)
    BY <1>1, <1>3 DEF OpenOf
  <2> QED
    BY <2>1 DEF BreakInv, StartsAlone
<1> QED
  BY <1>4, <1>5, <1>6 DEF BreakInv

LEMMA BreakStep == BreakInv /\ [BreakSteps]_breakVars => BreakInv'
<1> SUFFICES ASSUME BreakInv, [BreakSteps]_breakVars PROVE BreakInv'
  OBVIOUS
<1>1. CASE Tick
  BY <1>1, TickKeeps
<1>2. CASE \E u \in Staff : StartCheck(u)
  BY <1>2, StartCheckKeeps
<1>3. CASE \E u \in Staff, s \in Session : StartInsert(u, s)
  BY <1>3, StartInsertKeeps
<1>4. CASE \E u \in Staff, s \in Session : End(u, s)
  BY <1>4, EndKeeps
<1>5. CASE UNCHANGED breakVars
  BY <1>5 DEF breakVars, BreakInv, BreaksSpent, BreaksApart, StartsAlone, OpenOf
<1> QED
  BY <1>1, <1>2, <1>3, <1>4, <1>5 DEF BreakSteps

\* Sums in the overview are the sums of Induction.
LEMMA MinutesOverIs == \A f, S : MinutesOver(f, S) = Sum(f, S)
BY DEF MinutesOver, Sum

\* The time that a break has taken up so far.
FinishOf(s) == IF sessions[s].end = Never THEN clock ELSE sessions[s].end
Within(s, first, last) == Max({sessions[s].start, first}) .. Min({FinishOf(s), last}) - 1

LEMMA WithinIs ==
    ASSUME BreakInv, NEW s \in DOMAIN sessions, NEW first \in Int, NEW last \in Int
    PROVE  /\ MinutesWithin(s, first, last) \in Nat /\ IsFiniteSet(Within(s, first, last))
           /\ 2 * MinutesWithin(s, first, last) <= Cardinality(Within(s, first, last))
           /\ Cardinality(Within(s, first, last)) <= 2 * MinutesWithin(s, first, last) + 1
           /\ \A x \in Within(s, first, last) :
                x \in Int /\ sessions[s].start <= x /\ first <= x /\ x < FinishOf(s) /\ x < last
           /\ \A x \in Int : sessions[s].start <= x /\ first <= x /\ x < FinishOf(s) /\ x < last
                => x \in Within(s, first, last)
<1>1. sessions[s].start \in Int /\ FinishOf(s) \in Int
  BY DEF BreakInv, BreaksSpent, Spent, BreakRow, FinishOf
<1>2. MinutesWithin(s, first, last)
        = Max({0, (Min({FinishOf(s), last}) - Max({sessions[s].start, first})) \div 2})
  BY DEF MinutesWithin, FinishOf
<1> DEFINE start == sessions[s].start
           finish == FinishOf(s)
           U == Max({start, first}) .. Min({finish, last}) - 1
           m == Max({0, (Min({finish, last}) - Max({start, first})) \div 2})
<1>3. /\ m \in Nat /\ IsFiniteSet(U) /\ 2 * m <= Cardinality(U) /\ Cardinality(U) <= 2 * m + 1
      /\ \A x \in U : x \in Int /\ start <= x /\ first <= x /\ x < finish /\ x < last
      /\ \A x \in Int : start <= x /\ first <= x /\ x < finish /\ x < last => x \in U
  <2> HIDE DEF start, finish
  <2>1. start \in Int /\ finish \in Int
    BY <1>1 DEF start, finish
  <2> QED
    BY ONLY <2>1, first \in Int, last \in Int, SpanHalved
<1>4. Within(s, first, last) = U /\ MinutesWithin(s, first, last) = m
  BY <1>2 DEF Within
<1> HIDE DEF m, U
<1> QED
  BY <1>3, <1>4

\* An agent's breaks take up no moment of a day twice.
LEMMA DayIsNotExceeded ==
    ASSUME BreakInv, NEW u, u \notin doubled, NEW day \in Nat
    PROVE  2 * DayTotal(u, day) <= DayLength
<1> DEFINE first == day * DayLength
           last == (day + 1) * DayLength
           S == OfDay(u, day)
           m == MinutesOn(day)
           U == [s \in S |-> Within(s, first, last)]
           all == UNION {U[s] : s \in S}
<1>1. first \in Int /\ last \in Int /\ last = first + DayLength /\ DayLength \in Nat \ {0}
  BY BreakAssumption
<1>2. S \subseteq DOMAIN sessions /\ IsFiniteSet(S)
  <2>1. S \subseteq DOMAIN sessions
    BY DEF OfDay
  <2> HIDE DEF S
  <2> QED
    BY <2>1, FS_Subset DEF BreakInv, BreaksSpent
<1> HIDE DEF first, last
<1>3. \A s \in S : m[s] = MinutesWithin(s, first, last)
  BY <1>2 DEF MinutesOn, first, last
<1>4. \A s \in S : sessions[s].user = u
  BY DEF OfDay
<1> HIDE DEF m, S
<1>5. \A s \in S : /\ IsFiniteSet(U[s]) /\ m[s] \in Nat
                   /\ 2 * m[s] <= Cardinality(U[s]) /\ Cardinality(U[s]) <= 2 * m[s] + 1
                   /\ \A x \in U[s] : x \in Int /\ sessions[s].start <= x /\ first <= x /\ x < FinishOf(s) /\ x < last
  BY <1>1, <1>2, <1>3, WithinIs
<1>6. ASSUME NEW s \in S, NEW q \in S, s # q PROVE U[s] \cap U[q] = {}
  <2>1. Before(sessions[s], sessions[q]) \/ Before(sessions[q], sessions[s])
    BY <1>2, <1>4, <1>6 DEF BreakInv, BreaksApart
  <2>2. /\ sessions[s].start \in Int /\ sessions[q].start \in Int
        /\ sessions[s].end # Never => sessions[s].end \in Int /\ FinishOf(s) = sessions[s].end
        /\ sessions[q].end # Never => sessions[q].end \in Int /\ FinishOf(q) = sessions[q].end
    BY <1>2 DEF BreakInv, BreaksSpent, Spent, BreakRow, FinishOf
  <2> SUFFICES ASSUME NEW x \in U[s], x \in U[q] PROVE FALSE
    OBVIOUS
  <2>3. x \in Int /\ sessions[s].start <= x /\ x < FinishOf(s) /\ sessions[q].start <= x /\ x < FinishOf(q)
    BY <1>5
  <2> QED
    BY <2>1, <2>2, <2>3 DEF Before
<1>7. \A x \in all : x \in first .. last - 1
  BY <1>1, <1>5
<1> HIDE DEF U
<1>8. IsFiniteSet(all) /\ Sum(m, S) \in Nat /\ 2 * Sum(m, S) <= Cardinality(all)
  <2>1. \A s \in S : /\ IsFiniteSet(U[s]) /\ m[s] \in Nat
                     /\ 2 * m[s] <= Cardinality(U[s]) /\ Cardinality(U[s]) <= 2 * m[s] + 1
    BY <1>5
  <2>2. \A s, q \in S : s # q => U[s] \cap U[q] = {}
    BY <1>6
  <2>3. \A x : x \in all <=> \E s \in S : x \in U[s]
    OBVIOUS
  <2> HIDE DEF all
  <2> QED
    BY ONLY <1>2, <2>1, <2>2, <2>3, Halves
<1> HIDE DEF all
<1>9. Cardinality(all) <= DayLength
  <2>1. all \subseteq first .. last - 1
    BY <1>7
  <2>2. IsFiniteSet(first .. last - 1) /\ Cardinality(first .. last - 1) = DayLength
    BY <1>1, FS_Interval
  <2> QED
    BY <2>1, <2>2, FS_Subset
<1>10. DayTotal(u, day) = Sum(m, S)
  BY MinutesOverIs DEF DayTotal, m, S
<1>11. Cardinality(all) \in Nat
  BY <1>8, FS_CardinalityType
<1> QED
  BY <1>1, <1>8, <1>9, <1>10, <1>11

\* The days of a break that is over have all of it between them, and none of it twice.
LEMMA DaysMakeTheBreak ==
    ASSUME BreakInv, NEW s \in DOMAIN sessions, sessions[s].end # Never, NEW u, sessions[s].user = u
    PROVE  LET days == {d \in 0 .. Horizon \div DayLength : s \in OfDay(u, d)}
               sum == MinutesOver([d \in days |-> MinutesOn(d)[s]], days)
           IN  sum <= sessions[s].minutes /\ sessions[s].minutes < sum + Max({1, Cardinality(days)})
<1> DEFINE days == {d \in 0 .. Horizon \div DayLength : s \in OfDay(u, d)}
           m == [d \in days |-> MinutesOn(d)[s]]
           U == [d \in days |-> Within(s, d * DayLength, (d + 1) * DayLength)]
           all == UNION {U[d] : d \in days}
           start == sessions[s].start
           end == sessions[s].end
<1>1. DayLength \in Nat \ {0} /\ Horizon \in Nat /\ Horizon \div DayLength \in Nat
  <2>1. DayLength \in Nat /\ DayLength > 0 /\ Horizon \in Nat
    BY BreakAssumption
  <2> QED
    BY <2>1
<1>2. /\ start \in Nat /\ end \in Nat /\ start <= end /\ end <= Horizon /\ FinishOf(s) = end
      /\ sessions[s].minutes = (end - start) \div 2
  BY <1>1 DEF BreakInv, BreaksSpent, Spent, BreakRow, FinishOf
<1>3. IsFiniteSet(days) /\ days \subseteq Nat
  <2>1. IsFiniteSet(0 .. Horizon \div DayLength)
    BY <1>1, FS_Interval
  <2> QED
    BY <1>1, <2>1, FS_Subset
<1>4. \A d \in days : m[d] = MinutesWithin(s, d * DayLength, (d + 1) * DayLength)
  BY DEF MinutesOn
<1>5. \A d \in Nat : d * DayLength \in Int /\ (d + 1) * DayLength \in Int
  BY <1>1
<1>6. \A d \in days : /\ IsFiniteSet(U[d]) /\ m[d] \in Nat
                      /\ 2 * m[d] <= Cardinality(U[d]) /\ Cardinality(U[d]) <= 2 * m[d] + 1
                      /\ \A x \in U[d] : /\ x \in Int /\ start <= x /\ x < end
                                         /\ d * DayLength <= x /\ x < (d + 1) * DayLength
  <2> SUFFICES ASSUME NEW d \in days
              PROVE /\ IsFiniteSet(U[d]) /\ m[d] \in Nat
                    /\ 2 * m[d] <= Cardinality(U[d]) /\ Cardinality(U[d]) <= 2 * m[d] + 1
                    /\ \A x \in U[d] : /\ x \in Int /\ start <= x /\ x < end
                                       /\ d * DayLength <= x /\ x < (d + 1) * DayLength
    OBVIOUS
  <2>1. d \in Nat
    BY <1>3
  <2>2. U[d] = Within(s, d * DayLength, (d + 1) * DayLength)
    OBVIOUS
  <2>3. m[d] = MinutesWithin(s, d * DayLength, (d + 1) * DayLength)
    BY <1>4
  <2> DEFINE first == d * DayLength
             last == (d + 1) * DayLength
  <2>4. first \in Int /\ last \in Int
    BY <1>5, <2>1
  <2> HIDE DEF first, last, m, U
  <2> QED
    BY <1>2, <2>2, <2>3, <2>4, WithinIs DEF first, last
<1>7. ASSUME NEW d \in days, NEW e \in days, d # e PROVE U[d] \cap U[e] = {}
  <2>1. d \in Int /\ e \in Int
    BY <1>3
  <2>2. (d + 1) * DayLength <= e * DayLength \/ (e + 1) * DayLength <= d * DayLength
    BY <1>7, <2>1, DaysApart
  <2>3. d * DayLength \in Int /\ (d + 1) * DayLength \in Int /\ e * DayLength \in Int /\ (e + 1) * DayLength \in Int
    BY <1>3, <1>5
  <2> SUFFICES ASSUME NEW x \in U[d], x \in U[e] PROVE FALSE
    OBVIOUS
  <2>4. x \in Int /\ d * DayLength <= x /\ x < (d + 1) * DayLength /\ e * DayLength <= x /\ x < (e + 1) * DayLength
    BY <1>6
  <2> QED
    BY <2>2, <2>3, <2>4
<1>8. all = start .. end - 1
  <2>1. ASSUME NEW x \in all PROVE x \in start .. end - 1
    <3>1. PICK d \in days : x \in U[d]
      OBVIOUS
    <3>2. x \in Int /\ start <= x /\ x < end
      BY <1>6, <3>1
    <3> HIDE DEF start, end
    <3> QED
      BY <1>2, <3>2
  <2>2. ASSUME NEW x \in start .. end - 1 PROVE x \in all
    <3> DEFINE d == x \div DayLength
    <3>1. x \in Nat /\ start <= x /\ x < end
      BY <1>2
    <3>2. d \in Nat /\ d * DayLength <= x /\ x < (d + 1) * DayLength
      BY <3>1, DayOfHalfMinute
    <3> DEFINE h == Horizon \div DayLength
    <3>3. h \in Nat /\ Horizon < (h + 1) * DayLength
      BY <1>1, DayOfHalfMinute
    <3> HIDE DEF d, h
    <3>4. d <= h
      <4> SUFFICES ASSUME h < d PROVE FALSE
        BY <3>2, <3>3
      <4>1. (h + 1) * DayLength <= d * DayLength
        BY <3>2, <3>3, DaysApart
      <4>2. (h + 1) * DayLength \in Int /\ d * DayLength \in Int
        BY <1>5, <3>2, <3>3
      <4> QED
        BY <1>1, <1>2, <3>1, <3>2, <3>3, <4>1, <4>2
    <3>5. s \in OfDay(u, d)
      <4>1. start < (d + 1) * DayLength /\ end > d * DayLength
        BY <1>2, <1>5, <3>1, <3>2
      <4> QED
        BY <4>1 DEF OfDay
    <3>6. d \in days
      BY <3>2, <3>3, <3>4, <3>5 DEF h
    <3>7. x \in U[d]
      <4>1. U[d] = Within(s, d * DayLength, (d + 1) * DayLength)
        BY <3>6
      <4>2. d * DayLength \in Int /\ (d + 1) * DayLength \in Int
        BY <1>5, <3>2
      <4> QED
        BY <1>2, <3>1, <3>2, <4>1, <4>2, WithinIs
    <3> QED
      BY <3>6, <3>7
  <2> QED
    BY <2>1, <2>2
<1> HIDE DEF U, m, days
<1>9. /\ IsFiniteSet(all) /\ Sum(m, days) \in Nat /\ 2 * Sum(m, days) <= Cardinality(all)
      /\ Cardinality(all) <= 2 * Sum(m, days) + Cardinality(days)
  <2>1. \A d \in days : /\ IsFiniteSet(U[d]) /\ m[d] \in Nat
                        /\ 2 * m[d] <= Cardinality(U[d]) /\ Cardinality(U[d]) <= 2 * m[d] + 1
    BY <1>6
  <2>2. \A d, e \in days : d # e => U[d] \cap U[e] = {}
    BY <1>7
  <2>3. \A x : x \in all <=> \E d \in days : x \in U[d]
    OBVIOUS
  <2> HIDE DEF all
  <2> QED
    BY ONLY <1>3, <2>1, <2>2, <2>3, Halves
<1>10. Cardinality(all) = end - start
  <2> HIDE DEF all, start, end
  <2>1. Cardinality(start .. end - 1) = IF start > end - 1 THEN 0 ELSE end - 1 - start + 1
    BY <1>2, FS_Interval
  <2> QED
    BY <1>2, <1>8, <2>1
<1>11. Cardinality(days) \in Nat /\ (Cardinality(days) = 0 => Sum(m, days) = 0)
  <2>1. Cardinality(days) \in Nat
    BY <1>3, FS_CardinalityType
  <2>2. Cardinality(days) = 0 => days = {}
    BY <1>3, FS_EmptySet
  <2> QED
    BY <2>1, <2>2, SumOfNone
<1> DEFINE n == Cardinality(days)
           sum == Sum(m, days)
           minutes == sessions[s].minutes
<1>12. Max({1, n}) >= 1 /\ Max({1, n}) >= n /\ Max({1, n}) \in {1, n}
  <2>1. 1 \in Int /\ n \in Int
    BY <1>11
  <2> HIDE DEF n
  <2> QED
    BY ONLY <2>1, MaxOfTwo, Zenon
<1> HIDE DEF n, sum, minutes, start, end, all
<1>13. sum <= minutes /\ minutes < sum + Max({1, n})
  <2>1. /\ n \in Nat /\ sum \in Nat /\ (n = 0 => sum = 0)
        /\ 2 * sum <= end - start /\ end - start <= 2 * sum + n
    BY <1>9, <1>10, <1>11 DEF n, sum
  <2>2. minutes = (end - start) \div 2
    BY <1>2 DEF minutes
  <2> QED
    BY <1>2, <1>12, <2>1, <2>2
<1> QED
  BY <1>13, MinutesOverIs DEF n, sum, minutes, m, days

LEMMA BreaksFit == BreakInv => BreaksAddUp
<1> SUFFICES ASSUME BreakInv, NEW u \in {sessions[s].user : s \in DOMAIN sessions} \ doubled
            PROVE /\ Cardinality(OpenOf(u)) <= 1
                  /\ \A day \in 0 .. Horizon \div DayLength : 2 * DayTotal(u, day) <= DayLength
                  /\ \A s \in DOMAIN sessions : sessions[s].user = u /\ sessions[s].end # Never =>
                      LET days == {d \in 0 .. Horizon \div DayLength : s \in OfDay(u, d)}
                          sum == MinutesOver([d \in days |-> MinutesOn(d)[s]], days)
                      IN sum <= sessions[s].minutes /\ sessions[s].minutes < sum + Max({1, Cardinality(days)})
  BY DEF BreaksAddUp
<1>1. Cardinality(OpenOf(u)) <= 1
  <2>1. \A s, q \in OpenOf(u) : s = q
    BY DEF OpenOf, BreakInv, BreaksApart, Before
  <2>2. CASE OpenOf(u) = {}
    <3>1. Cardinality(OpenOf(u)) = 0
      BY <2>2, FS_EmptySet
    <3> QED
      BY <3>1
  <2>3. CASE OpenOf(u) # {}
    <3>1. PICK s \in OpenOf(u) : OpenOf(u) = {s}
      BY <2>1, <2>3
    <3>2. Cardinality({s}) = 1
      BY FS_Singleton
    <3> QED
      BY <3>1, <3>2
  <2> QED
    BY <2>2, <2>3
<1>2. \A day \in 0 .. Horizon \div DayLength : 2 * DayTotal(u, day) <= DayLength
  <2>1. \A day \in 0 .. Horizon \div DayLength : day \in Nat
    OBVIOUS
  <2> QED
    BY <2>1, DayIsNotExceeded
<1> QED
  BY <1>1, <1>2, DaysMakeTheBreak

(***************************************************************************)
(* An agent's report shows no work twice and an entry of a day that has    *)
(* ended says what the day's report says, whatever is saved and copied     *)
(* meanwhile; and the breaks of an agent whose starts did not overlap fit  *)
(* into each day and add up over the days, for any tasks, days and agents  *)
(* and any length of the day.                                              *)
(***************************************************************************)
THEOREM DayAddsUp == DaySpec => []ReportsTrue
<1>1. DayInit => WorkInv /\ BreakInv
  BY WorkBegins, BreaksBegin DEF DayInit
<1>2. WorkInv /\ BreakInv /\ [DayNext]_<<workVars, breakVars>> => WorkInv' /\ BreakInv'
  <2> SUFFICES ASSUME WorkInv, BreakInv, [DayNext]_<<workVars, breakVars>> PROVE WorkInv' /\ BreakInv'
    OBVIOUS
  <2>1. [WorkSteps]_workVars /\ [BreakSteps]_breakVars
    BY DEF DayNext
  <2> QED
    BY <2>1, WorkStep, BreakStep
<1>3. WorkInv /\ BreakInv => ReportsTrue
  BY WorkFits, BreaksFit DEF ReportsTrue
<1> QED
  BY <1>1, <1>2, <1>3, PTL DEF DaySpec

----------------------------------------------------------------------------
(* Business time.                                                          *)

\* The office is open at x.
OpenAt(x) == ~Free(x) /\ Opening(DayOf(x)) <= x /\ x < OfficeEnd(x)

LEMMA WallDays ==
    ASSUME NEW d \in Int, NEW e \in Int, d < e
    PROVE  /\ d * WallDay \in Int /\ (d + 1) * WallDay \in Int /\ e * WallDay \in Int
           /\ (d + 1) * WallDay = d * WallDay + WallDay
           /\ (d + 1) * WallDay <= e * WallDay
<1>1. WallDay \in Nat /\ WallDay > 0
  BY SlaTimeAssumption
<1>2. e - (d + 1) \in Nat
  OBVIOUS
<1>3. (e - (d + 1)) * WallDay \in Nat
  BY <1>1, <1>2
<1>4. (e - (d + 1)) * WallDay = e * WallDay - (d + 1) * WallDay
  BY <1>1
<1>5. d * WallDay \in Int /\ e * WallDay \in Int /\ (d + 1) * WallDay \in Int
  BY <1>1
<1>6. (d + 1) * WallDay = d * WallDay + WallDay
  BY <1>1
<1> QED
  BY <1>3, <1>4, <1>5, <1>6

LEMMA DayOfUnit ==
    ASSUME NEW x \in Nat
    PROVE  /\ DayOf(x) \in Nat
           /\ DayOf(x) * WallDay <= x /\ x < (DayOf(x) + 1) * WallDay
<1>1. WallDay \in Nat /\ WallDay > 0
  BY SlaTimeAssumption
<1> QED
  BY <1>1 DEF DayOf

\* The days of the units between the beginning of one day and the end of another.
LEMMA DaysBetween ==
    ASSUME NEW x \in Nat, NEW d \in Nat, NEW e \in Nat,
           d * WallDay <= x, x < (e + 1) * WallDay
    PROVE  DayOf(x) \in Nat /\ d <= DayOf(x) /\ DayOf(x) <= e
<1>1. DayOf(x) \in Nat /\ DayOf(x) * WallDay <= x /\ x < (DayOf(x) + 1) * WallDay
  BY DayOfUnit
<1> DEFINE f == DayOf(x)
<1> HIDE DEF f
<1>2. f \in Nat /\ f * WallDay <= x /\ x < (f + 1) * WallDay
  BY <1>1 DEF f
<1>3. d <= f
  <2> SUFFICES ASSUME f < d PROVE FALSE
    BY <1>2
  <2> QED
    BY <1>2, WallDays
<1>4. f <= e
  <2> SUFFICES ASSUME e < f PROVE FALSE
    BY <1>2
  <2>1. f \in Int /\ e \in Int
    BY <1>2
  <2>2. (e + 1) * WallDay \in Int /\ f * WallDay \in Int /\ (e + 1) * WallDay <= f * WallDay
    BY <2>1, WallDays
  <2> QED
    BY <1>2, <2>2
<1> QED
  BY <1>2, <1>3, <1>4 DEF f

\* After the last day of a week comes its first.
LEMMA FreeDaysApart ==
    ASSUME NEW d \in Nat, d % Week = Week - 1
    PROVE  (d + 1) % Week # Week - 1
<1> SUFFICES ASSUME (d + 1) % Week = Week - 1 PROVE FALSE
  OBVIOUS
<1>1. Week \in Nat /\ Week > 1
  BY SlaTimeAssumption
<1> DEFINE q == d \div Week
           p == (d + 1) \div Week
<1>2. q \in Int /\ d = Week * q + (Week - 1)
  BY <1>1
<1>3. p \in Int /\ d + 1 = Week * p + (Week - 1)
  BY <1>1
<1> HIDE DEF q, p
<1>4. Week * p = Week * q + 1
  BY <1>1, <1>2, <1>3
<1>5. Week * (p - q) = 1
  BY <1>1, <1>2, <1>3, <1>4
<1>6. p - q >= 1 => Week * (p - q) >= Week
  <2>1. ASSUME p - q >= 1 PROVE Week * (p - q) >= Week
    <3>1. p - q - 1 \in Nat
      BY <1>2, <1>3, <2>1
    <3>2. Week * (p - q - 1) \in Nat /\ Week * (p - q - 1) = Week * (p - q) - Week
      BY <1>1, <1>2, <1>3, <3>1
    <3> QED
      BY <3>2, <1>1, <1>2, <1>3
  <2> QED
    BY <2>1
<1>7. p - q <= 0 => Week * (p - q) <= 0
  <2>1. ASSUME p - q <= 0 PROVE Week * (p - q) <= 0
    <3>1. q - p \in Nat
      BY <1>2, <1>3, <2>1
    <3>2. Week * (q - p) \in Nat /\ Week * (q - p) = 0 - Week * (p - q)
      BY <1>1, <1>2, <1>3, <3>1
    <3> QED
      BY <3>2, <1>1, <1>2, <1>3
  <2> QED
    BY <2>1
<1> QED
  BY <1>1, <1>2, <1>3, <1>5, <1>6, <1>7

\* What opening and closing times are.
LEMMA OpeningHours ==
    ASSUME NEW d \in Nat
    PROVE  /\ Opening(d) \in Nat /\ d * WallDay <= Opening(d) /\ Opening(d) < (d + 1) * WallDay
           /\ DayOf(Opening(d)) = d
           /\ d % Week # Week - 1 => OpenAt(Opening(d))
<1>1. Opens \in Nat /\ Closes \in Nat /\ WallDay \in Nat /\ Opens < Closes /\ Closes < WallDay
  BY SlaTimeAssumption
<1>2. d * WallDay \in Nat /\ (d + 1) * WallDay = d * WallDay + WallDay
  BY <1>1
<1>3. Opening(d) \in Nat /\ d * WallDay <= Opening(d) /\ Opening(d) < (d + 1) * WallDay
  BY <1>1, <1>2 DEF Opening
<1>4. DayOf(Opening(d)) = d
  <2>1. DayOf(Opening(d)) \in Nat /\ d <= DayOf(Opening(d)) /\ DayOf(Opening(d)) <= d
    BY <1>3, DaysBetween
  <2> QED
    BY <2>1
<1>5. d % Week # Week - 1 => OpenAt(Opening(d))
  <2>1. Opening(d) < d * WallDay + Closes
    BY <1>1, <1>2 DEF Opening
  <2> QED
    BY <1>3, <1>4, <2>1 DEF OpenAt, Free, OfficeEnd
<1> QED
  BY <1>3, <1>4, <1>5

\* The office is closed before it opens and after it has closed.
LEMMA ClosedHours ==
    ASSUME NEW x \in Nat, x < Opening(DayOf(x)) \/ x >= OfficeEnd(x) \/ Free(x)
    PROVE  ~OpenAt(x)
<1>1. OfficeEnd(x) \in Int /\ Opening(DayOf(x)) \in Int
  BY DayOfUnit, SlaTimeAssumption DEF OfficeEnd, Opening
<1> QED
  BY <1>1 DEF OpenAt

\* The next business time is the first open unit.
LEMMA NextIsOpen ==
    ASSUME NEW t \in Nat
    PROVE  LET n == NextBusinessTime(t)
           IN n \in Nat /\ n >= t /\ OpenAt(n) /\ \A x \in Nat : t <= x /\ x < n => ~OpenAt(x)
<1> DEFINE d == DayOf(t)
           n == NextBusinessTime(t)
<1>1. d \in Nat /\ d * WallDay <= t /\ t < (d + 1) * WallDay
  BY DayOfUnit
<1>2. Free(t) <=> d % Week = Week - 1
  BY DEF Free
<1>3. ASSUME NEW e \in Nat, e >= d, e % Week # Week - 1, Opening(e) >= t,
             \A x \in Nat : t <= x /\ x < Opening(e) => x < Opening(DayOf(x)) \/ x >= OfficeEnd(x) \/ Free(x)
      PROVE  /\ Opening(e) \in Nat /\ Opening(e) >= t /\ OpenAt(Opening(e))
             /\ \A x \in Nat : t <= x /\ x < Opening(e) => ~OpenAt(x)
  BY <1>3, OpeningHours, ClosedHours
<1>4. ASSUME NEW e \in Nat, e > d PROVE Opening(e) >= t
  <2>1. (d + 1) * WallDay \in Int /\ e * WallDay \in Int /\ (d + 1) * WallDay <= e * WallDay
    BY <1>1, <1>4, WallDays
  <2> QED
    BY <1>1, <2>1, OpeningHours
<1>5. ASSUME NEW x \in Nat, NEW e \in Nat, t <= x, x < Opening(e)
      PROVE  DayOf(x) \in Nat /\ d <= DayOf(x) /\ DayOf(x) <= e /\ (DayOf(x) = e => x < Opening(DayOf(x)))
  <2>1. Opening(e) \in Nat /\ Opening(e) < (e + 1) * WallDay /\ (e + 1) * WallDay \in Int /\ d * WallDay \in Int
    BY OpeningHours, <1>1, SlaTimeAssumption
  <2>2. x < (e + 1) * WallDay /\ d * WallDay <= x
    BY <2>1, <1>1, <1>5
  <2> QED
    BY <2>2, <1>1, <1>5, DaysBetween
<1>6. CASE Free(t)
  <2>1. n = Opening(d + 1)
    BY <1>6 DEF NextBusinessTime
  <2>2. (d + 1) % Week # Week - 1
    BY <1>1, <1>2, <1>6, FreeDaysApart
  <2>3. \A x \in Nat : t <= x /\ x < Opening(d + 1) => x < Opening(DayOf(x)) \/ x >= OfficeEnd(x) \/ Free(x)
    <3> SUFFICES ASSUME NEW x \in Nat, t <= x, x < Opening(d + 1)
                 PROVE  x < Opening(DayOf(x)) \/ Free(x)
      OBVIOUS
    <3>1. DayOf(x) \in {d, d + 1} /\ (DayOf(x) = d + 1 => x < Opening(DayOf(x)))
      BY <1>1, <1>5
    <3> QED
      BY <3>1, <1>2, <1>6 DEF Free
  <2> HIDE DEF d, n
  <2> QED
    BY <1>1, <1>3, <1>4, <2>1, <2>2, <2>3 DEF n
<1>7. CASE ~Free(t) /\ t < Opening(d)
  <2>1. n = Opening(d)
    BY <1>7 DEF NextBusinessTime
  <2>2. \A x \in Nat : t <= x /\ x < Opening(d) => x < Opening(DayOf(x)) \/ x >= OfficeEnd(x) \/ Free(x)
    <3> SUFFICES ASSUME NEW x \in Nat, t <= x, x < Opening(d) PROVE x < Opening(DayOf(x))
      OBVIOUS
    <3> QED
      BY <1>1, <1>5
  <2>3. Opening(d) >= t
    BY <1>1, <1>7, OpeningHours
  <2> HIDE DEF d, n
  <2> QED
    BY <1>1, <1>2, <1>3, <1>7, <2>1, <2>2, <2>3 DEF n
<1>8. CASE ~Free(t) /\ ~(t < Opening(d)) /\ t >= OfficeEnd(t)
  <2> DEFINE e == WorkingDay(d + 1)
  <2>1. n = Opening(e)
    BY <1>8 DEF NextBusinessTime
  <2>2. e \in Nat /\ e > d /\ e % Week # Week - 1 /\ (e # d + 1 => e = d + 2 /\ (d + 1) % Week = Week - 1)
    <3>1. CASE (d + 1) % Week = Week - 1
      <4>1. e = d + 2
        BY <1>1, <3>1 DEF WorkingDay
      <4>2. (d + 1 + 1) % Week # Week - 1
        BY <1>1, <3>1, FreeDaysApart
      <4>3. d + 1 + 1 = d + 2
        BY <1>1
      <4> QED
        BY <1>1, <3>1, <4>1, <4>2, <4>3
    <3>2. CASE (d + 1) % Week # Week - 1
      BY <1>1, <3>2 DEF WorkingDay
    <3> QED
      BY <3>1, <3>2
  <2>3. \A x \in Nat : t <= x /\ x < Opening(e) => x < Opening(DayOf(x)) \/ x >= OfficeEnd(x) \/ Free(x)
    <3> SUFFICES ASSUME NEW x \in Nat, t <= x, x < Opening(e)
                 PROVE  x < Opening(DayOf(x)) \/ x >= OfficeEnd(x) \/ Free(x)
      OBVIOUS
    <3> HIDE DEF e, d
    <3>1. /\ DayOf(x) \in Nat /\ d <= DayOf(x) /\ DayOf(x) <= e
          /\ DayOf(x) = e => x < Opening(DayOf(x))
      BY <1>5, <2>2
    <3>2. CASE DayOf(x) = d
      <4>1. OfficeEnd(x) = OfficeEnd(t) /\ OfficeEnd(t) \in Int
        BY <3>2, <1>1, SlaTimeAssumption DEF OfficeEnd, d
      <4> QED
        BY <4>1, <1>8
    <3>3. CASE DayOf(x) # d /\ DayOf(x) # e
      <4>1. e = d + 2 /\ DayOf(x) = d + 1 /\ (d + 1) % Week = Week - 1
        BY <1>1, <2>2, <3>1, <3>3
      <4> QED
        BY <4>1 DEF Free
    <3> QED
      BY <3>1, <3>2, <3>3
  <2>4. e >= d /\ Opening(e) >= t
    BY <1>1, <1>4, <2>2
  <2> HIDE DEF d, n, e
  <2> QED
    BY <1>3, <2>1, <2>2, <2>3, <2>4 DEF n
<1>9. CASE ~Free(t) /\ ~(t < Opening(d)) /\ ~(t >= OfficeEnd(t))
  <2>1. n = t
    BY <1>9 DEF NextBusinessTime
  <2>2. OfficeEnd(t) \in Int /\ Opening(d) \in Int
    BY <1>1, SlaTimeAssumption DEF OfficeEnd, Opening
  <2>3. OpenAt(t)
    BY <1>9, <2>2 DEF OpenAt
  <2> QED
    BY <2>1, <2>3
<1> QED
  BY <1>6, <1>7, <1>8, <1>9

\* Once open, the office is open until it closes.
LEMMA OpenUntilEnd ==
    ASSUME NEW t \in Nat, OpenAt(t)
    PROVE  /\ OfficeEnd(t) \in Nat /\ OfficeEnd(t) > t
           /\ \A x \in Nat : t <= x /\ x < OfficeEnd(t) => OpenAt(x)
<1> DEFINE d == DayOf(t)
<1>1. d \in Nat /\ d * WallDay <= t /\ t < (d + 1) * WallDay
  BY DayOfUnit
<1>2. Opens \in Nat /\ Closes \in Nat /\ WallDay \in Nat /\ Closes < WallDay /\ d * WallDay \in Nat
      /\ (d + 1) * WallDay = d * WallDay + WallDay
  BY <1>1, SlaTimeAssumption
<1>3. OfficeEnd(t) = d * WallDay + Closes /\ Opening(d) = d * WallDay + Opens
  BY DEF OfficeEnd, Opening
<1>4. Opening(d) <= t /\ t < OfficeEnd(t) /\ ~(d % Week = Week - 1)
  BY DEF OpenAt, Free
<1>5. ASSUME NEW x \in Nat, t <= x, x < OfficeEnd(t) PROVE OpenAt(x)
  <2> HIDE DEF d
  <2>1. d * WallDay <= x /\ x < (d + 1) * WallDay
    BY <1>1, <1>2, <1>3, <1>5
  <2>2. DayOf(x) = d
    BY <2>1, <1>1, DaysBetween
  <2>3. OfficeEnd(x) = OfficeEnd(t)
    BY <2>2 DEF OfficeEnd, d
  <2>4. Opening(d) <= x
    BY <1>2, <1>3, <1>4, <1>5
  <2> QED
    BY <1>4, <1>5, <2>2, <2>3, <2>4 DEF OpenAt, Free
<1> QED
  BY <1>2, <1>3, <1>4, <1>5

\* The next morning is the first open unit after the office has closed.
LEMMA MorningIsOpen ==
    ASSUME NEW t \in Nat
    PROVE  LET m == NextMorning(t)
           IN  /\ m \in Nat /\ m > t /\ OpenAt(m)
               /\ OfficeEnd(t) \in Nat /\ OfficeEnd(t) <= m
               /\ \A x \in Nat : OfficeEnd(t) <= x /\ x < m => ~OpenAt(x)
<1> DEFINE d == DayOf(t)
           o == Opening(d + 1)
           m == NextMorning(t)
<1>1. d \in Nat /\ d * WallDay <= t /\ t < (d + 1) * WallDay
  BY DayOfUnit
<1>2. Closes \in Nat /\ WallDay \in Nat /\ Closes < WallDay /\ d * WallDay \in Nat
      /\ (d + 1) * WallDay = d * WallDay + WallDay
  BY <1>1, SlaTimeAssumption
<1>3. OfficeEnd(t) = d * WallDay + Closes /\ OfficeEnd(t) \in Nat /\ OfficeEnd(t) < (d + 1) * WallDay
  BY <1>2 DEF OfficeEnd
<1>4. o \in Nat /\ (d + 1) * WallDay <= o /\ o < (d + 1 + 1) * WallDay
  BY <1>1, OpeningHours
<1>5. m = NextBusinessTime(o)
  BY DEF NextMorning
<1>6. m \in Nat /\ m >= o /\ OpenAt(m) /\ \A x \in Nat : o <= x /\ x < m => ~OpenAt(x)
  BY <1>4, <1>5, NextIsOpen
<1>7. ASSUME NEW x \in Nat, OfficeEnd(t) <= x, x < o PROVE ~OpenAt(x)
  <2> HIDE DEF d, m
  <2>1. d * WallDay <= x /\ x < (d + 1 + 1) * WallDay
    <3>1. (d + 1 + 1) * WallDay \in Int
      BY <1>1, <1>2
    <3> QED
      BY <3>1, <1>2, <1>3, <1>4, <1>7
  <2>2. DayOf(x) \in {d, d + 1}
    <3>1. d + 1 \in Nat
      BY <1>1
    <3>2. DayOf(x) \in Nat /\ d <= DayOf(x) /\ DayOf(x) <= d + 1
      BY <2>1, <3>1, <1>1, DaysBetween
    <3> QED
      BY <3>2, <1>1
  <2>3. CASE DayOf(x) = d
    <3>1. OfficeEnd(x) = OfficeEnd(t)
      BY <2>3 DEF OfficeEnd, d
    <3> QED
      BY <3>1, <1>3, <1>7, ClosedHours
  <2>4. CASE DayOf(x) = d + 1
    BY <2>4, <1>7, ClosedHours
  <2> QED
    BY <2>2, <2>3, <2>4
<1>8. m > t /\ OfficeEnd(t) <= m
  BY <1>1, <1>2, <1>3, <1>4, <1>6
<1>9. ASSUME NEW x \in Nat, OfficeEnd(t) <= x, x < m PROVE ~OpenAt(x)
  <2>1. x < o \/ o <= x
    BY <1>4
  <2> QED
    BY <2>1, <1>6, <1>7, <1>9
<1> QED
  BY <1>3, <1>6, <1>8, <1>9

\* The open units of a stretch of time, and of two that meet.
LEMMA WorkedTyped ==
    ASSUME NEW a \in Nat, NEW b \in Nat
    PROVE  IsFiniteSet(Worked(a, b)) /\ Cardinality(Worked(a, b)) \in Nat
<1>1. IsFiniteSet(a .. b - 1)
  BY FS_Interval
<1>2. Worked(a, b) \subseteq a .. b - 1
  BY DEF Worked
<1> QED
  BY <1>1, <1>2, FS_Subset, FS_CardinalityType

LEMMA WorkedIs ==
    ASSUME NEW a \in Nat, NEW b \in Nat
    PROVE  \A x : x \in Worked(a, b) <=> x \in Nat /\ a <= x /\ x < b /\ OpenAt(x)
<1>1. \A x : x \in a .. b - 1 <=> x \in Nat /\ a <= x /\ x < b
  OBVIOUS
<1> QED
  BY <1>1 DEF Worked, OpenAt

LEMMA WorkedMeet ==
    ASSUME NEW a \in Nat, NEW b \in Nat, NEW c \in Nat, a <= b, b <= c
    PROVE  Cardinality(Worked(a, c)) = Cardinality(Worked(a, b)) + Cardinality(Worked(b, c))
<1>1. Worked(a, c) = Worked(a, b) \cup Worked(b, c)
  BY WorkedIs
<1>2. Worked(a, b) \cap Worked(b, c) = {}
  BY WorkedIs
<1>3. Cardinality(Worked(a, b) \cap Worked(b, c)) = 0
  BY <1>2, FS_EmptySet
<1>4. /\ IsFiniteSet(Worked(a, b)) /\ Cardinality(Worked(a, b)) \in Nat
      /\ IsFiniteSet(Worked(b, c)) /\ Cardinality(Worked(b, c)) \in Nat
  BY WorkedTyped
<1>5. Cardinality(Worked(a, b) \cup Worked(b, c)) =
          Cardinality(Worked(a, b)) + Cardinality(Worked(b, c)) - Cardinality(Worked(a, b) \cap Worked(b, c))
  BY <1>4, FS_Union
<1> QED
  BY <1>1, <1>3, <1>4, <1>5

LEMMA WorkedNone ==
    ASSUME NEW a \in Nat, NEW b \in Nat, \A x \in Nat : a <= x /\ x < b => ~OpenAt(x)
    PROVE  Worked(a, b) = {} /\ Cardinality(Worked(a, b)) = 0
<1>1. Worked(a, b) = {}
  BY WorkedIs
<1> QED
  BY <1>1, FS_EmptySet

LEMMA WorkedAll ==
    ASSUME NEW a \in Nat, NEW b \in Nat, a <= b, \A x \in Nat : a <= x /\ x < b => OpenAt(x)
    PROVE  Cardinality(Worked(a, b)) = b - a
<1>1. Worked(a, b) = a .. b - 1
  <2>1. \A x : x \in a .. b - 1 <=> x \in Nat /\ a <= x /\ x < b
    OBVIOUS
  <2> QED
    BY <2>1, WorkedIs
<1>2. Cardinality(a .. b - 1) = IF a > b - 1 THEN 0 ELSE (b - 1) - a + 1
  BY FS_Interval
<1> QED
  BY <1>1, <1>2

\* Some of the time is open time exactly when its measure is not zero.
LEMMA WorkedSome ==
    ASSUME NEW a \in Nat, NEW b \in Nat
    PROVE  Worked(a, b) # {} <=> Cardinality(Worked(a, b)) > 0
<1>1. IsFiniteSet(Worked(a, b)) /\ Cardinality(Worked(a, b)) \in Nat
  BY WorkedTyped
<1>2. Cardinality(Worked(a, b)) = 0 <=> Worked(a, b) = {}
  BY <1>1, FS_EmptySet
<1> QED
  BY <1>1, <1>2

LEMMA MoreThanNone ==
    ASSUME NEW n \in Int, n >= 0
    PROVE  Max({0, n}) = n
<1>1. 0 \in Int
  OBVIOUS
<1>2. Max({0, n}) \in {0, n} /\ Max({0, n}) >= n
  BY <1>1, MaxOfTwo
<1> QED
  BY <1>2

\* From an open unit to the end of the day, and on from the next morning.
LEMMA WorkedDaily ==
    ASSUME NEW u \in Nat, NEW end \in Nat, OpenAt(u), u < end
    PROVE  Cardinality(Worked(u, end)) =
               Max({0, Min({OfficeEnd(u), end}) - u}) + Cardinality(Worked(NextMorning(u), end))
<1> DEFINE m == NextMorning(u)
           o == OfficeEnd(u)
<1>1. o \in Nat /\ o > u /\ \A x \in Nat : u <= x /\ x < o => OpenAt(x)
  BY OpenUntilEnd
<1>2. m \in Nat /\ o <= m /\ \A x \in Nat : o <= x /\ x < m => ~OpenAt(x)
  BY MorningIsOpen
<1> HIDE DEF m, o
<1>3. CASE end <= o
  <2>1. Cardinality(Worked(u, end)) = end - u
    BY <1>1, <1>3, WorkedAll
  <2>2. Cardinality(Worked(m, end)) = 0
    BY <1>1, <1>2, <1>3, WorkedNone
  <2>3. Min({o, end}) = end
    <3>1. o \in Int /\ end \in Int
      BY <1>1
    <3>2. Min({o, end}) \in {o, end} /\ Min({o, end}) <= end
      BY <3>1, MinOfTwo
    <3> QED
      BY <3>1, <3>2, <1>3
  <2>4. end - u \in Int /\ end - u > 0
    OBVIOUS
  <2>5. Max({0, end - u}) = end - u
    BY <2>4, MoreThanNone
  <2> QED
    BY <2>1, <2>2, <2>3, <2>5, <2>4 DEF m, o
<1>4. CASE o < end
  <2>1. Cardinality(Worked(u, o)) = o - u
    BY <1>1, WorkedAll
  <2>2. Cardinality(Worked(u, end)) = Cardinality(Worked(u, o)) + Cardinality(Worked(o, end))
    BY <1>1, <1>4, WorkedMeet
  <2>3. Cardinality(Worked(o, end)) = Cardinality(Worked(m, end))
    <3>1. CASE end <= m
      <4>1. Cardinality(Worked(o, end)) = 0
        BY <1>1, <1>2, <3>1, WorkedNone
      <4>2. Cardinality(Worked(m, end)) = 0
        BY <1>2, <3>1, WorkedNone
      <4> QED
        BY <4>1, <4>2
    <3>2. CASE m < end
      <4>1. Cardinality(Worked(o, end)) = Cardinality(Worked(o, m)) + Cardinality(Worked(m, end))
        BY <1>1, <1>2, <3>2, WorkedMeet
      <4>2. Cardinality(Worked(o, m)) = 0
        BY <1>1, <1>2, WorkedNone
      <4>3. Cardinality(Worked(m, end)) \in Nat
        BY <1>2, WorkedTyped
      <4> QED
        BY <4>1, <4>2, <4>3
    <3> QED
      BY <1>2, <3>1, <3>2
  <2>4. Min({o, end}) = o
    <3>1. o \in Int /\ end \in Int
      BY <1>1
    <3>2. Min({o, end}) \in {o, end} /\ Min({o, end}) <= o
      BY <3>1, MinOfTwo
    <3> QED
      BY <3>1, <3>2, <1>4
  <2>5. o - u \in Int /\ o - u > 0
    BY <1>1
  <2>6. Max({0, o - u}) = o - u
    BY <2>5, MoreThanNone
  <2> QED
    BY <2>1, <2>2, <2>3, <2>4, <2>6 DEF m, o
<1> QED
  BY <1>1, <1>3, <1>4

LEMMA WorkedLater ==
    ASSUME NEW start \in Nat, NEW end \in Nat
    PROVE  /\ NextBusinessTime(start) \in Nat /\ OpenAt(NextBusinessTime(start))
           /\ start <= NextBusinessTime(start)
           /\ Cardinality(Worked(start, end)) = Cardinality(Worked(NextBusinessTime(start), end))
<1> DEFINE n == NextBusinessTime(start)
<1>1. n \in Nat /\ n >= start /\ OpenAt(n) /\ \A x \in Nat : start <= x /\ x < n => ~OpenAt(x)
  BY NextIsOpen
<1> HIDE DEF n
<1>2. CASE end <= n
  <2>1. Cardinality(Worked(start, end)) = 0 /\ Cardinality(Worked(n, end)) = 0
    BY <1>1, <1>2, WorkedNone
  <2> QED
    BY <2>1, <1>1 DEF n
<1>3. CASE n < end
  <2>1. Cardinality(Worked(start, end)) = Cardinality(Worked(start, n)) + Cardinality(Worked(n, end))
    BY <1>1, <1>3, WorkedMeet
  <2>2. Cardinality(Worked(start, n)) = 0
    BY <1>1, WorkedNone
  <2>3. Cardinality(Worked(n, end)) \in Nat
    BY <1>1, WorkedTyped
  <2> QED
    BY <2>1, <2>2, <2>3, <1>1 DEF n
<1> QED
  BY <1>1, <1>2, <1>3

\* business_seconds_between(): whatever satisfies its recursion counts open units.
LEMMA CountsOpenUnits ==
    ASSUME NEW end \in Nat, NEW f,
           \A t \in Nat : f[t] = IF t >= end THEN 0
                                 ELSE Max({0, Min({OfficeEnd(t), end}) - t}) + f[NextMorning(t)]
    PROVE  \A u \in Nat : OpenAt(u) => f[u] = Cardinality(Worked(u, end))
<1> DEFINE S == {k \in Nat : \A u \in Nat : OpenAt(u) /\ end - u <= k => f[u] = Cardinality(Worked(u, end))}
<1>1. ASSUME NEW u \in Nat, end <= u PROVE f[u] = Cardinality(Worked(u, end))
  <2>1. f[u] = 0
    BY <1>1
  <2>2. Cardinality(Worked(u, end)) = 0
    BY <1>1, WorkedNone
  <2> QED
    BY <2>1, <2>2
<1>2. 0 \in S
  <2> SUFFICES ASSUME NEW u \in Nat, OpenAt(u), end - u <= 0 PROVE f[u] = Cardinality(Worked(u, end))
    OBVIOUS
  <2> QED
    BY <1>1
<1>3. ASSUME NEW n \in Nat, n # 0, n - 1 \in S PROVE n \in S
  <2> SUFFICES ASSUME NEW u \in Nat, OpenAt(u), end - u <= n PROVE f[u] = Cardinality(Worked(u, end))
    OBVIOUS
  <2>1. CASE end <= u
    BY <2>1, <1>1
  <2>2. CASE u < end
    <3> DEFINE m == NextMorning(u)
    <3>1. m \in Nat /\ m > u /\ OpenAt(m)
      BY MorningIsOpen
    <3>2. f[u] = Max({0, Min({OfficeEnd(u), end}) - u}) + f[m]
      BY <2>2
    <3> HIDE DEF m
    <3>3. f[m] = Cardinality(Worked(m, end))
      BY <1>3, <3>1
    <3> QED
      BY <2>2, <3>2, <3>3, WorkedDaily DEF m
  <2> QED
    BY <2>1, <2>2
<1> HIDE DEF S
<1>4. Nat \subseteq S
  <2>1. Initial(Nat)
    BY DEF Initial
  <2> QED
    BY <2>1, <1>2, <1>3, SetInduction
<1> SUFFICES ASSUME NEW u \in Nat, OpenAt(u) PROVE f[u] = Cardinality(Worked(u, end))
  OBVIOUS
<1>5. CASE end <= u
  BY <1>1, <1>5
<1>6. CASE u < end
  <2>1. end - u \in Nat
    BY <1>6
  <2>2. end - u \in S
    BY <2>1, <1>4
  <2> QED
    BY <2>2 DEF S
<1> QED
  BY <1>5, <1>6

LEMMA BusinessIs ==
    ASSUME NEW start \in Nat, NEW end \in Nat
    PROVE  BusinessBetween(start, end) = Cardinality(Worked(start, end))
<1> DEFINE Counts1(f) == f = [t \in Nat |-> IF t >= end THEN 0
                        ELSE Max({0, Min({OfficeEnd(t), end}) - t}) + f[NextMorning(t)]]
           c == CHOOSE f : Counts1(f)
           g == [t \in Nat |-> IF t >= end THEN 0
                    ELSE Max({0, Min({OfficeEnd(t), end}) - t}) + Cardinality(Worked(NextMorning(t), end))]
<1>1. Counts1(g)
  <2>1. ASSUME NEW t \in Nat PROVE g[NextMorning(t)] = Cardinality(Worked(NextMorning(t), end))
    <3> DEFINE m == NextMorning(t)
    <3>1. m \in Nat /\ OpenAt(m)
      BY MorningIsOpen
    <3> HIDE DEF m
    <3>2. CASE m >= end
      <4>1. g[m] = 0
        BY <3>1, <3>2
      <4>2. Cardinality(Worked(m, end)) = 0
        BY <3>1, <3>2, WorkedNone
      <4> QED
        BY <4>1, <4>2 DEF m
    <3>3. CASE m < end
      <4>1. g[m] = Max({0, Min({OfficeEnd(m), end}) - m}) + Cardinality(Worked(NextMorning(m), end))
        BY <3>1, <3>3
      <4> QED
        BY <4>1, <3>1, <3>3, WorkedDaily DEF m
    <3> QED
      BY <3>1, <3>2, <3>3
  <2> QED
    BY <2>1
<1>2. Counts1(c)
  BY <1>1
<1> HIDE DEF g
<1>3. \A t \in Nat : c[t] = IF t >= end THEN 0
                            ELSE Max({0, Min({OfficeEnd(t), end}) - t}) + c[NextMorning(t)]
  <2> HIDE DEF c
  <2> QED
    BY <1>2
<1>4. BusinessBetween(start, end) = c[NextBusinessTime(start)]
  BY DEF BusinessBetween
<1> HIDE DEF c, Counts1
<1>5. \A u \in Nat : OpenAt(u) => c[u] = Cardinality(Worked(u, end))
  BY <1>3, CountsOpenUnits
<1> QED
  BY <1>4, <1>5, WorkedLater

\* x is where l open units from u on have been worked.
Reach(u, l, x) == x \in Nat /\ x > u /\ Cardinality(Worked(u, x)) = l /\ OpenAt(x - 1)

\* Work may always go on: any number of units is reached, ...
LEMMA Reaches ==
    ASSUME NEW u \in Nat, OpenAt(u), NEW l \in Nat, l # 0
    PROVE  \E x : Reach(u, l, x)
<1> DEFINE S == {k \in Nat : k = 0 \/ \E x : Reach(u, k, x)}
<1>1. 0 \in S
  OBVIOUS
<1>2. ASSUME NEW x \in Nat, x >= u
      PROVE  \E y : Reach(u, Cardinality(Worked(u, x)) + 1, y)
  <2> DEFINE n == NextBusinessTime(x)
  <2>1. n \in Nat /\ n >= x /\ OpenAt(n) /\ \A y \in Nat : x <= y /\ y < n => ~OpenAt(y)
    BY NextIsOpen
  <2> HIDE DEF n
  <2>2. Cardinality(Worked(u, n)) = Cardinality(Worked(u, x))
    <3>1. Cardinality(Worked(u, n)) = Cardinality(Worked(u, x)) + Cardinality(Worked(x, n))
      BY <1>2, <2>1, WorkedMeet
    <3>2. Cardinality(Worked(x, n)) = 0
      BY <2>1, WorkedNone
    <3>3. Cardinality(Worked(u, x)) \in Nat
      BY WorkedTyped
    <3> QED
      BY <3>1, <3>2, <3>3
  <2>3. n + 1 \in Nat /\ n <= n + 1 /\ u <= n /\ (n + 1) - 1 = n /\ n + 1 > u
    BY <1>2, <2>1
  <2>4. Cardinality(Worked(n, n + 1)) = 1
    <3>1. \A y \in Nat : n <= y /\ y < n + 1 => OpenAt(y)
      <4>1. \A y \in Nat : n <= y /\ y < n + 1 => y = n
        BY <2>1
      <4> QED
        BY <2>1, <4>1
    <3>2. Cardinality(Worked(n, n + 1)) = (n + 1) - n
      BY <2>1, <2>3, <3>1, WorkedAll
    <3> QED
      BY <2>1, <3>2
  <2>5. Cardinality(Worked(u, n + 1)) = Cardinality(Worked(u, n)) + Cardinality(Worked(n, n + 1))
    BY <2>1, <2>3, WorkedMeet
  <2>6. Reach(u, Cardinality(Worked(u, x)) + 1, n + 1)
    BY <2>1, <2>2, <2>3, <2>4, <2>5 DEF Reach
  <2> QED
    BY <2>6
<1>3. ASSUME NEW n \in Nat, n # 0, n - 1 \in S PROVE n \in S
  <2>1. \E x \in Nat : x >= u /\ Cardinality(Worked(u, x)) = n - 1
    <3>1. CASE n - 1 = 0
      <4>1. Cardinality(Worked(u, u)) = 0
        BY WorkedNone
      <4> QED
        BY <4>1, <3>1
    <3>2. CASE n - 1 # 0
      <4>1. PICK x : Reach(u, n - 1, x)
        BY <1>3, <3>2
      <4> QED
        BY <4>1 DEF Reach
    <3> QED
      BY <3>1, <3>2
  <2>2. PICK x \in Nat : x >= u /\ Cardinality(Worked(u, x)) = n - 1
    BY <2>1
  <2>3. \E y : Reach(u, (n - 1) + 1, y)
    BY <2>2, <1>2
  <2>4. (n - 1) + 1 = n
    OBVIOUS
  <2> QED
    BY <2>3, <2>4
<1> HIDE DEF S
<1>4. Nat \subseteq S
  <2>1. Initial(Nat)
    BY DEF Initial
  <2> QED
    BY <2>1, <1>1, <1>3, SetInduction
<1> QED
  BY <1>4 DEF S

\* ... at one place: the last of them ends there.
LEMMA ReachedOnce ==
    ASSUME NEW u \in Nat, NEW l \in Nat, NEW x, NEW y, Reach(u, l, x), Reach(u, l, y)
    PROVE  x = y
<1>1. ASSUME NEW p, NEW q, Reach(u, l, p), Reach(u, l, q), p < q PROVE FALSE
  <2>1. p \in Nat /\ q \in Nat /\ p > u /\ q > u /\ OpenAt(q - 1)
    BY <1>1 DEF Reach
  <2>2. Cardinality(Worked(u, q)) = Cardinality(Worked(u, p)) + Cardinality(Worked(p, q))
    BY <1>1, <2>1, WorkedMeet
  <2>3. q - 1 \in Worked(p, q)
    <3>1. q - 1 \in Nat /\ p <= q - 1 /\ q - 1 < q
      BY <1>1, <2>1
    <3> QED
      BY <2>1, <3>1, WorkedIs
  <2>4. Cardinality(Worked(p, q)) > 0
    BY <2>1, <2>3, WorkedSome
  <2>5. Cardinality(Worked(p, q)) \in Nat
    BY <2>1, WorkedTyped
  <2>6. Cardinality(Worked(u, q)) = l /\ Cardinality(Worked(u, p)) = l
    BY <1>1 DEF Reach
  <2> QED
    BY <2>2, <2>4, <2>5, <2>6
<1>2. x \in Nat /\ y \in Nat
  BY DEF Reach
<1>3. ~(x < y)
  BY <1>1
<1>4. ~(y < x)
  BY <1>1
<1> QED
  BY <1>2, <1>3, <1>4

\* A day's open time is enough, or the next morning goes on with what is left.
LeftToday(t) == Max({0, OfficeEnd(t) - t})

LEMMA LeftTodayIs ==
    ASSUME NEW u \in Nat, OpenAt(u)
    PROVE  LeftToday(u) = OfficeEnd(u) - u /\ LeftToday(u) \in Nat /\ LeftToday(u) > 0
<1>1. OfficeEnd(u) \in Nat /\ OfficeEnd(u) > u
  BY OpenUntilEnd
<1>2. OfficeEnd(u) - u \in Nat /\ OfficeEnd(u) - u > 0
  BY <1>1
<1> QED
  BY <1>2, MoreThanNone DEF LeftToday

LEMMA LeftTodayTyped ==
    ASSUME NEW t \in Nat
    PROVE  LeftToday(t) \in Nat
<1>1. OfficeEnd(t) - t \in Int
  BY MorningIsOpen
<1>2. 0 \in Int
  OBVIOUS
<1>3. Max({0, OfficeEnd(t) - t}) \in {0, OfficeEnd(t) - t} /\ Max({0, OfficeEnd(t) - t}) >= 0
  BY <1>1, <1>2, MaxOfTwo
<1> QED
  BY <1>1, <1>3 DEF LeftToday

LEMMA ReachedToday ==
    ASSUME NEW u \in Nat, OpenAt(u), NEW l \in Nat, l # 0, l <= LeftToday(u)
    PROVE  Reach(u, l, u + l)
<1>1. LeftToday(u) = OfficeEnd(u) - u /\ OfficeEnd(u) \in Nat
  BY LeftTodayIs, OpenUntilEnd
<1>2. u + l \in Nat /\ u + l > u /\ u + l <= OfficeEnd(u) /\ (u + l) - 1 \in Nat
      /\ u <= (u + l) - 1 /\ (u + l) - 1 < OfficeEnd(u)
  BY <1>1
<1>3. \A x \in Nat : u <= x /\ x < OfficeEnd(u) => OpenAt(x)
  BY OpenUntilEnd
<1>4. \A x \in Nat : u <= x /\ x < u + l => OpenAt(x)
  BY <1>1, <1>2, <1>3
<1>5. Cardinality(Worked(u, u + l)) = (u + l) - u
  BY <1>2, <1>4, WorkedAll
<1> QED
  BY <1>2, <1>3, <1>5 DEF Reach

LEMMA ReachedTomorrow ==
    ASSUME NEW u \in Nat, OpenAt(u), NEW l \in Nat, l > LeftToday(u), NEW x,
           Reach(NextMorning(u), l - LeftToday(u), x)
    PROVE  Reach(u, l, x)
<1> DEFINE m == NextMorning(u)
           o == OfficeEnd(u)
<1>1. m \in Nat /\ o \in Nat /\ o <= m /\ m > u /\ \A y \in Nat : o <= y /\ y < m => ~OpenAt(y)
  BY MorningIsOpen
<1>2. LeftToday(u) = o - u /\ o > u
  BY LeftTodayIs, OpenUntilEnd
<1>3. \A y \in Nat : u <= y /\ y < o => OpenAt(y)
  BY OpenUntilEnd
<1>4. x \in Nat /\ x > m /\ Cardinality(Worked(m, x)) = l - LeftToday(u) /\ OpenAt(x - 1)
  BY DEF Reach
<1> HIDE DEF m, o
<1>5. Cardinality(Worked(u, x)) = Cardinality(Worked(u, m)) + Cardinality(Worked(m, x))
  BY <1>1, <1>4, WorkedMeet
<1>6. Cardinality(Worked(u, m)) = Cardinality(Worked(u, o)) + Cardinality(Worked(o, m))
  BY <1>1, <1>2, WorkedMeet
<1>7. Cardinality(Worked(u, o)) = o - u
  BY <1>1, <1>2, <1>3, WorkedAll
<1>8. Cardinality(Worked(o, m)) = 0
  BY <1>1, WorkedNone
<1>9. x > u /\ Cardinality(Worked(u, x)) = l
  BY <1>1, <1>2, <1>4, <1>5, <1>6, <1>7, <1>8
<1> QED
  BY <1>4, <1>9 DEF Reach

\* calculate_due_at(): whatever satisfies its recursion reaches the number of units.
LEMMA GoesOnToReach ==
    ASSUME NEW f,
           \A t \in Nat, left \in Nat :
               f[<<t, left>>] = IF left = 0 THEN t
                            ELSE IF left <= LeftToday(t) THEN t + left
                            ELSE f[<<NextMorning(t), left - LeftToday(t)>>]
    PROVE  \A u \in Nat, l \in Nat : OpenAt(u) /\ l # 0 => Reach(u, l, f[<<u, l>>])
<1> DEFINE S == {k \in Nat : \A u \in Nat, l \in Nat : OpenAt(u) /\ l # 0 /\ l <= k => Reach(u, l, f[<<u, l>>])}
<1>1. 0 \in S
  <2>1. \A l \in Nat : ~(l # 0 /\ l <= 0)
    OBVIOUS
  <2> QED
    BY <2>1
<1>2. ASSUME NEW n \in Nat, n # 0, n - 1 \in S PROVE n \in S
  <2> SUFFICES ASSUME NEW u \in Nat, NEW l \in Nat, OpenAt(u), l # 0, l <= n PROVE Reach(u, l, f[<<u, l>>])
    OBVIOUS
  <2>1. CASE l <= LeftToday(u)
    <3>1. f[<<u, l>>] = u + l
      BY <2>1
    <3> QED
      BY <3>1, <2>1, ReachedToday
  <2>2. CASE ~(l <= LeftToday(u))
    <3> DEFINE m == NextMorning(u)
               r == l - LeftToday(u)
    <3>1. m \in Nat /\ OpenAt(m)
      BY MorningIsOpen
    <3>2. LeftToday(u) \in Nat /\ LeftToday(u) > 0
      BY LeftTodayIs
    <3>3. r \in Nat /\ r # 0 /\ r <= n - 1 /\ l > LeftToday(u)
      BY <2>2, <3>2
    <3>4. f[<<u, l>>] = f[<<m, r>>]
      BY <2>2
    <3> HIDE DEF m, r
    <3>5. Reach(m, r, f[<<m, r>>])
      BY <1>2, <3>1, <3>3
    <3> QED
      BY <3>3, <3>4, <3>5, ReachedTomorrow DEF m, r
  <2> QED
    BY <2>1, <2>2
<1> HIDE DEF S
<1>3. Nat \subseteq S
  <2>1. Initial(Nat)
    BY DEF Initial
  <2> QED
    BY <2>1, <1>1, <1>2, SetInduction
<1> SUFFICES ASSUME NEW u \in Nat, NEW l \in Nat, OpenAt(u), l # 0 PROVE Reach(u, l, f[<<u, l>>])
  OBVIOUS
<1>4. l \in S /\ l <= l
  BY <1>3
<1> QED
  BY <1>4 DEF S

LEMMA DueIs ==
    ASSUME NEW start \in Nat, NEW seconds \in Nat, seconds # 0
    PROVE  Reach(NextBusinessTime(start), seconds, DueAt(start, seconds))
<1> DEFINE Goes(f) == f = [p \in Nat \X Nat |->
                              IF p[2] = 0 THEN p[1]
                              ELSE IF p[2] <= LeftToday(p[1]) THEN p[1] + p[2]
                              ELSE f[<<NextMorning(p[1]), p[2] - LeftToday(p[1])>>]]
           c == CHOOSE f : Goes(f)
           D(u, l) == CHOOSE x : Reach(u, l, x)
           g == [p \in Nat \X Nat |->
                    IF p[2] = 0 THEN p[1]
                    ELSE IF p[2] <= LeftToday(p[1]) THEN p[1] + p[2]
                    ELSE D(NextMorning(p[1]), p[2] - LeftToday(p[1]))]
<1>1. ASSUME NEW u \in Nat, NEW l \in Nat, OpenAt(u), l # 0
      PROVE  Reach(u, l, D(u, l)) /\ \A x : Reach(u, l, x) => x = D(u, l)
  <2>1. Reach(u, l, D(u, l))
    BY <1>1, Reaches
  <2> HIDE DEF D
  <2> QED
    BY <2>1, ReachedOnce
<1> HIDE DEF D
<1>2. Goes(g)
  <2>1. ASSUME NEW u \in Nat, NEW l \in Nat, OpenAt(u), l # 0 PROVE g[<<u, l>>] = D(u, l)
    <3>1. CASE l <= LeftToday(u)
      <4>1. g[<<u, l>>] = u + l
        BY <2>1, <3>1
      <4> HIDE DEF g
      <4> QED
        BY <1>1, <2>1, <3>1, <4>1, ReachedToday
    <3>2. CASE ~(l <= LeftToday(u))
      <4> DEFINE m == NextMorning(u)
                 r == l - LeftToday(u)
      <4>1. m \in Nat /\ OpenAt(m)
        BY MorningIsOpen
      <4>2. LeftToday(u) \in Nat /\ r \in Nat /\ r # 0 /\ l > LeftToday(u)
        <5>1. LeftToday(u) \in Nat
          BY LeftTodayTyped
        <5> QED
          BY <5>1, <3>2
      <4>3. g[<<u, l>>] = D(m, r)
        BY <2>1, <3>2
      <4> HIDE DEF g, m, r
      <4>4. Reach(m, r, D(m, r))
        BY <1>1, <4>1, <4>2
      <4>5. Reach(u, l, D(m, r))
        BY <2>1, <4>2, <4>4, ReachedTomorrow DEF m, r
      <4> QED
        BY <1>1, <2>1, <4>3, <4>5
    <3> QED
      BY <3>1, <3>2
  <2>2. ASSUME NEW t \in Nat, NEW left \in Nat, left # 0, ~(left <= LeftToday(t))
        PROVE  D(NextMorning(t), left - LeftToday(t)) = g[<<NextMorning(t), left - LeftToday(t)>>]
    <3>1. NextMorning(t) \in Nat /\ OpenAt(NextMorning(t))
      BY MorningIsOpen
    <3>2. left - LeftToday(t) \in Nat /\ left - LeftToday(t) # 0
      <4>1. LeftToday(t) \in Nat
        BY LeftTodayTyped
      <4> QED
        BY <4>1, <2>2
    <3> HIDE DEF g
    <3> QED
      BY <3>1, <3>2, <2>1
  <2>3. g = [p \in Nat \X Nat |->
                IF p[2] = 0 THEN p[1]
                ELSE IF p[2] <= LeftToday(p[1]) THEN p[1] + p[2]
                ELSE g[<<NextMorning(p[1]), p[2] - LeftToday(p[1])>>]]
    <3>1. \A p \in Nat \X Nat : p[1] \in Nat /\ p[2] \in Nat
      OBVIOUS
    <3>2. \A p \in Nat \X Nat : p[2] # 0 /\ ~(p[2] <= LeftToday(p[1])) =>
              D(NextMorning(p[1]), p[2] - LeftToday(p[1])) = g[<<NextMorning(p[1]), p[2] - LeftToday(p[1])>>]
      BY <2>2, <3>1
    <3> DEFINE h == g
    <3>3. h = [p \in Nat \X Nat |->
                  IF p[2] = 0 THEN p[1]
                  ELSE IF p[2] <= LeftToday(p[1]) THEN p[1] + p[2]
                  ELSE D(NextMorning(p[1]), p[2] - LeftToday(p[1]))]
      OBVIOUS
    <3> HIDE DEF h
    <3> QED
      BY <3>2, <3>3 DEF h
  <2> QED
    BY <2>3
<1>3. Goes(c)
  <2> HIDE DEF Goes, g
  <2> QED
    BY <1>2
<1>4. \A t \in Nat, left \in Nat :
         c[<<t, left>>] = IF left = 0 THEN t
                      ELSE IF left <= LeftToday(t) THEN t + left
                      ELSE c[<<NextMorning(t), left - LeftToday(t)>>]
  <2> HIDE DEF c
  <2> QED
    BY <1>3
<1>5. DueAt(start, seconds) = c[<<NextBusinessTime(start), Max({0, seconds})>>]
  BY DEF DueAt, LeftToday
<1>6. Max({0, seconds}) = seconds
  BY MoreThanNone
<1>7. NextBusinessTime(start) \in Nat /\ OpenAt(NextBusinessTime(start))
  BY NextIsOpen
<1> HIDE DEF c, Goes, g
<1>8. \A u \in Nat, l \in Nat : OpenAt(u) /\ l # 0 => Reach(u, l, c[<<u, l>>])
  BY <1>4, GoesOnToReach
<1> QED
  BY <1>5, <1>6, <1>7, <1>8

(***************************************************************************)
(* The two loops agree: the business time since a start exceeds the        *)
(* response time exactly when some of it has passed since the deadline.    *)
(***************************************************************************)
THEOREM OverdueIsPastDue ==
    ASSUME NEW start \in Nat, NEW seconds \in Nat, seconds # 0, NEW end \in Nat
    PROVE  BusinessBetween(start, end) > seconds <=> Worked(DueAt(start, seconds), end) # {}
<1> DEFINE n == NextBusinessTime(start)
           due == DueAt(start, seconds)
<1>1. BusinessBetween(start, end) = Cardinality(Worked(n, end)) /\ n \in Nat
  BY BusinessIs, WorkedLater
<1>2. Reach(n, seconds, due)
  BY DueIs
<1> HIDE DEF n, due
<1>3. due \in Nat /\ due > n /\ Cardinality(Worked(n, due)) = seconds
  BY <1>2 DEF Reach
<1>4. CASE end <= due
  <2>1. Worked(due, end) = {}
    BY <1>3, <1>4, WorkedNone
  <2>2. Cardinality(Worked(n, end)) <= seconds
    <3>1. CASE end <= n
      <4>1. Cardinality(Worked(n, end)) = 0
        BY <1>1, <3>1, WorkedNone
      <4> QED
        BY <4>1
    <3>2. CASE n < end
      <4>1. Cardinality(Worked(n, due)) = Cardinality(Worked(n, end)) + Cardinality(Worked(end, due))
        BY <1>1, <1>3, <1>4, <3>2, WorkedMeet
      <4>2. Cardinality(Worked(n, end)) \in Nat /\ Cardinality(Worked(end, due)) \in Nat
        BY <1>1, <1>3, WorkedTyped
      <4> QED
        BY <1>3, <4>1, <4>2
    <3> QED
      BY <1>1, <3>1, <3>2
  <2>3. Cardinality(Worked(n, end)) \in Nat
    BY <1>1, WorkedTyped
  <2> QED
    BY <1>1, <2>1, <2>2, <2>3 DEF due
<1>5. CASE due < end
  <2>1. Cardinality(Worked(n, end)) = seconds + Cardinality(Worked(due, end))
    BY <1>1, <1>3, <1>5, WorkedMeet
  <2>2. Cardinality(Worked(due, end)) \in Nat
    BY <1>3, WorkedTyped
  <2>3. Worked(due, end) # {} <=> Cardinality(Worked(due, end)) > 0
    BY <1>3, WorkedSome
  <2> QED
    BY <1>1, <2>1, <2>2, <2>3 DEF due
<1> QED
  BY <1>3, <1>4, <1>5

----------------------------------------------------------------------------
(* The clock of a conversation.                                            *)

ThreadMessage == [from : {"buyer", "seller"}, at : Nat \ {0}]
Cycle == [start : Nat \ {0}, end : Nat, seconds : Int, met : BOOLEAN]
Sellers == {j \in DOMAIN messages : messages[j].from = "seller"}

SlaTyped ==
    /\ now \in Nat \ {0} /\ target \in Targets /\ untimed \in BOOLEAN
    /\ messages \in Seq(ThreadMessage) /\ cycles \in Seq(Cycle)
\* Messages are written one after another.
InTurn ==
    /\ \A i \in DOMAIN messages : messages[i].at <= now
    /\ \A i, j \in DOMAIN messages : i < j => messages[i].at < messages[j].at
\* A cycle begins with a buyer's message and ends with a seller's; only the last is open.
CyclesOfThread ==
    /\ \A i \in DOMAIN cycles : \E j \in Buyers : cycles[i].start = messages[j].at
    /\ \A i \in Closed : \E j \in Sellers : cycles[i].end = messages[j].at
    /\ Open \subseteq {Len(cycles)}
\* As long as every message was timed, the last cycle is that of the last wait, and it is
\* open if the buyer wrote last.
WaitIsTimed ==
    ~untimed =>
        IF Buyers = {} THEN cycles = <<>>
        ELSE /\ cycles # <<>> /\ cycles[Len(cycles)].start = messages[Asked].at
             /\ Open # {} <=> messages[Len(messages)].from = "buyer"
SlaInv == SlaTyped /\ InTurn /\ CyclesOfThread /\ WaitIsTimed

LEMMA MaxIs ==
    ASSUME NEW S \in SUBSET Int, NEW m \in S, \A y \in S : y <= m
    PROVE  Max(S) = m
<1>1. \A y \in S : m >= y
  <2>1. \A y \in S : y \in Int /\ m \in Int /\ y <= m
    OBVIOUS
  <2> QED
    BY <2>1
<1>2. Max(S) \in S /\ \A y \in S : Max(S) >= y
  BY <1>1 DEF Max
<1>3. Max(S) \in Int /\ m \in Int /\ Max(S) >= m /\ Max(S) <= m
  BY <1>2
<1> QED
  BY <1>3

LEMMA LeastOf ==
    ASSUME NEW S \in SUBSET Nat, S # {}
    PROVE  Min(S) \in S /\ \A y \in S : Min(S) <= y
<1>1. \E x \in S : \A y \in S : x <= y
  BY LeastElement
<1> QED
  BY <1>1 DEF Min

\* The last wait: no buyer's message follows a seller's that follows it.
LEMMA AskedIs ==
    ASSUME messages \in Seq(ThreadMessage), Buyers # {}
    PROVE  /\ Asked \in Waits /\ Asked \in Buyers /\ \A w \in Waits : w <= Asked
           /\ \A i \in Buyers, j \in Sellers : j > Asked => i < j
<1> DEFINE n == Len(messages)
<1>1. /\ DOMAIN messages = 1 .. n /\ n \in Nat
      /\ \A i \in 1 .. n : messages[i].from \in {"buyer", "seller"}
  <2>1. DOMAIN messages = 1 .. n /\ n \in Nat /\ \A i \in 1 .. n : messages[i] \in ThreadMessage
    OBVIOUS
  <2> HIDE DEF n
  <2> QED
    BY <2>1 DEF ThreadMessage
<1>2. ASSUME NEW T \in SUBSET Buyers, T # {} PROVE \E x \in T : \A y \in T : x <= y
  <2>1. T \in SUBSET Nat
    BY <1>1 DEF Buyers
  <2> QED
    BY <1>2, <2>1, LeastElement
<1>3. Waits # {}
  <2>1. PICK x \in Buyers : \A y \in Buyers : x <= y
    BY <1>2
  <2>2. x \in 1 .. n
    BY <1>1 DEF Buyers
  <2>3. ASSUME x # 1 PROVE messages[x - 1].from = "seller"
    <3>1. x - 1 \in 1 .. n /\ ~(x <= x - 1)
      BY <1>1, <2>2, <2>3
    <3>2. x - 1 \notin Buyers
      BY <2>1, <3>1
    <3> QED
      BY <1>1, <3>1, <3>2 DEF Buyers
  <2>4. x \in Waits
    BY <2>1, <2>3 DEF Waits
  <2> QED
    BY <2>4
<1>4. Asked \in Waits /\ \A w \in Waits : w <= Asked
  <2>1. Waits \in SUBSET Nat /\ \A y \in Waits : y <= n
    BY <1>1 DEF Waits, Buyers
  <2>2. \E x \in Waits : \A y \in Waits : y <= x
    BY <1>1, <1>3, <2>1, GreatestElement
  <2>3. PICK x \in Waits : \A y \in Waits : y <= x
    BY <2>2
  <2>4. Max(Waits) = x
    BY <2>1, <2>3, MaxIs
  <2> QED
    BY <2>3, <2>4 DEF Asked
<1>5. Asked \in Buyers
  BY <1>4 DEF Waits
<1>6. ASSUME NEW i \in Buyers, NEW j \in Sellers, j > Asked, ~(i < j) PROVE FALSE
  <2>1. i \in 1 .. n /\ j \in 1 .. n /\ Asked \in 1 .. n
    BY <1>1, <1>5 DEF Buyers, Sellers
  <2> DEFINE T == {k \in Buyers : k > j}
  <2>2. i # j
    BY DEF Buyers, Sellers
  <2>3. i \in T
    BY <1>6, <2>1, <2>2
  <2>4. PICK x \in T : \A y \in T : x <= y
    BY <1>2, <2>3
  <2>5. x \in 1 .. n /\ x > j /\ x - 1 \in 1 .. n /\ x - 1 >= j
    BY <1>1, <2>1, <2>4 DEF Buyers
  <2>6. messages[x - 1].from = "seller"
    <3>1. CASE x - 1 = j
      BY <3>1 DEF Sellers
    <3>2. CASE x - 1 # j
      <4>1. x - 1 > j /\ ~(x <= x - 1)
        BY <2>1, <2>5, <3>2
      <4>2. x - 1 \notin Buyers
        BY <2>4, <4>1
      <4> QED
        BY <1>1, <2>5, <4>2 DEF Buyers
    <3> QED
      BY <3>1, <3>2
  <2>7. x \in Waits
    BY <2>4, <2>6 DEF Waits
  <2>8. x <= Asked
    BY <1>4, <2>7
  <2> QED
    BY <1>6, <2>1, <2>5, <2>8
<1> QED
  BY <1>4, <1>5, <1>6

\* What a message more changes.
LEMMA OneMore ==
    ASSUME messages \in Seq(ThreadMessage), NEW m \in ThreadMessage, messages' = Append(messages, m)
    PROVE  LET n == Len(messages)
           IN  /\ messages' \in Seq(ThreadMessage) /\ Len(messages') = n + 1
               /\ DOMAIN messages = 1 .. n /\ DOMAIN messages' = 1 .. n + 1 /\ n \in Nat
               /\ \A i \in 1 .. n : messages'[i] = messages[i] /\ i # n + 1
               /\ messages'[n + 1] = m
               /\ Buyers' = IF m.from = "buyer" THEN Buyers \cup {n + 1} ELSE Buyers
               /\ Sellers' = IF m.from = "seller" THEN Sellers \cup {n + 1} ELSE Sellers
               /\ Waits' = IF m.from = "buyer" /\ (n = 0 \/ messages[n].from = "seller")
                           THEN Waits \cup {n + 1} ELSE Waits
<1> DEFINE n == Len(messages)
<1>1. /\ messages' \in Seq(ThreadMessage) /\ Len(messages') = n + 1
      /\ DOMAIN messages = 1 .. n /\ DOMAIN messages' = 1 .. n + 1 /\ n \in Nat
      /\ \A i \in 1 .. n : messages'[i] = messages[i]
      /\ messages'[n + 1] = m
  OBVIOUS
<1> HIDE DEF n
<1>2. \A i : i \in 1 .. n + 1 <=> i \in 1 .. n \/ i = n + 1
  BY <1>1
<1>3. \A i \in 1 .. n : i # n + 1
  BY <1>1
<1>4. Buyers' = IF m.from = "buyer" THEN Buyers \cup {n + 1} ELSE Buyers
  BY <1>1, <1>2, <1>3 DEF Buyers
<1>5. Sellers' = IF m.from = "seller" THEN Sellers \cup {n + 1} ELSE Sellers
  BY <1>1, <1>2, <1>3 DEF Sellers
<1>6. Waits' = IF m.from = "buyer" /\ (n = 0 \/ messages[n].from = "seller")
               THEN Waits \cup {n + 1} ELSE Waits
  <2>1. Waits' = {i \in Buyers' : i = 1 \/ messages'[i - 1].from = "seller"}
    BY DEF Waits
  <2>2. ASSUME NEW i \in Buyers
        PROVE  i \in 1 .. n /\ (i # 1 => messages'[i - 1] = messages[i - 1])
    <3>1. i \in 1 .. n
      BY <1>1 DEF Buyers
    <3>2. i # 1 => i - 1 \in 1 .. n
      BY <1>1, <3>1
    <3> QED
      BY <1>1, <3>1, <3>2
  <2>3. \A i \in Buyers : i \in Waits <=> i = 1 \/ messages'[i - 1].from = "seller"
    BY <2>2 DEF Waits
  <2>4. Waits \subseteq Buyers
    BY DEF Waits
  <2>5. n + 1 = 1 \/ messages'[(n + 1) - 1].from = "seller" <=> n = 0 \/ messages[n].from = "seller"
    <3>1. (n + 1) - 1 = n /\ (n + 1 = 1 <=> n = 0)
      BY <1>1
    <3>2. n # 0 => n \in 1 .. n
      BY <1>1
    <3> QED
      BY <1>1, <3>1, <3>2
  <2>6. n + 1 \notin Buyers
    BY <2>2, <1>3
  <2> QED
    BY <1>4, <2>1, <2>3, <2>4, <2>5, <2>6
<1> QED
  BY <1>1, <1>3, <1>4, <1>5, <1>6 DEF n

LEMMA SlaBegins == SlaInit => SlaInv
<1> SUFFICES ASSUME SlaInit PROVE SlaInv
  OBVIOUS
<1>1. Min(Targets) \in Targets
  BY SlaTimeAssumption, LeastOf
<1>2. SlaTyped
  <2>1. messages \in Seq(ThreadMessage) /\ cycles \in Seq(Cycle)
    <3>1. \A S : <<>> \in Seq(S)
      OBVIOUS
    <3>2. messages = <<>> /\ cycles = <<>>
      BY DEF SlaInit
    <3> QED
      BY <3>1, <3>2
  <2>2. now \in Nat \ {0} /\ target \in Targets
    BY <1>1 DEF SlaInit
  <2>3. untimed \in BOOLEAN
    BY DEF SlaInit
  <2> QED
    BY <2>1, <2>2, <2>3 DEF SlaTyped
<1>3. messages = <<>> /\ cycles = <<>> /\ DOMAIN messages = {} /\ DOMAIN cycles = {}
  BY DEF SlaInit
<1>4. Buyers = {} /\ Open = {} /\ Closed = {}
  BY <1>3 DEF Buyers, Open, Closed
<1> QED
  BY <1>2, <1>3, <1>4 DEF SlaInv, InTurn, CyclesOfThread, WaitIsTimed

\* A new message is the latest.
LEMMA InTurnKept ==
    ASSUME SlaInv, NEW from \in {"buyer", "seller"}, \A i \in DOMAIN messages : messages[i].at < now,
           messages' = Append(messages, [from |-> from, at |-> now]), now' = now
    PROVE  InTurn'
<1> DEFINE n == Len(messages)
<1>1. messages \in Seq(ThreadMessage) /\ now \in Nat /\ [from |-> from, at |-> now] \in ThreadMessage
  BY DEF SlaInv, SlaTyped, ThreadMessage
<1>2. /\ DOMAIN messages = 1 .. n /\ DOMAIN messages' = 1 .. n + 1 /\ n \in Nat
      /\ \A i \in 1 .. n : messages'[i] = messages[i]
      /\ messages'[n + 1].at = now
  BY <1>1, OneMore
<1> HIDE DEF n
<1>3. \A i \in 1 .. n + 1 : messages'[i].at <= now
  <2>1. \A i \in 1 .. n : messages'[i].at <= now
    BY <1>2 DEF SlaInv, InTurn
  <2>2. \A i \in 1 .. n + 1 : i \in 1 .. n \/ i = n + 1
    BY <1>2
  <2> QED
    BY <1>1, <1>2, <2>1, <2>2
<1>4. ASSUME NEW i \in 1 .. n + 1, NEW j \in 1 .. n + 1, i < j PROVE messages'[i].at < messages'[j].at
  <2>1. i \in 1 .. n
    BY <1>2, <1>4
  <2>2. CASE j = n + 1
    BY <1>2, <2>1, <2>2
  <2>3. CASE j # n + 1
    <3>1. j \in 1 .. n
      BY <1>2, <2>3
    <3> QED
      BY <1>2, <1>4, <2>1, <3>1 DEF SlaInv, InTurn
  <2> QED
    BY <2>2, <2>3
<1> QED
  BY <1>2, <1>3, <1>4 DEF InTurn

\* The cycles that stay are of messages that stay.
LEMMA CyclesKept ==
    ASSUME SlaInv, cycles' = cycles, Buyers \subseteq Buyers', Sellers \subseteq Sellers',
           \A i \in Buyers \cup Sellers : messages'[i] = messages[i]
    PROVE  CyclesOfThread'
<1>1. Open' = Open /\ Closed' = Closed
  BY DEF Open, Closed
<1>2. /\ \A i \in DOMAIN cycles : \E j \in Buyers : cycles[i].start = messages[j].at
      /\ \A i \in Closed : \E j \in Sellers : cycles[i].end = messages[j].at
      /\ Open \subseteq {Len(cycles)}
  BY DEF SlaInv, CyclesOfThread
<1>3. \A i \in DOMAIN cycles : \E j \in Buyers' : cycles[i].start = messages'[j].at
  BY <1>2
<1>4. \A i \in Closed : \E j \in Sellers' : cycles[i].end = messages'[j].at
  BY <1>2
<1> QED
  BY <1>1, <1>2, <1>3, <1>4 DEF CyclesOfThread

\* The wait that the thread is in is a new one or stays.
LEMMA AskedStays ==
    ASSUME Waits' = Waits
    PROVE  Asked' = Asked
BY DEF Asked

LEMMA AskedAnew ==
    ASSUME messages \in Seq(ThreadMessage), NEW n \in Nat, DOMAIN messages = 1 .. n, Waits' = Waits \cup {n + 1}
    PROVE  Asked' = n + 1
<1> DEFINE W == Waits \cup {n + 1}
<1>1. Waits \subseteq 1 .. n
  BY DEF Waits, Buyers
<1>2. W \in SUBSET Int /\ n + 1 \in W /\ \A y \in W : y <= n + 1
  BY <1>1
<1> HIDE DEF W
<1>3. Max(W) = n + 1
  BY <1>2, MaxIs
<1> QED
  BY <1>3 DEF Asked, W

\* If the buyer wrote last, there is no answer yet, and the other way round.
LEMMA LastWord ==
    ASSUME messages \in Seq(ThreadMessage), Buyers # {}
    PROVE  /\ Len(messages) \in DOMAIN messages
           /\ messages[Len(messages)].from = "seller" <=> Answers # {}
           /\ messages[Len(messages)].from # "buyer" <=> Answers # {}
<1> DEFINE n == Len(messages)
<1>1. /\ DOMAIN messages = 1 .. n /\ n \in Nat
      /\ \A i \in 1 .. n : messages[i].from \in {"buyer", "seller"}
  <2>1. DOMAIN messages = 1 .. n /\ n \in Nat /\ \A i \in 1 .. n : messages[i] \in ThreadMessage
    OBVIOUS
  <2> HIDE DEF n
  <2> QED
    BY <2>1 DEF ThreadMessage
<1>2. /\ Asked \in Buyers
      /\ \A i \in Buyers, j \in Sellers : j > Asked => i < j
  BY AskedIs
<1>3. Answers = {j \in Sellers : j > Asked}
  BY DEF Answers, Sellers
<1>4. Asked \in 1 .. n /\ messages[Asked].from = "buyer"
  BY <1>1, <1>2 DEF Buyers
<1>5. n \in 1 .. n /\ n >= Asked
  BY <1>1, <1>4
<1>6. ASSUME messages[n].from = "seller" PROVE n \in Answers
  <2>1. n # Asked
    BY <1>4, <1>6
  <2> HIDE DEF n
  <2>2. n > Asked
    BY <1>1, <1>4, <1>5, <2>1
  <2> QED
    BY <1>1, <1>3, <1>5, <1>6, <2>2 DEF Sellers
<1>7. ASSUME messages[n].from # "seller", NEW j \in Answers PROVE FALSE
  <2>1. n \in Buyers
    BY <1>1, <1>5, <1>7 DEF Buyers
  <2>2. j \in Sellers /\ j > Asked /\ j \in 1 .. n
    BY <1>1, <1>3 DEF Sellers
  <2>3. n < j
    BY <1>2, <2>1, <2>2
  <2> QED
    BY <1>1, <2>2, <2>3
<1> HIDE DEF n
<1>8. n \in DOMAIN messages /\ messages[n].from \in {"buyer", "seller"}
  BY <1>1, <1>5
<1> QED
  BY <1>6, <1>7, <1>8 DEF n

LEMMA BuyerKeeps == ASSUME SlaInv, NEW how, BuyerWrites(how) PROVE SlaInv'
<1> DEFINE n == Len(messages)
           m == [from |-> "buyer", at |-> now]
           k == Len(cycles)
           opened == [start |-> now, end |-> 0, seconds |-> 0, met |-> FALSE]
<1>1. /\ messages \in Seq(ThreadMessage) /\ cycles \in Seq(Cycle) /\ now \in Nat \ {0}
      /\ m \in ThreadMessage /\ messages' = Append(messages, m) /\ opened \in Cycle
      /\ now' = now /\ target' = target
  BY DEF SlaInv, SlaTyped, ThreadMessage, Cycle, BuyerWrites
<1>2. /\ messages' \in Seq(ThreadMessage) /\ Len(messages') = n + 1
      /\ DOMAIN messages = 1 .. n /\ DOMAIN messages' = 1 .. n + 1 /\ n \in Nat
      /\ \A i \in 1 .. n : messages'[i] = messages[i] /\ i # n + 1
      /\ messages'[n + 1] = m
      /\ Buyers' = Buyers \cup {n + 1} /\ Sellers' = Sellers
      /\ Waits' = IF n = 0 \/ messages[n].from = "seller" THEN Waits \cup {n + 1} ELSE Waits
  <2>1. m.from = "buyer" /\ m.from # "seller"
    OBVIOUS
  <2> HIDE DEF m
  <2> QED
    BY <1>1, <2>1, OneMore
<1>3. \A i \in Buyers \cup Sellers : i \in 1 .. n /\ messages'[i] = messages[i]
  BY <1>2 DEF Buyers, Sellers
<1>4. InTurn'
  BY <1>1, InTurnKept DEF BuyerWrites
<1> HIDE DEF n, m
<1>5. CASE cycles' = cycles
  <2>1. CyclesOfThread'
    BY <1>2, <1>3, <1>5, CyclesKept
  <2>2. SlaTyped'
    BY <1>1, <1>2, <1>5 DEF SlaInv, SlaTyped, BuyerWrites
  <2>3. WaitIsTimed'
    <3> SUFFICES ASSUME ~untimed' PROVE /\ cycles # <<>> /\ cycles[Len(cycles)].start = messages'[Asked'].at
                                        /\ Open # {} /\ messages'[n + 1].from = "buyer"
      <4>1. Buyers' # {} /\ Open' = Open
        BY <1>2, <1>5 DEF Open
      <4> QED
        BY <1>2, <1>5, <4>1 DEF WaitIsTimed
    <3>1. ~untimed /\ Open # {}
      <4>1. Append(cycles, opened) # cycles
        BY <1>1
      <4> QED
        BY <1>5, <4>1 DEF BuyerWrites
    <3>2. Buyers # {}
      <4>1. cycles # <<>>
        BY <3>1 DEF Open
      <4> QED
        BY <3>1, <4>1 DEF SlaInv, WaitIsTimed
    <3>3. /\ cycles # <<>> /\ cycles[Len(cycles)].start = messages[Asked].at
          /\ messages[Len(messages)].from = "buyer"
      BY <3>1, <3>2 DEF SlaInv, WaitIsTimed
    <3>4. n # 0 /\ messages[n].from # "seller"
      <4>1. n \in DOMAIN messages
        BY <1>1, <3>2, LastWord DEF n
      <4> QED
        BY <1>2, <3>3, <4>1 DEF n
    <3>5. Asked' = Asked
      BY <1>2, <3>4, AskedStays
    <3>6. Asked \in Buyers
      BY <1>1, <3>2, AskedIs
    <3> QED
      BY <1>2, <1>3, <3>1, <3>3, <3>5, <3>6 DEF m
  <2> QED
    BY <1>4, <2>1, <2>2, <2>3 DEF SlaInv
<1>6. CASE cycles' = Append(cycles, opened) /\ Open = {} /\ untimed' = untimed
  <2>1. /\ cycles' \in Seq(Cycle) /\ Len(cycles') = k + 1 /\ k \in Nat
        /\ DOMAIN cycles = 1 .. k /\ DOMAIN cycles' = 1 .. k + 1
        /\ \A i \in 1 .. k : cycles'[i] = cycles[i] /\ i # k + 1
        /\ cycles'[k + 1] = opened
    <3> HIDE DEF opened
    <3> QED
      BY <1>1, <1>6
  <2>2. \A i : i \in 1 .. k + 1 <=> i \in 1 .. k \/ i = k + 1
    BY <2>1
  <2>3. Open' = {k + 1} /\ Closed' = Closed
    <3>1. opened.end = 0
      OBVIOUS
    <3> HIDE DEF opened
    <3>2. Open' = {k + 1}
      BY <1>6, <2>1, <2>2, <3>1 DEF Open
    <3>3. Closed' = Closed
      BY <2>1, <2>2, <3>1 DEF Closed
    <3> QED
      BY <3>2, <3>3
  <2>4. SlaTyped'
    BY <1>1, <1>2, <1>6, <2>1 DEF SlaInv, SlaTyped
  <2>5. CyclesOfThread'
    <3>1. \A i \in DOMAIN cycles' : \E j \in Buyers' : cycles'[i].start = messages'[j].at
      <4>1. \A i \in 1 .. k : \E j \in Buyers : cycles[i].start = messages[j].at
        BY <2>1 DEF SlaInv, CyclesOfThread
      <4>2. \A i \in 1 .. k : \E j \in Buyers' : cycles'[i].start = messages'[j].at
        BY <1>2, <1>3, <2>1, <4>1
      <4>3. cycles'[k + 1].start = messages'[n + 1].at /\ n + 1 \in Buyers'
        BY <1>2, <2>1 DEF m
      <4> QED
        BY <2>1, <2>2, <4>2, <4>3
    <3>2. \A i \in Closed' : \E j \in Sellers' : cycles'[i].end = messages'[j].at
      <4>1. \A i \in Closed : i \in 1 .. k /\ \E j \in Sellers : cycles[i].end = messages[j].at
        BY <2>1 DEF SlaInv, CyclesOfThread, Closed
      <4> QED
        BY <1>2, <1>3, <2>1, <2>3, <4>1
    <3> QED
      BY <2>1, <2>3, <3>1, <3>2 DEF CyclesOfThread
  <2>6. WaitIsTimed'
    <3> SUFFICES ASSUME ~untimed PROVE cycles'[k + 1].start = messages'[Asked'].at
      <4>1. cycles' # <<>> /\ messages'[n + 1].from = "buyer" /\ Open' # {}
        BY <1>2, <2>1, <2>3 DEF m
      <4> QED
        BY <1>2, <1>6, <2>1, <4>1 DEF WaitIsTimed
    <3>1. n = 0 \/ messages[n].from = "seller"
      <4>1. CASE Buyers = {}
        <5>1. n # 0 => n \in 1 .. n /\ messages[n] \in ThreadMessage
          BY <1>1, <1>2
        <5>2. n # 0 => messages[n].from # "buyer"
          BY <1>2, <4>1, <5>1 DEF Buyers
        <5> QED
          BY <5>1, <5>2 DEF ThreadMessage
      <4>2. CASE Buyers # {}
        <5>1. messages[Len(messages)].from # "buyer"
          BY <1>6, <4>2 DEF SlaInv, WaitIsTimed
        <5> QED
          BY <1>1, <4>2, <5>1, LastWord DEF n
      <4> QED
        BY <4>1, <4>2
    <3>2. Asked' = n + 1
      BY <1>1, <1>2, <3>1, AskedAnew
    <3> QED
      BY <1>2, <2>1, <3>2 DEF m
  <2> QED
    BY <1>4, <2>4, <2>5, <2>6 DEF SlaInv
<1> QED
  BY <1>5, <1>6 DEF BuyerWrites

LEMMA SellerKeeps == ASSUME SlaInv, SellerReplies PROVE SlaInv'
<1> DEFINE n == Len(messages)
           m == [from |-> "seller", at |-> now]
           k == Len(cycles)
<1>1. /\ messages \in Seq(ThreadMessage) /\ cycles \in Seq(Cycle) /\ now \in Nat \ {0} /\ untimed \in BOOLEAN
      /\ m \in ThreadMessage /\ messages' = Append(messages, m)
      /\ now' = now /\ target' = target /\ target \in Nat
  BY SlaTimeAssumption DEF SlaInv, SlaTyped, ThreadMessage, Cycle, SellerReplies
<1>2. /\ messages' \in Seq(ThreadMessage) /\ Len(messages') = n + 1
      /\ DOMAIN messages = 1 .. n /\ DOMAIN messages' = 1 .. n + 1 /\ n \in Nat
      /\ \A i \in 1 .. n : messages'[i] = messages[i] /\ i # n + 1
      /\ messages'[n + 1] = m
      /\ Buyers' = Buyers /\ Sellers' = Sellers \cup {n + 1}
      /\ Waits' = Waits
  <2>1. m.from # "buyer" /\ m.from = "seller"
    OBVIOUS
  <2> HIDE DEF m
  <2> QED
    BY <1>1, <2>1, OneMore
<1>3. \A i \in Buyers \cup Sellers : i \in 1 .. n /\ messages'[i] = messages[i]
  BY <1>2 DEF Buyers, Sellers
<1>4. InTurn'
  BY <1>1, InTurnKept DEF SellerReplies
<1>5. Asked' = Asked /\ messages'[n + 1].from = "seller" /\ messages'[n + 1].at = now
  BY <1>2, AskedStays
<1>6. Buyers # {} => Asked \in Buyers /\ messages'[Asked] = messages[Asked]
  BY <1>1, <1>3, AskedIs
<1>7. CASE state = "CLOSED" \/ Open = {}
  <2>1. untimed' = (untimed \/ Open # {}) /\ cycles' = cycles
    BY <1>7 DEF SellerReplies
  <2>2. CyclesOfThread'
    BY <1>2, <1>3, <2>1, CyclesKept
  <2>3. SlaTyped'
    BY <1>1, <1>2, <2>1 DEF SlaInv, SlaTyped
  <2>4. WaitIsTimed'
    <3> SUFFICES ASSUME ~untimed', Buyers # {}, cycles # <<>>, cycles[Len(cycles)].start = messages[Asked].at
                 PROVE  Open = {}
      <4>1. Open' = Open
        BY <2>1 DEF Open
      <4> QED
        BY <1>2, <1>5, <1>6, <2>1, <4>1 DEF SlaInv, WaitIsTimed
    <3> QED
      BY <2>1
  <2> QED
    BY <1>4, <2>2, <2>3, <2>4 DEF SlaInv
<1>8. CASE ~(state = "CLOSED" \/ Open = {})
  <2>1. untimed' = untimed /\ cycles' = [cycles EXCEPT ![Max(Open)] = Answered(@)]
    BY <1>8 DEF SellerReplies
  <2>2. Open = {k} /\ k \in DOMAIN cycles /\ DOMAIN cycles = 1 .. k /\ k \in Nat
    BY <1>1, <1>8 DEF SlaInv, CyclesOfThread, Open
  <2>3. Max(Open) = k
    <3>1. {k} \in SUBSET Int /\ k \in {k} /\ \A y \in {k} : y <= k
      BY <2>2
    <3> QED
      BY <2>2, <3>1, MaxIs
  <2> HIDE DEF k
  <2>4. cycles[k] \in Cycle
    BY <1>1, <2>2
  <2>5. /\ Answered(cycles[k]) \in Cycle
        /\ Answered(cycles[k]).start = cycles[k].start /\ Answered(cycles[k]).end = now
    <3>1. cycles[k].start \in Nat \ {0}
      BY <2>4 DEF Cycle
    <3>2. BusinessBetween(cycles[k].start, now) \in Nat
      BY <1>1, <3>1, BusinessIs, WorkedTyped
    <3> QED
      BY <1>1, <3>1, <3>2 DEF Answered, Cycle
  <2>6. /\ cycles' \in Seq(Cycle) /\ DOMAIN cycles' = 1 .. k /\ Len(cycles') = k
        /\ cycles'[k] = Answered(cycles[k]) /\ \A i \in 1 .. k : i # k => cycles'[i] = cycles[i]
    <3>1. cycles' = [cycles EXCEPT ![k] = Answered(cycles[k])]
      BY <2>1, <2>3
    <3>2. cycles' \in Seq(Cycle) /\ DOMAIN cycles' = DOMAIN cycles /\ Len(cycles') = Len(cycles)
      BY <1>1, <2>2, <2>5, <3>1
    <3> QED
      BY <2>2, <3>1, <3>2 DEF k
  <2>7. Open' = {} /\ Closed' = Closed \cup {k}
    <3>1. \A i \in 1 .. k : i # k => i \notin Open
      BY <2>2
    <3>2. Open' = {}
      BY <1>1, <2>2, <2>5, <2>6, <3>1 DEF Open
    <3>3. Closed' = Closed \cup {k}
      BY <1>1, <2>2, <2>5, <2>6 DEF Closed
    <3> QED
      BY <3>2, <3>3
  <2>8. SlaTyped'
    BY <1>1, <1>2, <2>1, <2>6 DEF SlaInv, SlaTyped
  <2>9. CyclesOfThread'
    <3>1. \A i \in DOMAIN cycles' : \E j \in Buyers' : cycles'[i].start = messages'[j].at
      <4>1. \A i \in 1 .. k : \E j \in Buyers : cycles[i].start = messages[j].at
        BY <2>2 DEF SlaInv, CyclesOfThread
      <4>2. \A i \in 1 .. k : cycles'[i].start = cycles[i].start
        BY <2>5, <2>6
      <4> QED
        BY <1>2, <1>3, <2>6, <4>1, <4>2
    <3>2. \A i \in Closed' : \E j \in Sellers' : cycles'[i].end = messages'[j].at
      <4>1. \A i \in Closed : i \in 1 .. k /\ \E j \in Sellers : cycles[i].end = messages[j].at
        BY <2>2 DEF SlaInv, CyclesOfThread, Closed
      <4>2. \A i \in Closed : i # k
        BY <2>2 DEF Open, Closed
      <4>3. cycles'[k].end = messages'[n + 1].at /\ n + 1 \in Sellers'
        BY <1>2, <1>5, <2>5, <2>6
      <4> QED
        BY <1>2, <1>3, <2>6, <2>7, <4>1, <4>2, <4>3
    <3> QED
      BY <2>7, <3>1, <3>2 DEF CyclesOfThread
  <2>10. WaitIsTimed'
    <3> SUFFICES ASSUME ~untimed PROVE Buyers # {} /\ cycles # <<>> /\ cycles[k].start = messages[Asked].at
      <4>1. cycles' # <<>> /\ k \in 1 .. k
        BY <2>2, <2>6
      <4> QED
        BY <1>2, <1>5, <1>6, <2>1, <2>5, <2>6, <2>7, <4>1 DEF WaitIsTimed
    <3>1. cycles # <<>>
      BY <2>2
    <3> QED
      BY <3>1 DEF SlaInv, WaitIsTimed, k
  <2> QED
    BY <1>4, <2>8, <2>9, <2>10 DEF SlaInv
<1> QED
  BY <1>7, <1>8

LEMMA SlaStep == SlaInv /\ [SlaNext]_slaVars => SlaInv'
<1> SUFFICES ASSUME SlaInv, [SlaNext]_slaVars PROVE SlaInv'
  OBVIOUS
<1>1. ASSUME NEW how, BuyerWrites(how) PROVE SlaInv'
  BY <1>1, BuyerKeeps
<1>2. CASE SellerReplies
  BY <1>2, SellerKeeps
<1>3. ASSUME messages' = messages, cycles' = cycles, untimed' = untimed, target' \in Targets,
             now' \in Nat, now' >= now
      PROVE  SlaInv'
  <2>1. /\ Buyers' = Buyers /\ Sellers' = Sellers /\ Waits' = Waits /\ Asked' = Asked
        /\ Open' = Open /\ Closed' = Closed
    BY <1>3 DEF Buyers, Sellers, Waits, Asked, Open, Closed
  <2>2. SlaTyped'
    BY <1>3 DEF SlaInv, SlaTyped
  <2>3. InTurn'
    <3>1. \A i \in DOMAIN messages : messages[i].at <= now /\ messages[i].at \in Nat /\ now \in Nat
      <4>1. messages \in Seq(ThreadMessage) /\ now \in Nat /\ \A i \in DOMAIN messages : messages[i].at <= now
        BY DEF SlaInv, InTurn, SlaTyped
      <4>2. \A i \in DOMAIN messages : messages[i] \in ThreadMessage
        BY <4>1
      <4> QED
        BY <4>1, <4>2 DEF ThreadMessage
    <3>2. \A i \in DOMAIN messages : messages[i].at <= now'
      BY <3>1, <1>3
    <3> QED
      BY <1>3, <3>2 DEF SlaInv, InTurn
  <2>4. CyclesOfThread' /\ WaitIsTimed'
    BY <1>3, <2>1 DEF SlaInv, CyclesOfThread, WaitIsTimed
  <2> QED
    BY <2>2, <2>3, <2>4 DEF SlaInv
<1>4. now \in Nat /\ target \in Targets
  BY DEF SlaInv, SlaTyped
<1>5. CASE UnitPasses
  BY <1>3, <1>4, <1>5 DEF UnitPasses
<1>6. ASSUME NEW s, UpdateState(s) PROVE SlaInv'
  BY <1>3, <1>4, <1>6 DEF UpdateState
<1>7. ASSUME NEW seconds \in Targets, UpdateCategory(seconds) PROVE SlaInv'
  BY <1>3, <1>4, <1>7 DEF UpdateCategory
<1>8. CASE UNCHANGED slaVars
  BY <1>3, <1>4, <1>8 DEF slaVars
<1> QED
  BY <1>1, <1>2, <1>5, <1>6, <1>7, <1>8 DEF SlaNext

\* The last wait's first message and its answer.
LEMMA PairIs ==
    ASSUME SlaInv
    PROVE  /\ Pair[1] # None <=> Buyers # {}
           /\ Pair[1] # None => /\ Pair[1] = messages[Asked] /\ Pair[1].at \in Nat \ {0}
           /\ Pair[2] # None <=> Buyers # {} /\ Answers # {}
           /\ Pair[2] = None => Pair[2].at = 0
           /\ Pair[2] # None => /\ Pair[2].at \in Nat \ {0}
                                /\ \A i \in Buyers : messages[i].at < Pair[2].at
           /\ Pair[1] # None /\ Pair[2] = None => \A j \in Sellers : messages[j].at < Pair[1].at
<1>1. /\ messages \in Seq(ThreadMessage)
      /\ \A i, j \in DOMAIN messages : i < j => messages[i].at < messages[j].at
  BY DEF SlaInv, SlaTyped, InTurn
<1>2. \A i \in DOMAIN messages : messages[i].at \in Nat \ {0} /\ i \in Nat
  <2>1. \A i \in DOMAIN messages : messages[i] \in ThreadMessage /\ i \in Nat
    BY <1>1
  <2> QED
    BY <2>1 DEF ThreadMessage
<1>3. None.at = 0 /\ \A i \in DOMAIN messages : messages[i] # None
  <2>1. None.at = 0
    BY DEF None
  <2> HIDE DEF None
  <2> QED
    BY <1>2, <2>1
<1>4. CASE Buyers = {}
  <2>1. Pair[1] = None /\ Pair[2] = None
    BY <1>4 DEF Pair
  <2> QED
    BY <1>3, <1>4, <2>1
<1>5. CASE Buyers # {}
  <2>1. /\ Asked \in Buyers /\ Asked \in DOMAIN messages
        /\ \A i \in Buyers, j \in Sellers : j > Asked => i < j
    BY <1>1, <1>5, AskedIs DEF Buyers
  <2>2. Pair[1] = messages[Asked]
    BY <1>5 DEF Pair
  <2>3. Answers = {j \in Sellers : j > Asked} /\ Sellers \subseteq DOMAIN messages /\ Buyers \subseteq DOMAIN messages
    BY DEF Answers, Sellers, Buyers
  <2>4. CASE Answers = {}
    <3>1. Pair[2] = None
      BY <1>5, <2>4 DEF Pair
    <3>2. ASSUME NEW j \in Sellers PROVE messages[j].at < messages[Asked].at
      <4>1. ~(j > Asked) /\ j \in DOMAIN messages
        BY <2>3, <2>4
      <4>2. j # Asked
        BY <2>1 DEF Sellers, Buyers
      <4>3. j < Asked
        BY <1>2, <2>1, <4>1, <4>2
      <4> QED
        BY <1>1, <2>1, <4>1, <4>3
    <3> QED
      BY <1>2, <1>3, <1>5, <2>1, <2>2, <2>4, <3>1, <3>2
  <2>5. CASE Answers # {}
    <3> DEFINE a == Min(Answers)
    <3>1. a \in Answers
      <4>1. Answers \in SUBSET Nat
        BY <1>2, <2>3
      <4> QED
        BY <2>5, <4>1, LeastOf
    <3>2. Pair[2] = messages[a]
      BY <1>5, <2>5 DEF Pair
    <3> HIDE DEF a
    <3>3. a \in Sellers /\ a > Asked /\ a \in DOMAIN messages
      BY <2>3, <3>1
    <3>4. \A i \in Buyers : messages[i].at < messages[a].at
      BY <1>1, <2>1, <2>3, <3>3
    <3> QED
      BY <1>2, <1>3, <1>5, <2>1, <2>2, <2>5, <3>2, <3>3, <3>4
  <2> QED
    BY <2>4, <2>5
<1> QED
  BY <1>4, <1>5

\* While the buyer waits the clock runs, from the start of the wait if all was timed; after
\* that the verdict of the last cycle stands.
LEMMA SnapshotIs ==
    ASSUME SlaInv
    PROVE  /\ Pair[1] # None /\ Pair[2] = None =>
                  \E s \in Nat \ {0} : Snapshot = Timed(s) /\ (~untimed => s = Pair[1].at)
           /\ ~(Pair[1] # None /\ Pair[2] = None) => Snapshot.shown \in {"MET", "BREACHED", "NONE"}
           /\ ~untimed /\ Closed # {} /\ ~(Pair[1] # None /\ Pair[2] = None) =>
                  Snapshot = [shown |-> IF LastClosed.met THEN "MET" ELSE "BREACHED",
                              seconds |-> LastClosed.seconds, since |-> 0]
<1> DEFINE b == Pair[1]
           r == Pair[2]
<1>1. /\ b # None <=> Buyers # {}
      /\ b # None => b = messages[Asked] /\ b.at \in Nat \ {0}
      /\ r # None <=> Buyers # {} /\ Answers # {}
      /\ r = None => r.at = 0
      /\ r # None => r.at \in Nat \ {0} /\ \A i \in Buyers : messages[i].at < r.at
      /\ b # None /\ r = None => \A j \in Sellers : messages[j].at < b.at
  BY PairIs
<1>2. /\ messages \in Seq(ThreadMessage) /\ cycles \in Seq(Cycle)
      /\ \A i \in DOMAIN cycles : cycles[i].start \in Nat \ {0} /\ cycles[i].end \in Nat
  <2>1. messages \in Seq(ThreadMessage) /\ cycles \in Seq(Cycle)
    BY DEF SlaInv, SlaTyped
  <2>2. \A i \in DOMAIN cycles : cycles[i] \in Cycle
    BY <2>1
  <2> QED
    BY <2>1, <2>2 DEF Cycle
<1>3. /\ \A i \in DOMAIN cycles : \E j \in Buyers : cycles[i].start = messages[j].at
      /\ \A i \in Closed : \E j \in Sellers : cycles[i].end = messages[j].at
      /\ Open \subseteq {Len(cycles)}
  BY DEF SlaInv, CyclesOfThread
<1>4. DOMAIN cycles = 1 .. Len(cycles) /\ Len(cycles) \in Nat
  BY <1>2
<1>5. \A x : /\ Verdict(x).shown \in {"MET", "BREACHED"}
             /\ Timed(x).shown \in {"OVERDUE", "PENDING"}
  BY DEF Verdict, Timed
<1>6. Closed = DOMAIN cycles \ Open
  BY DEF Closed, Open
<1>7. Snapshot =
         IF Open # {}
         THEN IF r.at > cycles[Max(Open)].start
              THEN Verdict(BusinessBetween(cycles[Max(Open)].start, r.at))
              ELSE Timed(cycles[Max(Open)].start)
         ELSE IF r # None /\ (Closed = {} \/ b.at > LastClosed.start)
         THEN Verdict(BusinessBetween(b.at, r.at))
         ELSE IF b # None /\ r = None /\ (Closed = {} \/ b.at > LastClosed.end)
         THEN Timed(b.at)
         ELSE IF Closed # {}
         THEN [shown |-> IF LastClosed.met THEN "MET" ELSE "BREACHED", seconds |-> LastClosed.seconds, since |-> 0]
         ELSE [shown |-> "NONE", seconds |-> 0, since |-> 0]
  BY DEF Snapshot
<1> HIDE DEF b, r
<1>8. ASSUME Open # {}
      PROVE  /\ b # None
             /\ IF r = None THEN \E s \in Nat \ {0} : Snapshot = Timed(s) /\ (~untimed => s = b.at)
                ELSE Snapshot.shown \in {"MET", "BREACHED"} /\ untimed
  <2> DEFINE k == Max(Open)
  <2>1. k = Len(cycles) /\ k \in DOMAIN cycles
    <3>1. Open = {Len(cycles)} /\ Len(cycles) \in DOMAIN cycles
      BY <1>3, <1>8 DEF Open
    <3>2. {Len(cycles)} \in SUBSET Int /\ \A y \in {Len(cycles)} : y <= Len(cycles)
      BY <1>4
    <3> QED
      BY <3>1, <3>2, MaxIs
  <2> HIDE DEF k
  <2>2. cycles[k].start \in Nat \ {0} /\ \E j \in Buyers : cycles[k].start = messages[j].at
    BY <1>2, <1>3, <2>1
  <2>3. b # None
    BY <1>1, <2>2
  <2>4. ASSUME ~untimed PROVE cycles[k].start = b.at /\ r = None
    <3>1. /\ cycles[Len(cycles)].start = messages[Asked].at
          /\ messages[Len(messages)].from = "buyer"
      BY <1>1, <1>8, <2>3, <2>4 DEF SlaInv, WaitIsTimed
    <3>2. Answers = {}
      BY <1>1, <1>2, <2>3, <3>1, LastWord
    <3> QED
      BY <1>1, <2>1, <2>3, <3>1, <3>2
  <2>5. CASE r = None
    <3>1. ~(r.at > cycles[k].start)
      BY <1>1, <2>2, <2>5
    <3>2. Snapshot = Timed(cycles[k].start)
      BY <1>7, <1>8, <3>1 DEF k
    <3> QED
      BY <2>2, <2>3, <2>4, <2>5, <3>2
  <2>6. CASE r # None
    <3>1. r.at > cycles[k].start
      <4>1. \A i \in Buyers : messages[i].at < r.at
        BY <1>1, <2>6
      <4>2. cycles[k].start < r.at
        BY <2>2, <4>1
      <4> QED
        BY <1>1, <2>2, <2>6, <4>2
    <3>2. Snapshot = Verdict(BusinessBetween(cycles[k].start, r.at))
      BY <1>7, <1>8, <3>1 DEF k
    <3>3. untimed
      BY <2>4, <2>6 DEF SlaInv, SlaTyped
    <3> QED
      BY <1>5, <2>3, <2>6, <3>2, <3>3
  <2> QED
    BY <2>3, <2>5, <2>6
<1>9. ASSUME Open = {}, Closed # {}
      PROVE  /\ LastClosed = cycles[Len(cycles)] /\ cycles # <<>>
             /\ LastClosed.start \in Nat \ {0} /\ LastClosed.end \in Nat
             /\ \E j \in Sellers : LastClosed.end = messages[j].at
  <2>1. Closed = 1 .. Len(cycles) /\ Len(cycles) \in Closed
    BY <1>4, <1>6, <1>9
  <2>2. Closed \in SUBSET Int /\ \A y \in Closed : y <= Len(cycles)
    BY <1>4, <2>1
  <2>3. Max(Closed) = Len(cycles)
    BY <2>1, <2>2, MaxIs
  <2> QED
    BY <1>2, <1>3, <1>4, <2>1, <2>3 DEF LastClosed
<1>10. ASSUME b # None, r = None, Open = {} PROVE Snapshot = Timed(b.at)
  <2>1. Closed = {} \/ b.at > LastClosed.end
    <3> SUFFICES ASSUME Closed # {} PROVE b.at > LastClosed.end
      OBVIOUS
    <3>1. LastClosed.end < b.at
      BY <1>1, <1>9, <1>10
    <3> QED
      BY <1>1, <1>9, <1>10, <3>1
  <2> QED
    BY <1>7, <1>10, <2>1
<1>11. b # None /\ r = None => \E s \in Nat \ {0} : Snapshot = Timed(s) /\ (~untimed => s = b.at)
  BY <1>1, <1>8, <1>10
<1>12. ~(b # None /\ r = None) => Snapshot.shown \in {"MET", "BREACHED", "NONE"}
  <2> SUFFICES ASSUME ~(b # None /\ r = None) PROVE Snapshot.shown \in {"MET", "BREACHED", "NONE"}
    OBVIOUS
  <2>1. CASE Open # {}
    BY <1>8, <2>1
  <2>2. CASE Open = {} /\ r # None /\ (Closed = {} \/ b.at > LastClosed.start)
    BY <1>5, <1>7, <2>2
  <2>3. CASE Open = {} /\ ~(r # None /\ (Closed = {} \/ b.at > LastClosed.start)) /\ Closed # {}
    <3>1. Snapshot.shown = IF LastClosed.met THEN "MET" ELSE "BREACHED"
      BY <1>7, <2>3
    <3> QED
      BY <3>1
  <2>4. CASE Open = {} /\ ~(r # None /\ (Closed = {} \/ b.at > LastClosed.start)) /\ Closed = {}
    BY <1>7, <2>4
  <2> QED
    BY <2>1, <2>2, <2>3, <2>4
<1>13. ~untimed /\ Closed # {} /\ ~(b # None /\ r = None) =>
          Snapshot = [shown |-> IF LastClosed.met THEN "MET" ELSE "BREACHED",
                      seconds |-> LastClosed.seconds, since |-> 0]
  <2> SUFFICES ASSUME ~untimed, Closed # {}, ~(b # None /\ r = None)
               PROVE  Snapshot = [shown |-> IF LastClosed.met THEN "MET" ELSE "BREACHED",
                                  seconds |-> LastClosed.seconds, since |-> 0]
    OBVIOUS
  <2>1. Open = {}
    BY <1>8
  <2>2. LastClosed = cycles[Len(cycles)] /\ cycles # <<>> /\ LastClosed.start \in Nat
    BY <1>9, <2>1
  <2>3. b # None
    BY <1>1, <2>2 DEF SlaInv, WaitIsTimed
  <2>4. LastClosed.start = b.at /\ b.at \in Nat
    BY <1>1, <2>2, <2>3 DEF SlaInv, WaitIsTimed
  <2>5. ~(b.at > LastClosed.start)
    BY <2>4
  <2> QED
    BY <1>7, <2>1, <2>3, <2>5
<1> QED
  BY <1>11, <1>12, <1>13 DEF b, r

(***************************************************************************)
(* The clock that the inbox shows runs while the buyer waits, counts the   *)
(* office's open time, and is overdue from the deadline on                 *)
(* (sla_service.py), for any office hours, weeks, response times and       *)
(* threads, and whatever agents do to states and categories.               *)
(***************************************************************************)
THEOREM ClockTellsTheWait == SlaSpec => []SlaShown
<1>1. ASSUME SlaInv PROVE SlaShown
  <2> DEFINE waiting == Pair[1] # None /\ Pair[2] = None
  <2>1. now \in Nat /\ target \in Nat /\ target # 0
    BY <1>1, SlaTimeAssumption DEF SlaInv, SlaTyped
  <2>2. \A s : Timed(s) = [shown |-> IF BusinessBetween(s, now) > target THEN "OVERDUE" ELSE "PENDING",
                           seconds |-> BusinessBetween(s, now), since |-> s]
    BY DEF Timed
  <2>3. CASE waiting
    <3>1. PICK s \in Nat \ {0} : Snapshot = Timed(s) /\ (~untimed => s = Pair[1].at)
      BY <1>1, <2>3, SnapshotIs
    <3>2. /\ Snapshot.since = s /\ Snapshot.seconds = BusinessBetween(s, now)
          /\ Snapshot.shown = IF BusinessBetween(s, now) > target THEN "OVERDUE" ELSE "PENDING"
      BY <2>2, <3>1
    <3>3. Running /\ (Snapshot.shown = "OVERDUE" <=> BusinessBetween(s, now) > target)
      BY <3>2 DEF Running
    <3>4. Snapshot.seconds = Cardinality(Worked(Snapshot.since, now))
      BY <2>1, <3>2, BusinessIs
    <3>5. Snapshot.shown = "OVERDUE" <=> Worked(ResponseDueAt, now) # {}
      <4>1. ResponseDueAt = DueAt(s, target)
        BY <3>2 DEF ResponseDueAt
      <4> QED
        BY <2>1, <3>3, <4>1, OverdueIsPastDue
    <3>6. ~untimed /\ state \in {"OPEN", "PENDING"} =>
              (NearDue <=> target - Snapshot.seconds <= Warning)
      BY <2>3, <3>1, <3>2 DEF NearDue
    <3> QED
      BY <2>3, <3>3, <3>4, <3>5, <3>6 DEF SlaShown
  <2>4. CASE ~waiting
    <3>1. ~Running
      BY <1>1, <2>4, SnapshotIs DEF Running
    <3>2. ~untimed /\ Closed # {} =>
              /\ Snapshot.seconds = LastClosed.seconds
              /\ Snapshot.shown = IF LastClosed.met THEN "MET" ELSE "BREACHED"
      BY <1>1, <2>4, SnapshotIs
    <3> QED
      BY <2>4, <3>1, <3>2 DEF SlaShown
  <2> QED
    BY <2>3, <2>4
<1> QED
  BY <1>1, SlaBegins, SlaStep, PTL DEF SlaSpec
=============================================================================
