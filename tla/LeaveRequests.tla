--------------------------- MODULE LeaveRequests ---------------------------
(***************************************************************************)
(* Leave of agents in one month: requests with their dates, the review     *)
(* that splits a paid request into paid and unpaid days, and the ledger of *)
(* monthly totals.  Days are counted in halves.                            *)
(*                                                                         *)
(* A review locks its request; nothing locks the ledger or the user, so a  *)
(* review, a cancellation and a new request each read in one step and      *)
(* commit in another.                                                      *)
(***************************************************************************)
EXTENDS Integers, Sequences, FiniteSets, SequencesExt, FiniteSetsExt

CONSTANTS
    Agents,     \* users of the Support Agent role
    Req,        \* requests
    Form,       \* what each asks for: user, type, first and last date, half
    Sunday,     \* dates
    Totals,     \* monthly totals an admin may enter: [paid, unpaid, adh]
    Carries,    \* carry-forward an admin may enter
    Policies    \* policies an admin may set; [allowance, shorts, instances]

NoTxn == [op |-> "none"]

ASSUME FormAssumption ==
    /\ IsFiniteSet(Req)
    /\ \A r \in Req : /\ Form[r].user \in Agents
                      /\ Form[r].type \in {"PAID", "SHORT", "INSTANCE"}
                      /\ Form[r].first \in Nat /\ Form[r].last \in Nat
                      /\ (Form[r].half \/ Form[r].type # "PAID" => Form[r].first = Form[r].last)
    /\ \A p \in Policies : p.allowance \in Nat /\ p.shorts \in Nat /\ p.instances \in Nat
    /\ \A t \in Totals : t.paid \in Nat /\ t.unpaid \in Nat /\ t.adh \in Nat
    /\ Carries \subseteq Nat

VARIABLES
    status,     \* LeaveRequest.status, "none" before it is made
    paid,       \* paid_days of each request
    excess,     \* excess_days
    ledger,     \* the month's PAID_ and UNPAID_SUMMARY_OVERRIDE rows by age
    adh,        \* ADH_OVERRIDE, -1 while there is none
    carry,      \* CARRY_FORWARD_OVERRIDE
    policy,
    txn,        \* the creation or review of a request under way
    cancelling, \* cancellations that have read their request as PENDING
    edited,     \* history: users whose totals an admin has set
    raced       \* history: users two of whose transactions overlapped

leaveVars == <<status, paid, excess, ledger, adh, carry, policy, txn, cancelling, edited, raced>>

LeaveInit ==
    /\ status = [r \in Req |-> "none"]
    /\ paid = [r \in Req |-> 0] /\ excess = [r \in Req |-> 0]
    /\ ledger = [u \in Agents |-> <<>>] /\ adh = [u \in Agents |-> -1]
    /\ carry = [u \in Agents |-> 0]
    /\ policy \in Policies
    /\ txn = [r \in Req |-> NoTxn] /\ cancelling = {}
    /\ edited = {} /\ raced = {}

----------------------------------------------------------------------------
\* What the service computes from the rows.

Of(u) == {r \in Req : Form[r].user = u}
SumOver(f, S) == FoldSet(LAMBDA r, n : n + f[r], 0, S)
Active(r) == status[r] \in {"PENDING", "APPROVED"}
Approved(u) == {r \in Of(u) : status[r] = "APPROVED"}
Overlap(r, s) == Form[s].first <= Form[r].last /\ Form[s].last >= Form[r].first

\* Sundays do not count.
Days(r) ==
    IF Form[r].half THEN 1
    ELSE 2 * Cardinality(Form[r].first .. Form[r].last \ Sunday)

\* The oldest row counts; later ones are duplicates, deleted when met.
Kept(rows) == IF rows = <<>> THEN <<>> ELSE <<Head(rows)>>
Entered(rows) == IF rows = <<>> THEN [paid |-> 0, unpaid |-> 0] ELSE Head(rows)

PaidUsed(u) ==
    IF ledger[u] # <<>> THEN Head(ledger[u]).paid
    ELSE SumOver(paid, Of(u))
M_Available(u) == policy.allowance + carry[u] - PaidUsed(u)
Available(u) == Max({policy.allowance + carry[u] - PaidUsed(u), 0})

WholeDays(halves) == (Max({halves, 0}) + 1) \div 2

\* Points to deduct given the rows the session can see: unpaid days rounded up
\* (those of the totals, once there are any), and ADH beyond both limits.
Impact(u, rows, count) ==
    [attendance |->
        IF rows # <<>> THEN WholeDays(Head(rows).unpaid)
        ELSE SumOver([r \in Req |-> WholeDays(excess[r])],
                     {r \in Approved(u) : Form[r].type = "PAID"}),
     punctuality |-> Max({Max({count, 0}) - policy.instances - policy.shorts, 0})]

\* Rows a transaction that read `seen` leaves: it updates the oldest, deletes
\* the other ones it saw, or adds the first.
Written(rows, seen, row) ==
    IF seen = <<>> THEN Append(rows, row)
    ELSE <<row>> \o SubSeq(rows, Len(seen) + 1, Len(rows))

----------------------------------------------------------------------------
Busy(u) == {r \in Of(u) : txn[r] # NoTxn}
\* Whatever commits for u makes what the others under way have read stale.
Commit(r) ==
    /\ txn' = [txn EXCEPT ![r] = NoTxn]
    /\ raced' = IF Busy(Form[r].user) \ {r} # {} \/ cancelling \cap Of(Form[r].user) # {}
                THEN raced \cup {Form[r].user} ELSE raced

ShortsOf(u) == {r \in Of(u) : Active(r) /\ Form[r].type = "SHORT"}

\* create_request(): the checks, then the insert.
CreateCheck(r) ==
    /\ status[r] = "none" /\ txn[r] = NoTxn
    /\ ~\E s \in Of(Form[r].user) : Active(s) /\ Overlap(r, s)
    /\ Form[r].type = "PAID" => Days(r) > 0
    /\ Form[r].type = "SHORT" => Cardinality(ShortsOf(Form[r].user)) < policy.shorts
    /\ txn' = [txn EXCEPT ![r] = [op |-> "create"]]
    /\ UNCHANGED <<status, paid, excess, ledger, adh, carry, policy, cancelling, edited, raced>>


CreateCommit(r) ==
    /\ txn[r].op = "create"
    /\ status' = [status EXCEPT ![r] = "PENDING"]
    /\ Commit(r)
    /\ UNCHANGED <<paid, excess, ledger, adh, carry, policy, cancelling, edited>>

\* review_request() with the row locked: what the paid days will be, and the
\* ledger rows found.
ApproveRead(r) ==
    /\ status[r] = "PENDING" /\ txn[r] = NoTxn
    /\ LET u == Form[r].user
           share == IF Form[r].type = "PAID" THEN Min({Days(r), Available(u)}) ELSE 0
       IN txn' = [txn EXCEPT ![r] =
            [op |-> "approve", seen |-> ledger[u], paid |-> share,
             unpaid |-> IF Form[r].type = "PAID" THEN Days(r) - share ELSE 0]]
    /\ UNCHANGED <<status, paid, excess, ledger, adh, carry, policy, cancelling, edited, raced>>

M_LedgerAfter(r) ==
    LET u == Form[r].user
    IN [ledger EXCEPT ![u] = Written(@, txn[r].seen, [paid |-> txn[r].paid, unpaid |-> txn[r].unpaid])]
\* _add_paid_request_to_summary() adds to the totals it read.
LedgerAfter(r) ==
    LET u == Form[r].user
        found == Entered(txn[r].seen)
    IN [ledger EXCEPT ![u] = Written(@, txn[r].seen,
            [paid |-> found.paid + txn[r].paid, unpaid |-> found.unpaid + txn[r].unpaid])]


\* A duplicate that another transaction deleted first: the flush fails.
Outdated(r) == Form[r].type = "PAID" /\ Len(ledger[Form[r].user]) < Len(txn[r].seen)

ApproveCommit(r) ==
    /\ txn[r].op = "approve" /\ ~Outdated(r)
    /\ status' = [status EXCEPT ![r] = "APPROVED"]
    /\ paid' = [paid EXCEPT ![r] = txn[r].paid]
    /\ excess' = [excess EXCEPT ![r] = txn[r].unpaid]
    /\ ledger' = IF Form[r].type = "PAID" THEN LedgerAfter(r) ELSE ledger
    /\ Commit(r)
    /\ UNCHANGED <<adh, carry, policy, cancelling, edited>>

ApproveFails(r) ==
    /\ txn[r].op = "approve" /\ Outdated(r)
    /\ txn' = [txn EXCEPT ![r] = NoTxn]
    /\ UNCHANGED <<status, paid, excess, ledger, adh, carry, policy, cancelling, edited, raced>>

Reject(r) ==
    /\ status[r] = "PENDING" /\ txn[r] = NoTxn
    /\ status' = [status EXCEPT ![r] = "REJECTED"]
    /\ Commit(r)
    /\ UNCHANGED <<paid, excess, ledger, adh, carry, policy, cancelling, edited>>

\* cancel_request() reads without the lock; its UPDATE waits for the review's.
CancelRead(r) ==
    /\ status[r] = "PENDING" /\ r \notin cancelling
    /\ cancelling' = cancelling \cup {r}
    /\ UNCHANGED <<status, paid, excess, ledger, adh, carry, policy, txn, edited, raced>>

CancelCommit(r) ==
    /\ r \in cancelling /\ txn[r] = NoTxn
    /\ cancelling' = cancelling \ {r}
    /\ status' = [status EXCEPT ![r] = "CANCELLED"]
    /\ raced' = IF Busy(Form[r].user) # {} THEN raced \cup {Form[r].user} ELSE raced
    /\ UNCHANGED <<paid, excess, ledger, adh, carry, policy, txn, edited>>

\* update_admin_summary() for one user.
SetTotals(u, totals) ==
    /\ ledger' = [ledger EXCEPT ![u] = <<[paid |-> totals.paid, unpaid |-> totals.unpaid]>>]
    /\ adh' = [adh EXCEPT ![u] = totals.adh]
    /\ edited' = edited \cup {u}
    /\ raced' = IF Busy(u) # {} THEN raced \cup {u} ELSE raced
    /\ UNCHANGED <<status, paid, excess, carry, policy, txn, cancelling>>

SetCarry(u, halves) ==
    /\ carry' = [carry EXCEPT ![u] = halves]
    /\ UNCHANGED <<status, paid, excess, ledger, adh, policy, txn, cancelling, edited, raced>>

UpdatePolicy(new) ==
    /\ policy' = new
    /\ UNCHANGED <<status, paid, excess, ledger, adh, carry, txn, cancelling, edited, raced>>

----------------------------------------------------------------------------
\* What the handlers do to the leave rows, in any order.
LeaveNext ==
    \/ \E r \in Req : \/ CreateCheck(r) \/ CreateCommit(r)
                      \/ ApproveRead(r) \/ ApproveCommit(r) \/ ApproveFails(r)
                      \/ Reject(r) \/ CancelRead(r) \/ CancelCommit(r)
    \/ \E u \in Agents : \/ \E totals \in Totals : SetTotals(u, totals)
                         \/ \E halves \in Carries : SetCarry(u, halves)
    \/ \E new \in Policies : UpdatePolicy(new)

LeaveSpec == LeaveInit /\ [][LeaveNext]_leaveVars

----------------------------------------------------------------------------
\* As long as no two transactions of a user overlap and no admin enters totals,
\* the month's totals are those of the approved requests, every approved day is
\* paid or unpaid, and no two active requests share a date: over creations,
\* approvals, rejections, cancellations and changes of policy in any order.
LedgerAgrees ==
    \A u \in Agents \ (raced \cup edited) :
        LET active == {r \in Of(u) : Active(r)}
            granted == {r \in active : status[r] = "APPROVED" /\ Form[r].type = "PAID"}
        IN /\ Entered(ledger[u]).paid = SumOver(paid, granted)
           /\ Entered(ledger[u]).unpaid = SumOver(excess, granted)
           /\ \A r \in granted : paid[r] + excess[r] = Days(r)
           /\ \A r, s \in active : r # s => ~Overlap(r, s)

\* "Approved requests consume a slot permanently": an approval is final.
ApprovalStands == [][\A r \in Req : status[r] = "APPROVED" => status'[r] = "APPROVED"]_leaveVars

LeaveTypeOK ==
    /\ status \in [Req -> {"none", "PENDING", "APPROVED", "REJECTED", "CANCELLED"}]
    /\ \A r \in Req : paid[r] \in 0 .. Days(r) /\ excess[r] \in 0 .. Days(r)
    /\ \A u \in Agents : Len(ledger[u]) <= Cardinality(Of(u)) + 1 /\ adh[u] >= -1 /\ carry[u] >= 0
    /\ policy \in Policies
    /\ cancelling \cup {r \in Req : txn[r] # NoTxn} \subseteq Req
    /\ edited \subseteq Agents /\ raced \subseteq Agents
=============================================================================
