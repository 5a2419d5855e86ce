-------------------------- MODULE TaskAssignments --------------------------
(***************************************************************************)
(* Task categories, their subtasks and sub-subtasks, and the weights with  *)
(* which an agent is assigned to them between two dates.  Each admin       *)
(* request is one transaction.  Every category is created with a catch-all *)
(* subtask "Other".  Weights are in hundredths.                            *)
(***************************************************************************)
EXTENDS Integers, FiniteSets, FiniteSetsExt

CONSTANTS
    Category, Subtask, SubSubtask,
    Home,       \* the category a subtask is created in
    Parent,     \* the subtask of a sub-subtask
    Other,      \* the default subtask of each category
    Whole,      \* target of an assignment to the subtask itself (no sub-subtask)
    Row,        \* ids of assignment rows
    Day,        \* dates
    Limits,     \* values of effective_to: days, or Forever when it is left out
    Amounts,    \* weights an admin types
    Agent

Forever == Max(Day) + 1     \* effective_to is NULL
Statuses == {"ACTIVE", "INACTIVE"}

ASSUME TaskAssumption ==
    /\ Home \in [Subtask -> Category] /\ Parent \in [SubSubtask -> Subtask]
    /\ Other \in [Category -> Subtask] /\ \A c \in Category : Home[Other[c]] = c
    /\ Whole \notin SubSubtask
    /\ Day \subseteq Nat /\ Limits \subseteq Nat /\ Amounts \subseteq Nat

VARIABLES
    categories,     \* status of each TaskCategory that exists
    subtasks,       \* status, category and "is named Other" of each Subtask that exists
    children,       \* status of each SubSubtask that exists
    rows,           \* UserSubtaskAssignment
    lastBulk,       \* history: date and total of the latest save_task_assignment()
    direct          \* history: agents assigned one by one, or back in time

taskVars == <<categories, subtasks, children, rows, lastBulk, direct>>

Without(f, gone) == [x \in DOMAIN f \ gone |-> f[x]]
With(f, x, value) == [y \in DOMAIN f \cup {x} |-> IF y = x THEN value ELSE f[y]]

TaskInit ==
    /\ categories = <<>> /\ subtasks = <<>> /\ children = <<>> /\ rows = <<>>
    /\ lastBulk = [u \in Agent |-> [set |-> FALSE, day |-> 0, total |-> 0]]
    /\ direct = {}

Forget == lastBulk' = [u \in Agent |-> [lastBulk[u] EXCEPT !.set = FALSE]]

----------------------------------------------------------------------------
\* The tree of tasks.  Deletes cascade to what hangs below, assignments included.

SaveCategory(c, status) ==
    /\ categories' = With(categories, c, status)
    /\ subtasks' = IF c \in DOMAIN categories THEN subtasks
                   ELSE With(subtasks, Other[c], [status |-> "ACTIVE", in |-> c, other |-> TRUE])
    /\ UNCHANGED <<children, rows, lastBulk, direct>>

\* At most one subtask of a category may be named Other.
SaveSubtask(s, c, status, other) ==
    /\ c \in DOMAIN categories /\ (s \in DOMAIN subtasks \/ Home[s] = c)
    /\ other => ~\E t \in DOMAIN subtasks \ {s} : subtasks[t].in = c /\ subtasks[t].other
    /\ subtasks' = With(subtasks, s, [status |-> status, in |-> c, other |-> other])
    /\ UNCHANGED <<categories, children, rows, lastBulk, direct>>

SaveSubSubtask(k, status) ==
    /\ Parent[k] \in DOMAIN subtasks
    /\ children' = With(children, k, status)
    /\ UNCHANGED <<categories, subtasks, rows, lastBulk, direct>>

Cascade(cs, ss, ks) ==
    LET goneSub == ss \cup {s \in DOMAIN subtasks : subtasks[s].in \in cs}
        goneKid == ks \cup {k \in DOMAIN children : Parent[k] \in goneSub}
    IN /\ categories' = Without(categories, cs)
       /\ subtasks' = Without(subtasks, goneSub)
       /\ children' = Without(children, goneKid)
       /\ rows' = Without(rows, {r \in DOMAIN rows :
                                    rows[r].sub \in goneSub \/ rows[r].kid \in goneKid})
       /\ Forget /\ UNCHANGED direct

DeleteCategory(c) == c \in DOMAIN categories /\ Cascade({c}, {}, {})
DeleteSubtask(s) == s \in DOMAIN subtasks /\ Cascade({}, {s}, {})
DeleteSubSubtask(k) == k \in DOMAIN children /\ Cascade({}, {}, {k})

----------------------------------------------------------------------------
\* Assignments.

Current(day) == {r \in DOMAIN rows : /\ rows[r].status = "ACTIVE"
                                     /\ rows[r].from <= day /\ day <= rows[r].to}
RowsOf(u) == {r \in DOMAIN rows : rows[r].user = u}
WeightOver(f, S) == FoldSet(LAMBDA x, n : n + f[x], 0, S)
ActiveWeightTotal(u, day) ==
    WeightOver([r \in DOMAIN rows |-> rows[r].weight], Current(day) \cap RowsOf(u))

Key(row) == <<row.sub, row.kid>>
Existing(u, key, from) == {r \in RowsOf(u) : Key(rows[r]) = key /\ rows[r].from = from}

\* The unique constraint; a NULL sub-subtask is never equal to another one.
Unique(table) == \A r, q \in DOMAIN table :
    r # q /\ table[r].kid # Whole =>
        \/ table[r].user # table[q].user \/ Key(table[r]) # Key(table[q])
        \/ table[r].from # table[q].from

\* save_assignment(): `r` is the row a PATCH names, else a row of the same date is reused.
SaveAssignment(u, s, k, w, from, to, status, r) ==
    /\ s \in DOMAIN subtasks /\ from <= to
    /\ k # Whole => k \in DOMAIN children /\ Parent[k] = s
    /\ \/ r \in DOMAIN rows
       \/ r \in Existing(u, <<s, k>>, from)
       \/ r \in Row \ DOMAIN rows /\ Existing(u, <<s, k>>, from) = {}
    /\ rows' = With(rows, r, [user |-> u, sub |-> s, kid |-> k, weight |-> w,
                              from |-> from, to |-> to, status |-> status])
    /\ Unique(rows')
    /\ direct' = direct \cup {u} \cup {rows[q].user : q \in DOMAIN rows \cap {r}}
    /\ Forget /\ UNCHANGED <<categories, subtasks, children>>

ActiveSubtasks(c) == {s \in DOMAIN subtasks : subtasks[s].in = c /\ subtasks[s].status = "ACTIVE"}
ActiveChildren(s) == {k \in DOMAIN children : Parent[k] = s /\ children[k] = "ACTIVE"}

\* round(weight / n, 2): a tie goes the way the float happens to lie.
Share(w, n, up) == IF 2 * (w % n) > n \/ (2 * (w % n) = n /\ up) THEN w \div n + 1 ELSE w \div n

TargetsOf(ss) ==
    UNION {IF ActiveChildren(s) = {} THEN {<<s, Whole>>} ELSE {s} \X ActiveChildren(s) : s \in ss}

M_Distributed(weightOf, lastChild, up) ==
    [key \in TargetsOf(DOMAIN weightOf) |->
        LET n == Cardinality(ActiveChildren(key[1])) IN
        IF key[2] = Whole THEN weightOf[key[1]] ELSE Share(weightOf[key[1]], n, up)]
\* Targets and weights: a subtask's weight is split evenly over its active
\* children, and the last one listed takes what the rounding left.
Distributed(weightOf, lastChild, up) ==
    [key \in TargetsOf(DOMAIN weightOf) |->
        LET n == Cardinality(ActiveChildren(key[1]))
            share == Share(weightOf[key[1]], n, up)
        IN IF key[2] = Whole THEN weightOf[key[1]]
           ELSE IF key[2] = lastChild[key[1]] THEN weightOf[key[1]] - share * (n - 1)
           ELSE share]

\* save_task_assignment(): every active subtask of one category, and nothing else,
\* from a date on.  `chosen` are the rows reused or created for the targets.
SaveTaskAssignment(u, c, weightOf, from, to, status, up, chosen) ==
    LET current == Current(from) \cap RowsOf(u)
        target == DOMAIN chosen
        candidates(key) == LET now == {r \in current : Key(rows[r]) = key}
                           IN IF now # {} THEN now ELSE Existing(u, key, from)
        used == {chosen[key] : key \in target}
        others == {r \in current : Key(rows[r]) \notin target}
        ended == {r \in others : rows[r].from < from}
    IN /\ c \in DOMAIN categories /\ ActiveSubtasks(c) # {} /\ from <= to
       /\ DOMAIN weightOf = ActiveSubtasks(c)
       /\ Cardinality(used) = Cardinality(target)
       /\ \A key \in target : IF candidates(key) # {} THEN chosen[key] \in candidates(key)
                              ELSE chosen[key] \in Row \ DOMAIN rows
       /\ \E lastChild \in [DOMAIN weightOf -> SubSubtask \cup {Whole}] :
            /\ \A s \in DOMAIN weightOf : ActiveChildren(s) # {} => lastChild[s] \in ActiveChildren(s)
            /\ LET weights == Distributed(weightOf, lastChild, up)
                   keyOf(r) == CHOOSE key \in target : chosen[key] = r
                   written == [r \in DOMAIN rows \cup used |->
                        IF r \in used
                        THEN [user |-> u, sub |-> keyOf(r)[1], kid |-> keyOf(r)[2],
                              weight |-> weights[keyOf(r)], from |-> from, to |-> to, status |-> status]
                        ELSE IF r \in ended
                        THEN [rows[r] EXCEPT !.to = from - 1, !.status = "INACTIVE"]
                        ELSE rows[r]]
               IN /\ target = DOMAIN weights
                  /\ Unique(written)
                  /\ rows' = Without(written, others \ ended)
       /\ lastBulk' = [lastBulk EXCEPT ![u] =
               [set |-> status = "ACTIVE", day |-> from,
                total |-> WeightOver(weightOf, DOMAIN weightOf)]]
       /\ direct' = IF from < lastBulk[u].day THEN direct \cup {u} ELSE direct
       /\ UNCHANGED <<categories, subtasks, children>>

----------------------------------------------------------------------------
TreeSteps ==
    \/ \E c \in Category, status \in Statuses : SaveCategory(c, status)
    \/ \E s \in Subtask, c \in Category, status \in Statuses, other \in BOOLEAN :
            SaveSubtask(s, c, status, other)
    \/ \E k \in SubSubtask, status \in Statuses : SaveSubSubtask(k, status)
    \/ \E c \in Category : DeleteCategory(c)
    \/ \E s \in Subtask : DeleteSubtask(s)
    \/ \E k \in SubSubtask : DeleteSubSubtask(k)

AssignmentSteps ==
    \/ \E u \in Agent, s \in Subtask, k \in SubSubtask \cup {Whole}, w \in Amounts,
          from \in Day, to \in Limits, status \in Statuses, r \in Row :
            SaveAssignment(u, s, k, w, from, to, status, r)
    \/ \E u \in Agent, c \in Category, from \in Day, to \in Limits,
          status \in Statuses, up \in BOOLEAN :
       \E weightOf \in [ActiveSubtasks(c) -> Amounts] :
       \E chosen \in [TargetsOf(DOMAIN weightOf) -> Row] :
            SaveTaskAssignment(u, c, weightOf, from, to, status, up, chosen)

TaskNext == TreeSteps \/ AssignmentSteps
TaskSpec == TaskInit /\ [][TaskNext]_taskVars

TaskTypeOK ==
    /\ DOMAIN categories \subseteq Category
    /\ \A s \in DOMAIN subtasks : subtasks[s].in \in DOMAIN categories
    /\ \A k \in DOMAIN children : Parent[k] \in DOMAIN subtasks
    /\ \A r \in DOMAIN rows : /\ rows[r].sub \in DOMAIN subtasks
                              /\ rows[r].kid \in DOMAIN children \cup {Whole}

(***************************************************************************)
(* A bulk assignment leaves the agent with the weights the admin typed and *)
(* nothing else, however the tree changed since the previous one: what the *)
(* children got adds up to their subtask's weight, rows of other           *)
(* categories and of targets that no longer exist have ended.  An agent    *)
(* assigned one by one, or back in time, may hold a target twice, and the  *)
(* bulk assignment then leaves one of the two rows as it is.               *)
(***************************************************************************)
AssignedWeight ==
    \A u \in Agent \ direct :
        lastBulk[u].set => ActiveWeightTotal(u, lastBulk[u].day) = lastBulk[u].total
=============================================================================
