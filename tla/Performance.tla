---------------------------- MODULE Performance ----------------------------
(***************************************************************************)
(* The monthly performance record of each agent (PMS): metrics an admin    *)
(* types, metrics computed from daily entries and from leave, and the      *)
(* Employee of the Month chosen from the completed records.                *)
(*                                                                         *)
(* A save is two steps, so that whatever commits between its reads and its *)
(* commit is interleaved; the other transactions are single steps.  Scores *)
(* and weights are in half points, so that rounding to points is visible.  *)
(***************************************************************************)
EXTENDS LeaveRequests

CONSTANTS
    Metric,     \* metric keys configured at first
    Weight,     \* their weights (DEFAULT_METRICS)
    Weights,    \* weights an admin may give
    Scores,     \* scores an admin may type; -1 leaves the field as computed
    Shares,     \* what a month's daily entries may come to: half the share of
                \* the possible score earned, -1 without entries
    Nobody

ASSUME MetricAssumption ==
    /\ IsFiniteSet(Agents)
    /\ Metric \subseteq {"target_achievement", "competency", "productivity", "quality",
                         "attendance", "punctuality"}
    /\ Weight \in [Metric -> Nat] /\ Weights \subseteq Nat /\ Scores \subseteq Nat
    /\ Shares \subseteq -1 .. 2 /\ Nobody \notin Agents

VARIABLES
    config,     \* PmsMetricConfig: weight and active flag of each key that exists
    work,       \* the month's daily entries: an element of Shares
    record,     \* PmsMonthlyRecord of each agent, status "none" before it exists
    choice,     \* PmsEmployeeOfMonthSelection
    saving,     \* a save_monthly() that has not committed
    stale,      \* history: choice was not recomputed from the latest scores
    retired     \* history: a metric was deactivated or deleted

pmsVars == <<config, work, record, choice, saving, stale, retired>>

NoRecord == [status |-> "none", metrics |-> <<>>, final |-> 0, max |-> 0]
NoChoice == [exists |-> FALSE, tie |-> FALSE, tied |-> {}, selected |-> Nobody]
Defaults == [m \in Metric |-> [weight |-> Weight[m], active |-> TRUE]]

PmsInit ==
    /\ config = Defaults /\ work = [u \in Agents |-> -1]
    /\ record = [u \in Agents |-> NoRecord]
    /\ choice = NoChoice /\ saving = {} /\ stale = FALSE /\ retired = FALSE

----------------------------------------------------------------------------
\* Configuration.  The defaults return whenever the table is found empty.

Configs == IF DOMAIN config = {} THEN Defaults ELSE config
ActiveOf(c) == {m \in DOMAIN c : c[m].active}

UpdateConfig(m, weight, active) ==
    /\ m \in DOMAIN config
    /\ config' = [config EXCEPT ![m] = [weight |-> weight, active |-> active]]
    /\ retired' = (retired \/ ~active)
    /\ UNCHANGED <<work, record, choice, saving, stale>>

CreateConfig(m, weight) ==
    /\ m \notin DOMAIN config
    /\ config' = [k \in DOMAIN config \cup {m} |->
                    IF k = m THEN [weight |-> weight, active |-> TRUE] ELSE config[k]]
    /\ UNCHANGED <<work, record, choice, saving, stale, retired>>

DeleteConfig(m) ==
    /\ m \in DOMAIN config
    /\ config' = [k \in DOMAIN config \ {m} |-> config[k]]
    /\ retired' = TRUE
    /\ UNCHANGED <<work, record, choice, saving, stale>>

----------------------------------------------------------------------------
\* Automatic values, from the leave rows and ADH count the session sees.

OnLeave(m) == m \in {"attendance", "punctuality"}
OnWork(m) == m \in {"productivity", "quality"}
Automatic(m) == OnLeave(m) \/ OnWork(m)

LeaveValue(u, m, w, rows, count) == Max({w - 2 * Impact(u, rows, count)[m], 0})
WorkValue(u, w) == (w * Max({work[u], 0})) \div 2
AutoValue(u, m, w) ==
    IF OnLeave(m) THEN LeaveValue(u, m, w, ledger[u], adh[u]) ELSE WorkValue(u, w)
ManualDefault(m, w) == IF m = "competency" THEN w ELSE 0

Total(metrics) == SumOver([m \in DOMAIN metrics |-> metrics[m].value], DOMAIN metrics)
TotalWeight(metrics) == SumOver([m \in DOMAIN metrics |-> metrics[m].weight], DOMAIN metrics)

\* An automatic value is stored beside an override, not over it.
Computed(metric, value) ==
    [metric EXCEPT !.auto = value, !.value = IF metric.over THEN @ ELSE value]

\* What a save writes for one metric.
SavedMetric(u, m, w, typed) ==
    LET auto == IF Automatic(m) THEN AutoValue(u, m, w) ELSE -1
    IN [weight |-> w, auto |-> auto,
        value |-> IF typed # -1 THEN typed
                  ELSE IF Automatic(m) THEN auto ELSE ManualDefault(m, w),
        over |-> Automatic(m) /\ typed # -1 /\ typed # auto]

\* save_monthly(): metrics that are no longer active keep their rows and do not
\* count in the score.
SavedRecord(u, typed, status_) ==
    LET active == ActiveOf(Configs)
        fresh == [m \in active |-> SavedMetric(u, m, Configs[m].weight, typed[m])]
    IN [status |-> status_,
        metrics |-> [m \in active \cup DOMAIN record[u].metrics |->
                        IF m \in active THEN fresh[m] ELSE record[u].metrics[m]],
        final |-> Total(fresh), max |-> TotalWeight(fresh)]

Refreshed(u) ==
    LET metrics == [m \in DOMAIN record[u].metrics |->
                        LET metric == record[u].metrics[m]
                        IN IF Automatic(m)
                           THEN Computed(metric, AutoValue(u, m, metric.weight)) ELSE metric]
    IN [record[u] EXCEPT !.metrics = metrics, !.final = Total(metrics)]

\* sync_daily_entry_month() once the month's entries are `days`: a record without
\* metrics starts from the configuration, and a month without entries scores 0.
Synced(u, days) ==
    LET old == record[u].metrics
        start == IF DOMAIN old # {} THEN old
                 ELSE [m \in ActiveOf(Configs) |->
                        [weight |-> Configs[m].weight, auto |-> -1, value |-> 0, over |-> FALSE]]
        worth(m, w) == IF OnLeave(m) THEN IF days = -1 THEN 0 ELSE AutoValue(u, m, w)
                       ELSE (w * Max({days, 0})) \div 2
        metrics == [m \in DOMAIN start |->
                        IF Automatic(m) THEN Computed(start[m], worth(m, start[m].weight))
                        ELSE start[m]]
    IN IF record[u].status = "none" /\ days = -1 THEN NoRecord
       ELSE [status |-> IF record[u].status = "none" THEN "DRAFT" ELSE record[u].status,
             metrics |-> metrics, final |-> Total(metrics), max |-> TotalWeight(metrics)]

\* apply_leave_impact_to_existing_record() on what the session sees.
Impacted(u, rows, count) ==
    LET metrics == [m \in DOMAIN record[u].metrics |->
                        LET metric == record[u].metrics[m]
                        IN IF OnLeave(m)
                           THEN Computed(metric, LeaveValue(u, m, metric.weight, rows, count))
                           ELSE metric]
    IN [record[u] EXCEPT !.metrics = metrics, !.final = Total(metrics)]

----------------------------------------------------------------------------
\* Employee of the Month.

Rounded(halves) == (halves + 1) \div 2
Completed(records) == {u \in Agents : records[u].status = "COMPLETED"}
Top(records) ==
    {u \in Completed(records) :
        \A v \in Completed(records) : Rounded(records[v].final) <= Rounded(records[u].final)}

M_Recalculated(records, old) ==
    LET top == Top(records)
    IN IF top = {} THEN old
       ELSE IF Cardinality(top) = 1
       THEN [exists |-> TRUE, tie |-> FALSE, tied |-> {}, selected |-> CHOOSE u \in top : TRUE]
       ELSE [exists |-> TRUE, tie |-> TRUE, tied |-> top,
             selected |-> IF old.tie /\ old.selected \in top THEN old.selected ELSE Nobody]
\* A tie an admin resolved stays resolved while the choice is among the tied.
Recalculated(records, old) ==
    LET top == Top(records)
    IN IF top = {} THEN [old EXCEPT !.tie = FALSE, !.tied = {}, !.selected = Nobody]
       ELSE IF Cardinality(top) = 1
       THEN [exists |-> TRUE, tie |-> FALSE, tied |-> {}, selected |-> CHOOSE u \in top : TRUE]
       ELSE [exists |-> TRUE, tie |-> TRUE, tied |-> top,
             selected |-> IF old.tie /\ old.selected \in top THEN old.selected ELSE Nobody]

\* What get_employee_of_month() shows.
Winner ==
    LET top == Top(record)
    IN IF Cardinality(top) = 1 THEN CHOOSE u \in top : TRUE
       ELSE IF choice.selected \in top THEN choice.selected ELSE Nobody

----------------------------------------------------------------------------
Unlocked(u) == \A s \in saving : s.user # u
\* An atomic transaction that recomputes the choice overtakes a save under way.
Recalculate(records) ==
    /\ record' = records
    /\ choice' = Recalculated(records, choice)
    /\ stale' = FALSE
    /\ saving' = {[s EXCEPT !.overtaken = TRUE] : s \in saving}

SaveBegin(u, typed, status_) ==
    /\ saving = {}
    /\ \A m \in ActiveOf(Configs) : typed[m] <= Configs[m].weight
    /\ config' = Configs
    /\ LET new == SavedRecord(u, typed, status_)
       IN saving' = {[user |-> u, rec |-> new, read |-> choice, overtaken |-> FALSE,
                      choice |-> Recalculated([record EXCEPT ![u] = new], choice)]}
    /\ UNCHANGED <<work, record, choice, stale, retired>>

\* Only the columns that the save changed are written to the selection's row; a
\* row that another transaction inserted first fails the save.
SaveCommit(s) ==
    /\ saving' = {}
    /\ IF s.choice.exists /\ ~s.read.exists /\ choice.exists
       THEN UNCHANGED <<record, choice, stale>>
       ELSE /\ record' = [record EXCEPT ![s.user] = s.rec]
            /\ choice' = [f \in DOMAIN choice |->
                            IF s.choice[f] # s.read[f] THEN s.choice[f] ELSE choice[f]]
            /\ stale' = s.overtaken
    /\ UNCHANGED <<config, work, retired>>

\* Daily entries saved, or deleted (-1), in the month of u.
EnterDays(u, days) ==
    /\ Unlocked(u) /\ work[u] # days
    /\ work' = [work EXCEPT ![u] = days]
    /\ config' = Configs
    /\ Recalculate([record EXCEPT ![u] = Synced(u, days)])
    /\ UNCHANGED retired

\* Opening one record brings it up to date first.
ViewRecord(u) ==
    /\ Unlocked(u)
    /\ config' = Configs
    /\ LET new == Synced(u, work[u])
       IN IF new.status = "none" THEN UNCHANGED <<record, choice, stale, saving>>
          ELSE Recalculate([record EXCEPT ![u] = new])
    /\ UNCHANGED <<work, retired>>

MonthlyTable ==
    /\ saving = {}
    /\ config' = Configs
    /\ Recalculate([u \in Agents |-> Synced(u, work[u])])
    /\ UNCHANGED <<work, retired>>

\* refresh_auto_values() leaves the choice alone.
RefreshAuto(u) ==
    /\ Unlocked(u) /\ record[u].status # "none"
    /\ record' = [record EXCEPT ![u] = Refreshed(u)]
    /\ stale' = (stale \/ record'[u].final # record[u].final)
    /\ saving' = {[s EXCEPT !.overtaken = TRUE] : s \in saving}
    /\ UNCHANGED <<config, work, choice, retired>>

Resolve(u) ==
    /\ choice.tie /\ u \in choice.tied
    /\ choice' = [choice EXCEPT !.selected = u]
    /\ saving' = {[s EXCEPT !.overtaken = TRUE] : s \in saving}
    /\ UNCHANGED <<config, work, record, stale, retired>>

\* _recalculate_pms_after_leave(): when the values stay, the explanation stored
\* beside them may still change, and with it the choice is recomputed.
LeaveImpact(u, rows, count) ==
    LET new == Impacted(u, rows, count)
    IN /\ Unlocked(u)
       /\ \/ record[u].status # "none" /\ Recalculate([record EXCEPT ![u] = new])
          \/ new = record[u] /\ UNCHANGED <<record, choice, stale, saving>>
       /\ UNCHANGED <<config, work, retired>>

----------------------------------------------------------------------------
ApproveAndApply(r) == ApproveCommit(r) /\ LeaveImpact(Form[r].user, ledger'[Form[r].user], adh[Form[r].user])

\* The first totals of a month are new rows that are not flushed: the queries
\* of the impact do not see them.
TotalsAndApply(u, totals) ==
    /\ SetTotals(u, totals)
    /\ LeaveImpact(u, IF ledger[u] = <<>> THEN <<>> ELSE ledger'[u],
                   IF adh[u] = -1 THEN -1 ELSE adh'[u])
CarryAndApply(u, halves) == SetCarry(u, halves) /\ LeaveImpact(u, ledger[u], adh[u])

----------------------------------------------------------------------------
Typed == [Metric -> Scores \cup {-1}]

LeaveSteps(requests) ==
    /\ \E r \in requests : CreateCheck(r) \/ CreateCommit(r) \/ ApproveRead(r) \/ ApproveFails(r)
                       \/ Reject(r) \/ CancelRead(r) \/ CancelCommit(r)
    /\ UNCHANGED pmsVars
PolicySteps == (\E new \in Policies \ {policy} : UpdatePolicy(new)) /\ UNCHANGED pmsVars
LeaveApplied(requests, users) ==
    \/ \E r \in requests : ApproveAndApply(r)
    \/ \E u \in users : \E halves \in Carries \ {carry[u]} : CarryAndApply(u, halves)
    \/ \E u \in users, totals \in Totals : TotalsAndApply(u, totals)
ScoreSteps(users) ==
    /\ \/ \E u \in users, typed \in Typed, s \in {"DRAFT", "COMPLETED"} : SaveBegin(u, typed, s)
       \/ \E s \in saving : SaveCommit(s)
       \/ \E u \in users, days \in Shares : EnterDays(u, days)
       \/ \E u \in users : ViewRecord(u) \/ RefreshAuto(u) \/ Resolve(u)
       \/ MonthlyTable
    /\ UNCHANGED leaveVars
ConfigSteps ==
    /\ \E m \in Metric :
        \/ DeleteConfig(m)
        \/ \E weight \in Weights : CreateConfig(m, weight)
        \/ \E weight \in Weights, active \in BOOLEAN : UpdateConfig(m, weight, active)
    /\ UNCHANGED leaveVars

PmsNext ==
    \/ LeaveSteps(Req) \/ PolicySteps \/ LeaveApplied(Req, Agents)
    \/ ScoreSteps(Agents) \/ ConfigSteps
PmsSpec == LeaveInit /\ PmsInit /\ [][PmsNext]_<<leaveVars, pmsVars>>

----------------------------------------------------------------------------
\* The stored choice, which the statistics count, is the winner that is shown,
\* and ties are ties, whenever no refresh and no overtaken save came after the
\* last recomputation.
EomTruth ==
    ~stale => /\ choice.selected = Winner
              /\ choice.tie = (Cardinality(Top(record)) > 1)
              /\ choice.tie => choice.tied = Top(record)

\* Until a metric is retired, a record's score is the sum of its metrics and
\* never exceeds its maximum, whatever computed or typed them, over changes of
\* weights between two saves.
ScoreIsSum ==
    \A u \in Agents :
        LET r == record[u]
        IN ~retired =>
            /\ r.final = Total(r.metrics) /\ r.max = TotalWeight(r.metrics) /\ r.final <= r.max
            /\ \A m \in DOMAIN r.metrics : r.metrics[m].value <= r.metrics[m].weight

\* A score that an admin typed over a computed one changes in a save only:
\* refreshes, daily entries, leave and the overview keep it.
OverridesStand ==
    [][\A u \in Agents : \A m \in DOMAIN record[u].metrics :
        record[u].metrics[m].over /\ (saving' # {} \/ saving = {})
            => record'[u].metrics[m].value = record[u].metrics[m].value]_<<record, saving>>

\* Scores are what was typed and computed, and the winner the best of them: after every
\* step, and from one to the next.
ScoresTrue ==
    /\ [][UNCHANGED <<record, choice, stale, retired>> \/ (ScoreIsSum' /\ EomTruth')]_pmsVars
    /\ OverridesStand

\* The totals that an admin enters reach the agent's record at once.
TotalsReachScore ==
    [][\A u \in Agents : adh[u] # adh'[u] /\ "punctuality" \in DOMAIN record[u].metrics =>
        LET metric == record'[u].metrics["punctuality"]
        IN metric.over \/ metric.value =
            LeaveValue(u, "punctuality", metric.weight, ledger'[u], adh'[u])]_<<adh, ledger>>

PmsTypeOK ==
    /\ \A m \in DOMAIN config : config[m].weight \in Nat /\ config[m].active \in BOOLEAN
    /\ \A u \in Agents : /\ record[u].status \in {"none", "DRAFT", "COMPLETED"}
                         /\ record[u].final >= 0
                         /\ record[u].status = "none" => record[u] = NoRecord
    /\ choice.tied \subseteq Agents /\ choice.selected \in Agents \cup {Nobody}
    /\ choice.selected # Nobody => choice.exists
    /\ Cardinality(saving) <= 1 /\ stale \in BOOLEAN /\ retired \in BOOLEAN
=============================================================================
