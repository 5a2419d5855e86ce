----------------------------- MODULE DailyWork -----------------------------
(***************************************************************************)
(* The shared main tasks, one agent's daily work report and the daily      *)
(* entries in which admins score what the report says was done.            *)
(*                                                                         *)
(* Work on an automatic task (a classified message, a copied sold posting, *)
(* an offer sheet row) is counted from rows with a time.  Once the agent   *)
(* has reviewed and copied the report, its quantities are the agent's, and *)
(* only what was done after copied_at is added to them.  Saving a report   *)
(* is two steps, the reads and the commit.                                 *)
(***************************************************************************)
EXTENDS Integers, FiniteSets

CONSTANTS
    Task,       \* MainTask ids
    Source,     \* source of each: "counted", "offers", "manual" or "other"
    MaxWork,    \* bound on the work of one day
    MaxSaves,   \* bound on the saves under way at once
    LastDay     \* bound on the days

ASSUME WorkAssumption ==
    /\ Source \in [Task -> {"counted", "offers", "manual", "other"}]
    /\ MaxWork \in Nat /\ LastDay \in Nat \ {0}

Manual(t) == Source[t] \in {"manual", "other"}

VARIABLES
    today,      \* report_day(), the calendar day in India
    catalog,    \* the tasks that exist and whether each is active
    done,       \* count_main_task() of today, for each task
    since,      \* count_main_task_after(): today's work after copied_at
    report,     \* DailyWorkReport of each day
    dialog,     \* what the agent's open review shows
    saves,      \* report saves that have not committed
    entry,      \* DailyTaskEntry of each day
    resaved     \* history: tasks were saved over a copied report today

workVars == <<today, catalog, done, since, report, dialog, saves, entry, resaved>>

Zero == [t \in Task |-> 0]
NoReport == [copied |-> FALSE, tasks |-> Zero]
NoEntry == [exists |-> FALSE, after |-> FALSE, scored |-> {}]

WorkInit ==
    /\ today = 1
    /\ catalog = [t \in {x \in Task : Source[x] = "other"} |-> TRUE]
    /\ done = Zero /\ since = Zero
    /\ report = [d \in 1 .. LastDay |-> NoReport]
    /\ dialog = <<>> /\ saves = {}
    /\ entry = [d \in 1 .. LastDay |-> NoEntry]
    /\ resaved = FALSE

----------------------------------------------------------------------------
\* The catalog of main tasks.

ActiveTasks == {t \in DOMAIN catalog : catalog[t]}

CreateTask(t) ==
    /\ t \notin DOMAIN catalog
    /\ catalog' = [x \in DOMAIN catalog \cup {t} |-> IF x = t THEN TRUE ELSE catalog[x]]
    /\ UNCHANGED <<today, done, since, report, dialog, saves, entry, resaved>>

\* Other must remain available.
UpdateTask(t, active) ==
    /\ t \in DOMAIN catalog /\ (Source[t] = "other" => active)
    /\ catalog' = [catalog EXCEPT ![t] = active]
    /\ UNCHANGED <<today, done, since, report, dialog, saves, entry, resaved>>

----------------------------------------------------------------------------
\* Work, and midnight in India: a review of the day that has ended is refused.

Counted(counts, t) == [counts EXCEPT ![t] = @ + 1]
Work(t) ==
    /\ ~Manual(t) /\ done[t] < MaxWork
    /\ done' = Counted(done, t)
    /\ since' = IF report[today].copied THEN Counted(since, t) ELSE since
    /\ saves' = {[s EXCEPT !.since = Counted(@, t)] : s \in saves}
    /\ UNCHANGED <<today, catalog, report, dialog, entry, resaved>>

\* An offer entered today for another date: the count of the day goes by
\* offer_date, the count after a copy by created_at.
OfferOfAnotherDay(t) ==
    /\ Source[t] = "offers" /\ report[today].copied /\ since[t] < MaxWork
    /\ \A s \in saves : s.since[t] < MaxWork
    /\ since' = IF report[today].copied THEN Counted(since, t) ELSE since
    /\ saves' = {[s EXCEPT !.since = Counted(@, t)] : s \in saves}
    /\ UNCHANGED <<today, catalog, done, report, dialog, entry, resaved>>

Midnight ==
    /\ today < LastDay
    /\ today' = today + 1
    /\ done' = Zero /\ since' = Zero /\ dialog' = <<>> /\ resaved' = FALSE
    /\ UNCHANGED <<catalog, report, saves, entry>>

----------------------------------------------------------------------------
\* The report.

\* today(): the quantities shown for the active tasks.
Shown(t) ==
    IF Manual(t) THEN report[today].tasks[t]
    ELSE IF report[today].copied THEN report[today].tasks[t] + since[t] ELSE done[t]

OpenDialog ==
    /\ dialog' = [t \in ActiveTasks |-> Shown(t)]
    /\ UNCHANGED <<today, catalog, done, since, report, saves, entry, resaved>>

\* automatic_tasks()
AutomaticTasks == [t \in Task |-> IF t \in ActiveTasks /\ ~Manual(t) THEN done[t] ELSE 0]
\* _validate_additional(): active manual tasks only.
Additional(quantity) == \A t \in DOMAIN quantity : t \in ActiveTasks /\ Manual(t)
\* _reviewed_tasks(): tasks reviewed as 0 are left out.
Reviewed(quantity) == [t \in Task |-> IF t \in DOMAIN quantity THEN quantity[t] ELSE 0]
NewSave(copied, tasks) == [copied |-> copied, day |-> today, since |-> Zero, tasks |-> tasks]

\* save_today(copied): the review must name every active task exactly once.  The
\* agent may lower what the dialog shows for automatic tasks.
CopyBegin(quantity) ==
    /\ Cardinality(saves) < MaxSaves
    /\ DOMAIN dialog = ActiveTasks
    /\ \A t \in ActiveTasks : quantity[t] <= IF Manual(t) THEN 1 ELSE dialog[t]
    /\ saves' = saves \cup {NewSave(TRUE, Reviewed(quantity))}
    /\ dialog' = <<>>
    /\ UNCHANGED <<today, catalog, done, since, report, entry, resaved>>

\* save_today(tasks): manual quantities, and the automatic tasks counted anew.
SaveTasksBegin(quantity) ==
    /\ Cardinality(saves) < MaxSaves
    /\ Additional(quantity)
    /\ saves' = saves \cup {NewSave(FALSE,
            [t \in Task |-> IF t \in DOMAIN quantity THEN quantity[t] ELSE AutomaticTasks[t]])}
    /\ UNCHANGED <<today, catalog, done, since, report, dialog, entry, resaved>>

\* The insert or update, unless the day has ended.  copied_at, with the work
\* counted after it, moves with a copy only.
SaveReport(s) ==
    /\ saves' = saves \ {s}
    /\ IF s.day # today THEN UNCHANGED <<report, since, resaved>>
       ELSE /\ report' = [report EXCEPT ![s.day] =
                    [copied |-> @.copied \/ s.copied, tasks |-> s.tasks]]
            /\ since' = IF s.copied THEN s.since ELSE since
            /\ resaved' = (resaved \/ (~s.copied /\ report[s.day].copied))
    /\ UNCHANGED <<today, catalog, done, dialog, entry>>

----------------------------------------------------------------------------
\* Daily entries.

M_Performed(d) == IF report[d].copied THEN {t \in ActiveTasks : report[d].tasks[t] > 0} ELSE {}
\* _main_task_items(): what a copied report records, tasks no longer active included.
Performed(d) == IF report[d].copied THEN {t \in Task : report[d].tasks[t] > 0} ELSE {}

\* _save_one(): only what was performed on the day is scored.
SaveEntry(d) ==
    /\ d <= today
    /\ entry' = [entry EXCEPT ![d] = [exists |-> TRUE, after |-> d < today, scored |-> Performed(d)]]
    /\ UNCHANGED <<today, catalog, done, since, report, dialog, saves, resaved>>

DeleteEntry(d) ==
    /\ entry[d].exists
    /\ entry' = [entry EXCEPT ![d] = NoEntry]
    /\ UNCHANGED <<today, catalog, done, since, report, dialog, saves, resaved>>

----------------------------------------------------------------------------
WorkSteps ==
    \/ \E t \in Task : CreateTask(t) \/ Work(t) \/ OfferOfAnotherDay(t)
    \/ \E t \in Task, active \in BOOLEAN : UpdateTask(t, active)
    \/ Midnight \/ OpenDialog
    \/ \E quantity \in [DOMAIN dialog -> 0 .. 2 * MaxWork] : CopyBegin(quantity)
    \/ \E ts \in SUBSET {t \in Task : Manual(t)} :
            \E quantity \in [ts -> {1}] : SaveTasksBegin(quantity)
    \/ \E s \in saves : SaveReport(s)
    \/ \E d \in 1 .. LastDay : SaveEntry(d) \/ DeleteEntry(d)
WorkSpec == WorkInit /\ [][WorkSteps]_workVars

WorkTypeOK ==
    /\ today \in 1 .. LastDay
    /\ \A t \in Task : done[t] \in 0 .. MaxWork /\ since[t] \in 0 .. 2 * MaxWork
    /\ \A s \in saves : s.day <= today

\* A copied report never shows more of a counted task than was done that day,
\* over repeated reviews, saves that overlap and work done meanwhile; until the
\* manual tasks are saved over a copied report, which counts what was done since
\* the copy twice.
NoWorkCountedTwice ==
    ~resaved => \A t \in ActiveTasks : Source[t] = "counted" => Shown(t) <= done[t]

\* An entry made after its day has ended scores exactly what the report of that
\* day still says, whatever happens to the tasks and to saves begun before midnight.
FinishedDayStands ==
    \A d \in 1 .. LastDay : entry[d].after => entry[d].scored = Performed(d)
=============================================================================
