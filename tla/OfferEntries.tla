----------------------------- MODULE OfferEntries -----------------------------
(***************************************************************************)
(* The agents' own list of offers: entries typed in a form, edited by      *)
(* several agents, or imported from a sheet.  A request reads, decides and *)
(* commits later; an edit writes the columns it changed against the row it *)
(* loaded.  Only the unique entry number stands between two creations.     *)
(***************************************************************************)
EXTENDS Integers, Sequences, FiniteSets, FiniteSetsExt, Functions

CONSTANTS
    Clerk,          \* requests served at once
    Forms,          \* what the form sends for a new entry: a function on the fields it sets
    Edits,          \* and for an existing one
    Sheets,         \* sheets to import: sequences of rows
    Threshold,      \* offer.high_value_amount
    MaxEntries,     \* bound on the entries ever stored
    MaxEdits,       \* bound on the edits of an entry
    Absent

Field == {"status", "outcome", "remarks", "follow", "listed", "revised", "quantity", "high"}
SheetRows == UNION {Range(sheet) : sheet \in Sheets}

OfferEntriesAssumption ==
    /\ Threshold \in Nat /\ MaxEntries \in Nat /\ MaxEdits \in Nat
    /\ \A form \in Forms \cup Edits : DOMAIN form \subseteq Field
    /\ Sheets \subseteq Seq(SheetRows)
    /\ \A row \in SheetRows : row.number \in Nat \cup {Absent}

VARIABLES
    entries,        \* OfferManagementEntry by id, for the ids that exist
    trail,          \* OfferManagementEntryHistory by id: the values recorded, oldest first
    serving,        \* per worker: the request between its reading and its commit
    nextId,
    reports,        \* history: imports answered, with the rows they say and the rows they stored
    crossed         \* history: entries edited by two requests at once

entryVars == <<entries, trail, serving, nextId, reports, crossed>>

Ready == [at |-> "free"]
Blank == [f \in Field |-> Absent]
ActiveStatuses == {"OPEN", "CLOSED"}
ClosedOutcomes == {"DONE", "IGNORE", "SOLD", "NOT_ABLE_TO_MATCH_THE_PRICE"}
ActiveOutcomes == ClosedOutcomes \cup {"PENDING"}

----------------------------------------------------------------------------
\* is_high_value_amount(): any price, alone or for the quantity.
IsHighValueAmount(prices, quantity) ==
    \E p \in prices \ {Absent} :
        p >= Threshold \/ (quantity # Absent /\ quantity > 0 /\ p * quantity >= Threshold)
\* is_offer_entry_high_value(): the import's own rule, on one price and strictly above.
IsOfferEntryHighValue(listed, revised, quantity) ==
    LET p == IF revised # Absent THEN revised ELSE listed IN
    /\ p # Absent
    /\ p > Threshold \/ (quantity # Absent /\ quantity > 0 /\ p * quantity > Threshold)

\* Some columns laid over a row.
Over(new, old) ==
    [f \in DOMAIN new \cup DOMAIN old |-> IF f \in DOMAIN new THEN new[f] ELSE old[f]]
\* _prepare_values(): checks what the entry would be, and adds what follows from it.
Merged(values, existing) == Over(values, existing)
Accepted(merged) ==
    /\ merged.status \in ActiveStatuses
    /\ merged.outcome \in ActiveOutcomes
    /\ merged.status = "CLOSED" => merged.outcome \in ClosedOutcomes /\ merged.remarks # Absent
Closing(values, merged) ==
    IF merged.status = "CLOSED" THEN Over([follow |-> Absent], values) ELSE values
M_PrepareValues(values, existing) ==    \* mutant: the follow-up stays
    LET merged == Merged(values, existing) IN
    Over([high |-> IsHighValueAmount({merged.listed, merged.revised}, merged.quantity)], values)
PrepareValues(values, existing) ==
    LET merged == Merged(values, existing) IN
    Over([high |-> IsHighValueAmount({merged.listed, merged.revised}, merged.quantity)],
         Closing(values, merged))

----------------------------------------------------------------------------
EntriesInit ==
    /\ entries = <<>> /\ trail = <<>>
    /\ serving = [w \in Clerk |-> Ready]
    /\ nextId = 1
    /\ reports = {} /\ crossed = {}

Numbers == {entries[i].number : i \in DOMAIN entries}
NextEntryNumber == Max(Numbers \cup {0}) + 1
\* Entry numbers of an import not yet committed: whoever inserts one waits.
Pending(w) == IF serving[w].at = "import" THEN {serving[w].rows[k].number : k \in DOMAIN serving[w].rows} ELSE {}
Waits(w, n) == \E o \in Clerk \ {w} : n \in Pending(o)

\* create(): the number is one more than the highest committed one.
CreateReads(w, form) ==
    /\ serving[w] = Ready
    /\ Accepted(Merged(form, Blank))
    /\ serving' = [serving EXCEPT ![w] =
                     [at |-> "create", number |-> NextEntryNumber,
                      values |-> Over(PrepareValues(form, Blank), Blank)]]
    /\ UNCHANGED <<entries, trail, nextId, reports, crossed>>

Inserted(w, new) ==      \* new: a sequence of [number, values]
    /\ nextId + Len(new) <= MaxEntries + 1
    /\ entries' = [i \in DOMAIN entries \cup (nextId .. nextId + Len(new) - 1) |->
                     IF i < nextId THEN entries[i] ELSE new[i - nextId + 1]]
    /\ trail' = [i \in DOMAIN entries' |->
                     IF i < nextId THEN trail[i] ELSE <<new[i - nextId + 1].values>>]
    /\ nextId' = nextId + Len(new)

CreateCommits(w) ==
    LET s == serving[w] IN
    /\ s.at = "create" /\ ~Waits(w, s.number) /\ s.number \notin Numbers
    /\ Inserted(w, <<[number |-> s.number, values |-> s.values]>>)
    /\ serving' = [serving EXCEPT ![w] = Ready]
    /\ UNCHANGED <<reports, crossed>>

\* The number was taken meanwhile: the unique constraint fails the request.
CreateFails(w) ==
    /\ serving[w].at = "create" /\ serving[w].number \in Numbers
    /\ serving' = [serving EXCEPT ![w] = Ready]
    /\ UNCHANGED <<entries, trail, nextId, reports, crossed>>

----------------------------------------------------------------------------
UpdateReads(w, i, edit) ==
    /\ serving[w] = Ready
    /\ i \in DOMAIN entries /\ Len(trail[i]) <= MaxEdits
    /\ Accepted(Merged(edit, entries[i].values))
    /\ serving' = [serving EXCEPT ![w] =
                     [at |-> "update", entry |-> i, old |-> entries[i].values, over |-> FALSE,
                      values |-> PrepareValues(edit, entries[i].values)]]
    /\ UNCHANGED <<entries, trail, nextId, reports, crossed>>

Changed(values, old) ==
    LET fields == {f \in DOMAIN values : values[f] # old[f]} IN [f \in fields |-> values[f]]

\* update(): the changed columns, and a history row when there are any.
UpdateCommits(w) ==
    LET s == serving[w]
        new == Changed(s.values, s.old) IN
    /\ s.at = "update" /\ s.entry \in DOMAIN entries
    /\ entries' = [entries EXCEPT ![s.entry].values = Over(new, @)]
    /\ trail' = [trail EXCEPT ![s.entry] = IF DOMAIN new = {} THEN @ ELSE Append(@, new)]
    /\ crossed' = IF s.over THEN crossed \cup {s.entry} ELSE crossed
    /\ serving' = [o \in Clerk |->
                     IF o = w THEN Ready
                     ELSE IF serving[o].at = "update" /\ serving[o].entry = s.entry /\ DOMAIN new # {}
                          THEN [serving[o] EXCEPT !.over = TRUE]
                     ELSE serving[o]]
    /\ UNCHANGED <<nextId, reports>>

\* The row is gone: the UPDATE matches nothing and the request fails.
UpdateFails(w) ==
    /\ serving[w].at = "update" /\ serving[w].entry \notin DOMAIN entries
    /\ serving' = [serving EXCEPT ![w] = Ready]
    /\ UNCHANGED <<entries, trail, nextId, reports, crossed>>

\* delete(), delete_many(): the history goes with the entry.
DeleteMany(ids) ==
    /\ ids # {} /\ ids \subseteq DOMAIN entries
    /\ entries' = [i \in DOMAIN entries \ ids |-> entries[i]]
    /\ trail' = [i \in DOMAIN trail \ ids |-> trail[i]]
    /\ UNCHANGED <<serving, nextId, reports, crossed>>

----------------------------------------------------------------------------
(* The import: one transaction over the rows of a sheet.                   *)
ImportReads(w, sheet) ==
    /\ serving[w] = Ready
    /\ serving' = [serving EXCEPT ![w] =
                     [at |-> "import", todo |-> sheet, used |-> Numbers, next |-> NextEntryNumber,
                      rows |-> <<>>, created |-> 0, skipped |-> 0, broken |-> FALSE]]
    /\ UNCHANGED <<entries, trail, nextId, reports, crossed>>

\* The number a row asks for, or the next one not used when the import began.
RowNumber(s, row) ==
    IF row.number # Absent /\ row.number \notin s.used THEN row.number
    ELSE CHOOSE n \in s.next .. s.next + Cardinality(s.used) :
           n \notin s.used /\ s.next .. n - 1 \subseteq s.used
RowValues(row) ==
    [f \in Field |->
        CASE f = "status" -> "OPEN" [] f = "outcome" -> "PENDING"
          [] f = "high" -> IsOfferEntryHighValue(row.listed, row.revised, row.quantity)
          [] OTHER -> row[f]]
Skipped(s) == [s EXCEPT !.todo = Tail(@), !.skipped = @ + 1]
\* A failed flush leaves the session unusable: every later row is skipped too.
RowFails(s) == [Skipped(s) EXCEPT !.broken = TRUE]

ImportRow(w) ==
    LET s == serving[w] row == Head(s.todo) n == RowNumber(s, row) IN
    /\ s.at = "import" /\ s.todo # <<>>
    /\ (~s.broken /\ ~row.bad) => ~Waits(w, n)
    /\ serving' = [serving EXCEPT ![w] =
         IF s.broken \/ row.bad THEN Skipped(s)
         ELSE IF n \in Numbers THEN RowFails(s)
         ELSE [s EXCEPT !.todo = Tail(@), !.created = @ + 1, !.used = @ \cup {n}, !.next = Max({@, n + 1}),
                        !.rows = Append(@, [number |-> n, values |-> RowValues(row)])]]
    /\ UNCHANGED <<entries, trail, nextId, reports, crossed>>

ImportCommits(w) ==
    LET s == serving[w] IN
    /\ s.at = "import" /\ s.todo = <<>> /\ ~s.broken
    /\ Inserted(w, s.rows)
    /\ reports' = reports \cup {[said |-> s.created, stored |-> Len(s.rows), rest |-> s.skipped]}
    /\ serving' = [serving EXCEPT ![w] = Ready]
    /\ UNCHANGED crossed

ImportFails(w) ==
    /\ serving[w].at = "import" /\ serving[w].todo = <<>> /\ serving[w].broken
    /\ serving' = [serving EXCEPT ![w] = Ready]
    /\ UNCHANGED <<entries, trail, nextId, reports, crossed>>

EntriesNext ==
    \/ \E w \in Clerk :
         \/ \E form \in Forms : CreateReads(w, form)
         \/ CreateCommits(w) \/ CreateFails(w)
         \/ \E i \in 1..MaxEntries, edit \in Edits : UpdateReads(w, i, edit)
         \/ UpdateCommits(w) \/ UpdateFails(w)
         \/ \E sheet \in Sheets : ImportReads(w, sheet)
         \/ ImportRow(w) \/ ImportCommits(w) \/ ImportFails(w)
    \/ \E ids \in SUBSET (1..MaxEntries) : DeleteMany(ids)
EntriesSpec == EntriesInit /\ [][EntriesNext]_entryVars

----------------------------------------------------------------------------
\* summary(): an entry is open, or it is not; a follow-up is due while it is open.
OpenOffers == {i \in DOMAIN entries : entries[i].values.status # "CLOSED"}
FollowUps == {i \in DOMAIN entries : entries[i].values.follow # Absent}

\* The audit trail of an entry, replayed: what was last recorded of each field.
Replayed(history) ==
    [f \in Field |->
        LET named == {n \in DOMAIN history : f \in DOMAIN history[n]} IN
        IF named = {} THEN Absent ELSE history[Max(named)][f]]

EntriesTypeOK ==
    /\ DOMAIN entries \subseteq 1..MaxEntries /\ DOMAIN trail = DOMAIN entries
    /\ \A i \in DOMAIN entries : DOMAIN entries[i].values = Field /\ entries[i].number \in Nat

\* A closed entry has an outcome, remarks and no follow-up, unless two edits of it overlapped;
\* whatever overlapped, the history of an entry replays to its values; numbers are unique;
\* and an import that answers has stored the rows it counts as created.
EntriesExplained ==
    /\ \A i \in DOMAIN entries \ crossed :
         i \notin OpenOffers =>
            /\ entries[i].values.outcome \in ClosedOutcomes
            /\ entries[i].values.remarks # Absent
            /\ i \notin FollowUps
    /\ \A i \in DOMAIN entries : entries[i].values = Replayed(trail[i])
    /\ \A i, j \in DOMAIN entries : entries[i].number = entries[j].number => i = j
    /\ \A r \in reports : r.said = r.stored
=============================================================================
