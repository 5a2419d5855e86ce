------------------------------ MODULE EbaySync ------------------------------
(***************************************************************************)
(* The incremental message sync of one eBay account.                       *)
(*                                                                         *)
(* A request (Sync, Sync All or the scheduler) reserves a sync log under   *)
(* the account's row lock and spawns a worker process for it.  The worker  *)
(* pages through the account's conversations, newest activity first, down  *)
(* to the cursor of the last sync less an overlap, imports each in a       *)
(* savepoint, and finally moves the cursor to the moment it began.         *)
(*                                                                         *)
(* Request r, the log it creates and the worker it spawns share the name   *)
(* r; job[r] is the log that worker r runs, which Sync All may have taken  *)
(* over from another request.  Sync All and the scheduler handle several   *)
(* accounts in one call: a spawn that fails for another account is a       *)
(* failure after this account's worker has started.                        *)
(***************************************************************************)
EXTENDS Naturals, Sequences, FiniteSets, FiniteSetsExt

CONSTANTS
    Request,    \* requests to sync, and the logs and workers they create
    Kinds,      \* their kinds, of "one", "all", "auto"
    Caps,       \* max_conversations of a "one" request, 0 for none
    NoLog,
    Conv,       \* the account's conversations
    Types,      \* EBAY_CONVERSATION_TYPES, in the order they are read
    TypeOf,     \* the type of each conversation
    Rank,       \* eBay's order of conversations of the same last activity
    PageSize,   \* limit (50)
    CommitEvery,\* conversations per intermediate commit (25)
    Overlap,    \* api.ebay_message_sync_overlap_minutes
    Delay,      \* a message is listed by eBay less than Delay after its date
    MaxTime,    \* bound of the clock
    MaxMessages,\* bound of the messages that exist
    MaxDeaths   \* bound of the processes killed

ASSUME KindAssumption == Kinds \subseteq {"one", "all", "auto"}
ASSUME LogAssumption == NoLog \notin Request
ASSUME CapAssumption == Caps \subseteq Nat
ASSUME ConvAssumption == IsFiniteSet(Conv)
ASSUME TypeAssumption ==
    /\ Types \in Seq({Types[i] : i \in DOMAIN Types})
    /\ TypeOf \in [Conv -> {Types[i] : i \in DOMAIN Types}]
ASSUME RankAssumption ==
    /\ Rank \in [Conv -> Nat]
    /\ \A c, d \in Conv : Rank[c] = Rank[d] => c = d
ASSUME SizeAssumption == PageSize \in Nat \ {0} /\ CommitEvery \in Nat \ {0}
ASSUME BoundAssumption ==
    MaxTime \in Nat \ {0} /\ MaxMessages \in Nat /\ MaxDeaths \in Nat
\* What the overlap is for: eBay lists no message later than it can bridge.
ASSUME OverlapAssumption == Overlap \in Nat \ {0} /\ Delay \in 0..Overlap

VARIABLES
    clock,      \* now
    visible,    \* messages eBay lists
    hidden,     \* messages sent that eBay does not list yet
    imported,   \* messages committed to the database
    cursor,     \* account.last_sync_at, 0 when it was never synced
    status,     \* account.sync_status
    log,        \* status of each sync log, "NONE" before it exists
    rowLock,    \* holder of the account's row lock
    kind,       \* the kind of each request
    step,       \* where each request stands
    job,        \* the log each request, then its worker, has in hand
    stage,      \* where each worker stands
    cap,        \* its max_conversations
    since,      \* its fetch_since
    checkpoint, \* its checkpoint_at
    scan,       \* its place in the list: type, offset, rest of the page, taken
    staged,     \* messages it has written and not committed
    failed,     \* it has skipped a conversation
    processed,  \* conversations_processed, modulo CommitEvery
    deaths      \* processes killed so far

ebayVars == <<clock, visible, hidden>>
requestVars == <<kind, step, job>>
planVars == <<cap, since, checkpoint>>
workVars == <<scan, failed, processed>>
vars == <<ebayVars, imported, cursor, status, log, rowLock, requestVars,
          stage, planVars, workVars, staged, deaths>>

Time == 1..MaxTime
Message == [conv : Conv, at : Time]
LogState == {"NONE", "RUNNING", "SUCCESS", "FAILED"}
AccountState == {"IDLE", "SYNCING", "SUCCESS", "FAILED"}
Step == {"idle", "locked", "vacant", "mark", "adopt", "spawn", "release",
         "overwrite", "releaseStatus", "done"}
Stage == {"none", "begin", "start", "abort", "scan", "offers", "finalize",
          "metadata", "failing", "failStatus", "done", "dead"}
Holder == {<<"free">>} \cup ({"api", "worker"} \X Request)
Scan == [type : 1..(Len(Types) + 1), offset : Nat, page : Seq(Conv), taken : Nat]

TypeOK ==
    /\ clock \in Time
    /\ visible \subseteq Message
    /\ hidden \subseteq Message
    /\ imported \subseteq Message
    /\ cursor \in 0..MaxTime
    /\ status \in AccountState
    /\ log \in [Request -> LogState]
    /\ rowLock \in Holder
    /\ kind \in [Request -> Kinds \cup {"none"}]
    /\ step \in [Request -> Step]
    /\ job \in [Request -> Request \cup {NoLog}]
    /\ stage \in [Request -> Stage]
    /\ cap \in [Request -> Nat]
    /\ since \in [Request -> 0..MaxTime]
    /\ checkpoint \in [Request -> 0..MaxTime]
    /\ scan \in [Request -> Scan]
    /\ staged \in [Request -> SUBSET Message]
    /\ failed \in [Request -> BOOLEAN]
    /\ processed \in [Request -> 0..(CommitEvery - 1)]
    /\ deaths \in 0..MaxDeaths

M_FetchSince(at) == at - Overlap  \* an account that was never synced is forgotten

Unlocked == rowLock = <<"free">>
Running == {l \in Request : log[l] = "RUNNING"}
MessagesOf(c) == {m \in visible : m.conv = c}
\* The date of the latest message eBay lists for a conversation.
LastActivity(c) == Max({m.at : m \in MessagesOf(c)})
\* fetch_since; a cursor of 0 or within the overlap excludes nothing.
FetchSince(at) == IF at > Overlap THEN at - Overlap ELSE 0

TopOfList == [type |-> 1, offset |-> 0, page |-> <<>>, taken |-> 0]
EndOfList(s) == s.page = <<>> /\ s.type > Len(Types)

Init ==
    /\ clock = 1 /\ visible = {} /\ hidden = {} /\ imported = {}
    /\ cursor = 0 /\ status = "IDLE" /\ rowLock = <<"free">>
    /\ log = [l \in Request |-> "NONE"]
    /\ kind = [r \in Request |-> "none"]
    /\ step = [r \in Request |-> "idle"]
    /\ job = [r \in Request |-> NoLog]
    /\ stage = [p \in Request |-> "none"]
    /\ cap = [p \in Request |-> 0]
    /\ since = [p \in Request |-> 0]
    /\ checkpoint = [p \in Request |-> 0]
    /\ scan = [p \in Request |-> TopOfList]
    /\ staged = [p \in Request |-> {}]
    /\ failed = [p \in Request |-> FALSE]
    /\ processed = [p \in Request |-> 0]
    /\ deaths = 0
-----------------------------------------------------------------------------
(* eBay and time. *)

Tick ==
    /\ clock < MaxTime
    /\ \A m \in hidden : clock + 1 < m.at + Delay
    /\ clock' = clock + 1
    /\ UNCHANGED <<visible, hidden, imported, cursor, status, log, rowLock,
                   requestVars, stage, planVars, workVars, staged, deaths>>

\* A message is sent in a conversation; eBay may list it at once or later.
MessageSent(c) ==
    LET m == [conv |-> c, at |-> clock] IN
    /\ Cardinality(visible \cup hidden) < MaxMessages
    /\ m \notin visible \cup hidden
    /\ \/ visible' = visible \cup {m} /\ UNCHANGED hidden
       \/ Delay > 0 /\ hidden' = hidden \cup {m} /\ UNCHANGED visible
    /\ UNCHANGED <<clock, imported, cursor, status, log, rowLock, requestVars,
                   stage, planVars, workVars, staged, deaths>>

MessageListed(m) ==
    /\ m \in hidden
    /\ hidden' = hidden \ {m}
    /\ visible' = visible \cup {m}
    /\ UNCHANGED <<clock, imported, cursor, status, log, rowLock, requestVars,
                   stage, planVars, workVars, staged, deaths>>

EbayNext ==
    \/ Tick
    \/ \E c \in Conv : MessageSent(c)
    \/ \E m \in hidden : MessageListed(m)
-----------------------------------------------------------------------------
(* Requests: queue_sync_account and its three callers. *)

requestFrame == <<ebayVars, imported, cursor, planVars, workVars, staged, deaths>>

\* queue_sync_account: SELECT ... FOR UPDATE of the account.
LockAccount(r, k) ==
    /\ step[r] = "idle" /\ Unlocked
    /\ kind' = [kind EXCEPT ![r] = k]
    /\ step' = [step EXCEPT ![r] = "locked"]
    /\ rowLock' = <<"api", r>>
    /\ UNCHANGED <<requestFrame, job, status, log, stage>>

M_CheckRunning(r) ==  \* the check for a running log is forgotten
    /\ step[r] = "locked"
    /\ step' = [step EXCEPT ![r] = "vacant"]
    /\ UNCHANGED <<requestFrame, rowLock, kind, job, status, log, stage>>

\* A running log refuses the reservation (409); Sync All then looks it up
\* after the rollback, the other callers give the account up.
CheckRunning(r) ==
    /\ step[r] = "locked"
    /\ IF Running = {}
       THEN step' = [step EXCEPT ![r] = "vacant"] /\ UNCHANGED rowLock
       ELSE /\ step' = [step EXCEPT ![r] =
                            IF kind[r] = "all" THEN "adopt" ELSE "done"]
            /\ rowLock' = <<"free">>
    /\ UNCHANGED <<requestFrame, kind, job, status, log, stage>>

\* start_sync commits the log, and with it ends the row lock.
Reserve(r) ==
    /\ step[r] = "vacant"
    /\ log' = [log EXCEPT ![r] = "RUNNING"]
    /\ job' = [job EXCEPT ![r] = r]
    /\ rowLock' = <<"free">>
    /\ step' = [step EXCEPT ![r] = "mark"]
    /\ UNCHANGED <<requestFrame, kind, status, stage>>

MarkSyncing(r) ==
    /\ step[r] = "mark" /\ Unlocked
    /\ status' = "SYNCING"
    /\ step' = [step EXCEPT ![r] = "spawn"]
    /\ UNCHANGED <<requestFrame, rowLock, kind, job, log, stage>>

\* Sync All hands a log that is already running to another worker.
AdoptRunning(r) ==
    /\ step[r] = "adopt"
    /\ \/ \E l \in Running : /\ job' = [job EXCEPT ![r] = l]
                             /\ step' = [step EXCEPT ![r] = "spawn"]
       \/ /\ Running = {}
          /\ step' = [step EXCEPT ![r] = "done"] /\ UNCHANGED job
    /\ UNCHANGED <<requestFrame, rowLock, kind, status, log, stage>>

Spawn(r) ==
    /\ step[r] = "spawn"
    /\ \E n \in IF kind[r] = "one" THEN Caps ELSE {0} : cap' = [cap EXCEPT ![r] = n]
    /\ stage' = [stage EXCEPT ![r] = "begin"]
    /\ step' = [step EXCEPT ![r] = "done"]
    /\ UNCHANGED <<ebayVars, imported, cursor, since, checkpoint, workVars, staged,
                   deaths, rowLock, kind, job, status, log>>

\* Sync All reserves account by account: when a later one raises (it was
\* deactivated meanwhile) the whole call ends and spawns nothing.
LoseReservation(r) ==
    /\ step[r] = "spawn" /\ kind[r] = "all"
    /\ step' = [step EXCEPT ![r] = "done"]
    /\ UNCHANGED <<requestFrame, rowLock, kind, job, status, log, stage>>

M_SpawnFails(r) ==  \* the single sync forgets its reservation as well
    /\ step[r] = "spawn"
    /\ step' = [step EXCEPT ![r] = IF kind[r] = "all" THEN "release" ELSE "done"]
    /\ \/ UNCHANGED stage
       \/ kind[r] # "one" /\ stage' = [stage EXCEPT ![r] = "begin"]
    /\ UNCHANGED <<requestFrame, rowLock, kind, job, status, log>>

\* Process creation fails, for this account or, in a call that serves many,
\* after this account's worker was started.  The scheduler lets it pass.
SpawnFails(r) ==
    /\ step[r] = "spawn"
    /\ step' = [step EXCEPT ![r] = IF kind[r] = "auto" THEN "done" ELSE "release"]
    /\ \/ UNCHANGED stage
       \/ kind[r] # "one" /\ stage' = [stage EXCEPT ![r] = "begin"]
    /\ UNCHANGED <<requestFrame, rowLock, kind, job, status, log>>

ReadReserved(r) ==
    /\ step[r] = "release"
    /\ step' = [step EXCEPT ![r] = IF log[job[r]] = "RUNNING" THEN "overwrite"
                                   ELSE "releaseStatus"]
    /\ UNCHANGED <<requestFrame, rowLock, kind, job, status, log, stage>>

ReleaseReserved(r) ==
    /\ step[r] = "overwrite"
    /\ log' = [log EXCEPT ![job[r]] = "FAILED"]
    /\ step' = [step EXCEPT ![r] = "releaseStatus"]
    /\ UNCHANGED <<requestFrame, rowLock, kind, job, status, stage>>

ReleaseAccount(r) ==
    /\ step[r] = "releaseStatus" /\ Unlocked
    /\ status' = "FAILED"
    /\ step' = [step EXCEPT ![r] = "done"]
    /\ UNCHANGED <<requestFrame, rowLock, kind, job, log, stage>>

RequestStep(r) ==
    \/ CheckRunning(r) \/ Reserve(r) \/ MarkSyncing(r) \/ AdoptRunning(r)
    \/ LoseReservation(r) \/ Spawn(r) \/ SpawnFails(r)
    \/ ReadReserved(r) \/ ReleaseReserved(r) \/ ReleaseAccount(r)
-----------------------------------------------------------------------------
(* The worker process: _run_sync_process and sync_account. *)

\* The account is read FOR UPDATE, but reading the overlap setting commits,
\* so the row lock ends with this step.
ReadAccount(p) ==
    /\ stage[p] = "begin" /\ Unlocked
    /\ since' = [since EXCEPT ![p] = FetchSince(cursor)]
    /\ checkpoint' = [checkpoint EXCEPT ![p] = clock]
    /\ stage' = [stage EXCEPT ![p] = "start"]
    /\ UNCHANGED <<ebayVars, imported, cursor, status, log, rowLock, requestVars,
                   cap, workVars, staged, deaths>>

workerFrame == <<ebayVars, requestVars, planVars, deaths>>

\* _start_sync_log: a log that is not running any more is refused (409).
StartLog(p) ==
    /\ stage[p] = "start"
    /\ stage' = [stage EXCEPT ![p] = IF log[job[p]] = "RUNNING" THEN "scan" ELSE "abort"]
    /\ UNCHANGED <<workerFrame, imported, cursor, status, log, rowLock, workVars, staged>>

\* _run_sync_process when sync_account raises before its own handler: the
\* account is not syncable, or the log was refused.
Abort(p) ==
    /\ stage[p] \in {"begin", "abort"}
    /\ log' = [log EXCEPT ![job[p]] = IF @ = "RUNNING" THEN "FAILED" ELSE @]
    /\ stage' = [stage EXCEPT ![p] = "failStatus"]
    /\ UNCHANGED <<workerFrame, imported, cursor, status, rowLock, workVars, staged>>

\* eBay lists the conversations of a type by their last activity, newest first.
Listed(t) == {c \in Conv : TypeOf[c] = t /\ MessagesOf(c) # {}}
Before(c, d) ==
    \/ LastActivity(c) > LastActivity(d)
    \/ LastActivity(c) = LastActivity(d) /\ Rank[c] < Rank[d]
Place(c) == Cardinality({d \in Listed(TypeOf[c]) : Before(d, c)}) + 1
Listing(t) ==
    [i \in 1..Cardinality(Listed(t)) |-> CHOOSE c \in Listed(t) : Place(c) = i]

\* The conversations that are not too old come first in the list.
Recent(t, from) == Cardinality({c \in Listed(t) : LastActivity(c) > from})
\* What one page of the list yields.
Fresh(t, offset, from) ==
    SubSeq(Listing(t), offset + 1, Min({offset + PageSize, Recent(t, from)}))

M_AfterPage(s, from) ==  \* no second page of a type is read
    [s EXCEPT !.page = Fresh(Types[s.type], s.offset, from),
              !.type = @ + 1, !.offset = 0]

\* Where the listing of one page leads: the conversations it yields, and the
\* page or type to ask for next.
AfterPage(s, from) ==
    LET fresh == Fresh(Types[s.type], s.offset, from)
        over == \/ fresh = <<>>
                \/ s.offset + PageSize >= Cardinality(Listed(Types[s.type]))
    IN  [s EXCEPT !.page = fresh,
                  !.type = IF over THEN @ + 1 ELSE @,
                  !.offset = IF over THEN 0 ELSE @ + PageSize]

\* A call that met a 401 refreshes the token, which commits the session.
FetchPage(p) ==
    /\ stage[p] = "scan"
    /\ scan[p].page = <<>> /\ scan[p].type <= Len(Types)
    /\ scan' = [scan EXCEPT ![p] = AfterPage(@, since[p])]
    /\ \E refreshed \in BOOLEAN :
           /\ imported' = IF refreshed THEN imported \cup staged[p] ELSE imported
           /\ staged' = IF refreshed THEN [staged EXCEPT ![p] = {}] ELSE staged
    /\ UNCHANGED <<workerFrame, cursor, status, log, rowLock, stage, failed, processed>>

\* The generator goes on to the next summary, or returns at the cap.
Advance(p) ==
    LET s == scan[p]
        next == IF cap[p] # 0 /\ s.taken + 1 >= cap[p]
                THEN [s EXCEPT !.page = <<>>, !.type = Len(Types) + 1]
                ELSE [s EXCEPT !.page = Tail(@), !.taken = IF cap[p] = 0 THEN 0 ELSE @ + 1]
    IN  scan' = [scan EXCEPT ![p] = next]

\* Every message of the conversation is read and written; a conversation that
\* another worker has written and not committed makes the upsert wait.
ImportConversation(p) ==
    /\ stage[p] = "scan" /\ scan[p].page # <<>>
    /\ \A q \in Request \ {p} : \A m \in staged[q] : m.conv # Head(scan[p].page)
    /\ \E refreshed \in BOOLEAN :
       LET early == IF refreshed THEN staged[p] ELSE {}
           open == (staged[p] \ early) \cup MessagesOf(Head(scan[p].page))
           count == (processed[p] + 1) % CommitEvery
           late == IF count = 0 THEN open ELSE {}
       IN  /\ imported' = imported \cup early \cup late
           /\ staged' = [staged EXCEPT ![p] = open \ late]
           /\ processed' = [processed EXCEPT ![p] = count]
    /\ Advance(p)
    /\ UNCHANGED <<workerFrame, cursor, status, log, rowLock, stage, failed>>

\* The detail call is refused or the upsert fails.  The savepoint undoes this
\* conversation only, unless the offer resolver rolled the session back.
SkipConversation(p) ==
    /\ stage[p] = "scan" /\ scan[p].page # <<>>
    /\ failed' = [failed EXCEPT ![p] = TRUE]
    /\ \/ UNCHANGED <<imported, staged>>
       \/ UNCHANGED imported /\ staged' = [staged EXCEPT ![p] = {}]
       \/ imported' = imported \cup staged[p] /\ staged' = [staged EXCEPT ![p] = {}]
    /\ Advance(p)
    /\ UNCHANGED <<workerFrame, cursor, status, log, rowLock, stage, processed>>

\* A call raises: the listing is refused, the quota is used up, no token.
ScanFails(p) ==
    /\ stage[p] = "scan"
    /\ stage' = [stage EXCEPT ![p] = "failing"]
    /\ UNCHANGED <<workerFrame, imported, cursor, status, log, rowLock, workVars, staged>>

\* End of the list: skipped conversations fail the sync.  Otherwise the order
\* sync follows; when it succeeds its new cursor is flushed to the account row.
SyncOrders(p) ==
    /\ stage[p] = "scan" /\ EndOfList(scan[p])
    /\ \/ /\ failed[p]
          /\ stage' = [stage EXCEPT ![p] = "failing"] /\ UNCHANGED rowLock
       \/ /\ ~failed[p]
          /\ stage' = [stage EXCEPT ![p] = "offers"]
          /\ \/ UNCHANGED rowLock
             \/ Unlocked /\ rowLock' = <<"worker", p>>
    /\ UNCHANGED <<workerFrame, imported, cursor, status, log, workVars, staged>>

WithoutRow(p) == IF rowLock = <<"worker", p>> THEN <<"free">> ELSE rowLock

\* The offer sync of the touched listings; a token refresh commits, an error
\* fails the message sync.
SyncOffers(p) ==
    /\ stage[p] = "offers"
    /\ \E next \in {"finalize", "failing"} : stage' = [stage EXCEPT ![p] = next]
    /\ \/ UNCHANGED <<imported, staged, rowLock>>
       \/ /\ imported' = imported \cup staged[p]
          /\ staged' = [staged EXCEPT ![p] = {}]
          /\ rowLock' = WithoutRow(p)
    /\ UNCHANGED <<workerFrame, cursor, status, log, workVars>>

\* _finalize_sync up to the commit in complete_sync.
Finalize(p) ==
    /\ stage[p] = "finalize" /\ rowLock \in {<<"free">>, <<"worker", p>>}
    /\ cursor' = checkpoint[p]
    /\ status' = "SUCCESS"
    /\ log' = [log EXCEPT ![job[p]] = "SUCCESS"]
    /\ imported' = imported \cup staged[p]
    /\ staged' = [staged EXCEPT ![p] = {}]
    /\ rowLock' = <<"free">>
    /\ stage' = [stage EXCEPT ![p] = "metadata"]
    /\ UNCHANGED <<workerFrame, workVars>>

\* Its second commit, of the log's metadata; an error there is still handled
\* as a failed sync.
RecordMetadata(p) ==
    /\ stage[p] = "metadata"
    /\ \E next \in {"done", "failing"} : stage' = [stage EXCEPT ![p] = next]
    /\ UNCHANGED <<workerFrame, imported, cursor, status, log, rowLock, workVars, staged>>

\* _handle_sync_failure: roll back, fail_sync, then the account's status.
HandleFailure(p) ==
    /\ stage[p] = "failing"
    /\ staged' = [staged EXCEPT ![p] = {}]
    /\ rowLock' = WithoutRow(p)
    /\ log' = [log EXCEPT ![job[p]] = "FAILED"]
    /\ stage' = [stage EXCEPT ![p] = "failStatus"]
    /\ UNCHANGED <<workerFrame, imported, cursor, status, workVars>>

RecordFailure(p) ==
    /\ stage[p] = "failStatus" /\ Unlocked
    /\ status' = "FAILED"
    /\ stage' = [stage EXCEPT ![p] = "done"]
    /\ UNCHANGED <<workerFrame, imported, cursor, log, rowLock, workVars, staged>>

WorkerStep(p) ==
    \/ ReadAccount(p) \/ StartLog(p) \/ Abort(p)
    \/ FetchPage(p) \/ ImportConversation(p) \/ SkipConversation(p) \/ ScanFails(p)
    \/ SyncOrders(p) \/ SyncOffers(p) \/ Finalize(p) \/ RecordMetadata(p)
    \/ HandleFailure(p) \/ RecordFailure(p)
-----------------------------------------------------------------------------
(* Processes killed.  Nothing looks for the logs they leave. *)

WorkerDies(p) ==
    /\ deaths < MaxDeaths /\ stage[p] \notin {"none", "done", "dead"}
    /\ deaths' = deaths + 1
    /\ stage' = [stage EXCEPT ![p] = "dead"]
    /\ staged' = [staged EXCEPT ![p] = {}]
    /\ rowLock' = WithoutRow(p)
    /\ UNCHANGED <<ebayVars, requestVars, planVars, imported, cursor, status, log, workVars>>

RequestDies(r) ==
    /\ deaths < MaxDeaths /\ step[r] \notin {"idle", "done"}
    /\ deaths' = deaths + 1
    /\ step' = [step EXCEPT ![r] = "done"]
    /\ rowLock' = IF rowLock = <<"api", r>> THEN <<"free">> ELSE rowLock
    /\ UNCHANGED <<ebayVars, kind, job, planVars, imported, cursor, status, log,
                   stage, workVars, staged>>

DeathStep(r) == WorkerDies(r) \/ RequestDies(r)

Next ==
    \/ EbayNext
    \/ \E r \in Request : \/ \E k \in Kinds : LockAccount(r, k)
                          \/ RequestStep(r) \/ WorkerStep(r) \/ DeathStep(r)

Spec == Init /\ [][Next]_vars

\* A request in progress and a worker process that is not killed go on.
FairSpec ==
    /\ Spec
    /\ \A r \in Request : WF_vars(RequestStep(r)) /\ WF_vars(WorkerStep(r))
-----------------------------------------------------------------------------
(* Properties. *)

\* No message is lost: a listed message that is not in the database is in a
\* conversation the next sync will read, whatever failed, died, was rolled
\* back, moved in the list or was listed late before the cursor moved.
NothingLost ==
    \A m \in visible \ imported : LastActivity(m.conv) > FetchSince(cursor)

ImportStage == {"scan", "offers", "finalize"}
Importing == {p \in Request : stage[p] \in ImportStage}

\* "The account row is locked while checking for another RUNNING sync,
\* preventing double-clicks and overlapping scheduler ticks": no two workers
\* import the account's messages at a time.
OneImporter == \A p, q \in Importing : p = q

\* The cursor, which later syncs trust, never moves back to an older moment.
CursorMonotone == [][cursor' >= cursor]_cursor

\* The importers of an account take turns, each from where the last one ended.
InOrder == [][OneImporter']_vars /\ CursorMonotone

\* Every log that a single sync reserves is released: finished or failed, never
\* RUNNING for ever ("the account cannot remain stuck in SYNCING/RUNNING
\* forever"), also when a Sync All finds it running and puts a second worker on
\* it.  The logs of a Sync All or of the scheduler are not: no handler releases
\* them when a later account raises or the spawn fails.
LogReleased == \A l \in Request : log[l] = "RUNNING" /\ kind[l] = "one" ~> log[l] # "RUNNING"
=============================================================================
