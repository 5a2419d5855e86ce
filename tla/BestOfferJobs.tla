--------------------------- MODULE BestOfferJobs ---------------------------
(***************************************************************************)
(* The Best Offer synchronisation jobs of the backend: how a batch is      *)
(* reserved in PostgreSQL, handed to a spawned worker process, executed    *)
(* account by account, cancelled, reclaimed after a crash and wound up at  *)
(* shutdown (services/ebay_best_offer_job_service.py,                      *)
(* ebay_best_offer_worker.py, ebay_best_offer_lock.py and                  *)
(* ebay_best_offer_auto_sync_service.py).                                  *)
(*                                                                         *)
(* Every action is one step between two points where another process can   *)
(* see or change the database: a committed transaction, a read whose value *)
(* is used later, the taking or freeing of an advisory lock.               *)
(***************************************************************************)
EXTENDS Naturals, FiniteSets

CONSTANTS Account,      \* eBay accounts
          Batch,        \* identities a reservation can give to a batch (bounds their number)
          Caller,       \* threads of the API process that call reserve()
          Scheduler,    \* the one of them that is the auto-sync loop
          NoBatch,      \* "no batch": no lock holder, nothing seen
          MaxCrashes    \* bound on crashes of the API process

ASSUME SchedulerAssumption == Scheduler \in Caller
ASSUME NoBatchAssumption == NoBatch \notin Batch \cup Caller
ASSUME DisjointAssumption == Batch \cap Caller = {}
ASSUME MaxCrashesAssumption == MaxCrashes \in Nat

VARIABLES
  batch,      \* SyncLog.status of each batch; "NONE": no row yet
  job,        \* SyncLog.status of the job of a batch for an account
  trigger,    \* sync_metadata.trigger of a batch
  cancelled,  \* sync_metadata.cancel_requested of a batch
  aged,       \* the batches whose started_at is over two minutes old
  enabled,    \* offer.best_offer_enabled
  api,        \* the API process: "up", "stopping", "down"
  crashes,    \* crashes of the API process so far
  caller,     \* where each caller of reserve() and dispatch() is
  seen,       \* the active batch a caller's recover_abandoned() has read
  mine,       \* the batch a caller has reserved and is to dispatch
  children,   \* _workers: the batches whose process this API process supervises
  stopped,    \* the batches whose stop_event is set
  orphans,    \* the batches whose worker has lost its parent process
  execLock,   \* holder of the 'batch-execution' advisory lock: a worker, or a
              \* caller whose transaction reclaims a batch
  worker,     \* where the process of each batch is
  todo,       \* accounts whose job the worker has not reached
  current,    \* the account whose job the worker has claimed (a set of at most one)
  saved,      \* cancel_requested in the worker's copy of sync_metadata
  failed      \* run_batch's local `failed`

dbVars     == <<batch, job, trigger, cancelled, aged, enabled>>
apiVars    == <<api, crashes, caller, seen, mine, children, stopped>>
workerVars == <<orphans, execLock, worker, todo, current, saved, failed>>
vars       == <<dbVars, apiVars, workerVars>>

Active   == {"PENDING", "RUNNING"}
Terminal == {"SUCCESS", "FAILED"}
Status   == {"NONE"} \cup Active \cup Terminal

(* Where a worker process is in run_batch(). Locked: inside                *)
(* account_operation_lock('batch-execution'). Owning: the batch is claimed *)
(* and not yet given its final status. Busy: a job is claimed.             *)
Busy   == {"syncing", "calling"}
Owning == Busy \cup {"opened", "opening", "next", "heartbeat", "beating"}
Locked == Owning \cup {"claim", "releasing"}
Alive  == Locked \cup {"start", "handler"}
Place  == Alive \cup {"none", "exited", "terminated"}

TypeOK ==
  /\ batch \in [Batch -> Status]
  /\ job \in [Batch -> [Account -> Status]]
  /\ trigger \in [Batch -> {"auto", "manual"}]
  /\ cancelled \in [Batch -> BOOLEAN]
  /\ aged \subseteq Batch
  /\ enabled \in BOOLEAN
  /\ api \in {"up", "stopping", "down"}
  /\ crashes \in 0 .. MaxCrashes
  /\ caller \in [Caller -> {"idle", "reserving", "creating", "dispatching"}]
  /\ seen \in [Caller -> Batch \cup {NoBatch}]
  /\ mine \in [Caller -> Batch \cup {NoBatch}]
  /\ children \subseteq Batch
  /\ stopped \subseteq Batch
  /\ orphans \subseteq Batch
  /\ execLock \in Batch \cup Caller \cup {NoBatch}
  /\ worker \in [Batch -> Place]
  /\ todo \in [Batch -> SUBSET Account]
  /\ current \in [Batch -> SUBSET Account]
  /\ saved \in [Batch -> BOOLEAN]
  /\ failed \in [Batch -> BOOLEAN]

Init ==
  /\ batch = [b \in Batch |-> "NONE"]
  /\ job = [b \in Batch |-> [a \in Account |-> "NONE"]]
  /\ trigger = [b \in Batch |-> "manual"]
  /\ cancelled = [b \in Batch |-> FALSE]
  /\ aged = {}
  /\ enabled \in BOOLEAN
  /\ api = "up"
  /\ crashes = 0
  /\ caller = [c \in Caller |-> "idle"]
  /\ seen = [c \in Caller |-> NoBatch]
  /\ mine = [c \in Caller |-> NoBatch]
  /\ children = {}
  /\ stopped = {}
  /\ orphans = {}
  /\ execLock = NoBatch
  /\ worker = [b \in Batch |-> "none"]
  /\ todo = [b \in Batch |-> {}]
  /\ current = [b \in Batch |-> {}]
  /\ saved = [b \in Batch |-> FALSE]
  /\ failed = [b \in Batch |-> FALSE]

-----------------------------------------------------------------------------
(* reserve(): one caller at a time, under pg_advisory_xact_lock.           *)

(* Mutants below (M_...) are the bugs the properties are checked to catch; *)
(* no action uses them.                                                    *)
M_NoReservationLock == TRUE
ReservationFree == \A c \in Caller : caller[c] \notin {"reserving", "creating"}

M_NewStatus(s) == IF s \in Active THEN "ABANDONED" ELSE s
FailActive(s) == IF s \in Active THEN "FAILED" ELSE s

(* UPDATE ... SET status = FAILED on jobs that are PENDING or RUNNING.     *)
M_FailAllJobs(b) == [job EXCEPT ![b] = [a \in Account |-> "FAILED"]]
FailActiveJobs(b) == [job EXCEPT ![b] = [a \in Account |-> FailActive(job[b][a])]]

(* recover_abandoned() reads the active batch and goes on when it is old.  *)
M_OldRunning(b) == b \in aged /\ batch[b] = "RUNNING"
Abandonable(b) == b \in aged /\ batch[b] \in Active

(* reserve() takes the reservation lock; the row recover_abandoned() holds *)
(* from here on is what it reads now.                                      *)
ReserveBegin(c) ==
  /\ api = "up"
  /\ caller[c] = "idle"
  /\ ReservationFree
  /\ \/ \E b \in Batch : Abandonable(b) /\ seen' = [seen EXCEPT ![c] = b]
     \/ (\A b \in Batch : ~Abandonable(b)) /\ seen' = [seen EXCEPT ![c] = NoBatch]
  /\ caller' = [caller EXCEPT ![c] = "reserving"]
  /\ UNCHANGED <<dbVars, api, crashes, mine, children, stopped, workerVars>>

(* It reclaims that batch when no worker holds the execution lock. The row *)
(* of the batch is not read again, those of its jobs are.                  *)
M_IgnoreLiveWorker(c) == seen[c] # NoBatch
Reclaims(c) == seen[c] # NoBatch /\ execLock \in {NoBatch, c}

RecoveredBatch(c) ==
  IF Reclaims(c) THEN [batch EXCEPT ![seen[c]] = "FAILED"] ELSE batch
M_BatchOnly(c) == job
RecoveredJob(c) ==
  IF Reclaims(c) THEN FailActiveJobs(seen[c]) ELSE job

NoneActive(bs) == \A b \in Batch : bs[b] \notin Active

Leave(c) == /\ caller' = [caller EXCEPT ![c] = "idle"]
            /\ seen' = [seen EXCEPT ![c] = NoBatch]

Unlock(h) == execLock' = IF execLock = h THEN NoBatch ELSE execLock

(* The returns that commit without a new batch: already_running, stopped,  *)
(* not_due, no_accounts. The clock, the selection and the accounts' state  *)
(* are inputs, so one of them is always possible.                          *)
ReserveNothing(c) ==
  /\ caller[c] \in {"reserving", "creating"}
  /\ Leave(c)
  /\ Unlock(c)
  /\ batch' = RecoveredBatch(c)
  /\ job' = RecoveredJob(c)
  /\ UNCHANGED <<trigger, cancelled, aged, enabled, api, crashes, mine, children,
                 stopped, orphans, worker, todo, current, saved, failed>>

(* No batch is active in the transaction's view: the reservation goes on,  *)
(* holding the execution lock if it has reclaimed.                         *)
ReserveCheck(c) ==
  /\ caller[c] = "reserving"
  /\ NoneActive(RecoveredBatch(c))
  /\ c = Scheduler => enabled
  /\ caller' = [caller EXCEPT ![c] = "creating"]
  /\ \/ Reclaims(c) /\ execLock' = c /\ UNCHANGED seen
     \/ ~Reclaims(c) /\ seen' = [seen EXCEPT ![c] = NoBatch] /\ UNCHANGED execLock
  /\ UNCHANGED <<dbVars, api, crashes, mine, children, stopped,
                 orphans, worker, todo, current, saved, failed>>

(* A manual request that names an account that is not active and connected *)
(* raises 422 before the commit: what was reclaimed is rolled back.        *)
ReserveRejected(c) ==
  /\ caller[c] = "creating" /\ c # Scheduler
  /\ Leave(c)
  /\ Unlock(c)
  /\ UNCHANGED <<dbVars, api, crashes, mine, children, stopped,
                 orphans, worker, todo, current, saved, failed>>

(* One PENDING job per chosen account that has none, and the PENDING batch *)
(* that lists them, in one commit; dispatch() follows in the same thread.  *)
ReserveCreate(c) ==
  /\ caller[c] = "creating"
  /\ \E b \in Batch, chosen \in SUBSET Account :
       LET accounts == {a \in chosen : \A o \in Batch : RecoveredJob(c)[o][a] \notin Active}
       IN /\ batch[b] = "NONE"
          /\ accounts # {}
          /\ batch' = [RecoveredBatch(c) EXCEPT ![b] = "PENDING"]
          /\ job' = [RecoveredJob(c) EXCEPT ![b] =
                       [a \in Account |-> IF a \in accounts THEN "PENDING" ELSE "NONE"]]
          /\ trigger' = [trigger EXCEPT ![b] = IF c = Scheduler THEN "auto" ELSE "manual"]
          /\ mine' = [mine EXCEPT ![c] = b]
  /\ caller' = [caller EXCEPT ![c] = "dispatching"]
  /\ seen' = [seen EXCEPT ![c] = NoBatch]
  /\ Unlock(c)
  /\ UNCHANGED <<cancelled, aged, enabled, api, crashes, children, stopped,
                 orphans, worker, todo, current, saved, failed>>

-----------------------------------------------------------------------------
(* dispatch(): forget children that are gone, start the process of the new *)
(* batch; when it cannot be started, fail what is still PENDING.           *)

Dispatched(c) == /\ caller' = [caller EXCEPT ![c] = "idle"]
                 /\ mine' = [mine EXCEPT ![c] = NoBatch]

LiveChildren == {b \in children : worker[b] \in Alive}

Spawn(c) ==
  /\ caller[c] = "dispatching"
  /\ Dispatched(c)
  /\ worker' = [worker EXCEPT ![mine[c]] = "start"]
  /\ children' = LiveChildren \cup {mine[c]}
  /\ UNCHANGED <<dbVars, api, crashes, seen, stopped,
                 orphans, execLock, todo, current, saved, failed>>

FailPending(s) == IF s = "PENDING" THEN "FAILED" ELSE s

SpawnFails(c) ==
  /\ caller[c] = "dispatching"
  /\ Dispatched(c)
  /\ batch' = [batch EXCEPT ![mine[c]] = FailPending(@)]
  /\ job' = [job EXCEPT ![mine[c]] = [a \in Account |-> FailPending(@[a])]]
  /\ children' = LiveChildren
  /\ UNCHANGED <<trigger, cancelled, aged, enabled, api, crashes, seen, stopped, workerVars>>

-----------------------------------------------------------------------------
(* run_batch(), one process per batch.                                     *)

Goto(b, place) == worker' = [worker EXCEPT ![b] = place]

(* run_batch's local variables are gone with its last use of them.         *)
Forget(b) == /\ todo' = [todo EXCEPT ![b] = {}]
             /\ current' = [current EXCEPT ![b] = {}]
             /\ saved' = [saved EXCEPT ![b] = FALSE]
             /\ failed' = [failed EXCEPT ![b] = FALSE]

(* pg_try_advisory_lock; 409 when another worker has it, and then run_batch *)
(* returns without touching the batch or its jobs.                         *)
TakeLock(b) ==
  /\ worker[b] = "start"
  /\ \/ execLock = NoBatch /\ execLock' = b /\ Goto(b, "claim")
     \/ execLock # NoBatch /\ execLock' = execLock /\ Goto(b, "exited")
  /\ UNCHANGED <<dbVars, apiVars, orphans, todo, current, saved, failed>>

(* claim(): compare-and-set of PENDING to RUNNING. The token it compares   *)
(* also is the one the reservation gave both sides.                        *)
ClaimBatch(b) ==
  /\ worker[b] = "claim"
  /\ \/ batch[b] = "PENDING" /\ batch' = [batch EXCEPT ![b] = "RUNNING"] /\ Goto(b, "opened")
     \/ batch[b] # "PENDING" /\ batch' = batch /\ Goto(b, "releasing")
  /\ UNCHANGED <<job, trigger, cancelled, aged, enabled, apiVars,
                 orphans, execLock, todo, current, saved, failed>>

(* The metadata of the batch is read, ...                                  *)
OpenBatch(b) ==
  /\ worker[b] = "opened"
  /\ saved' = [saved EXCEPT ![b] = cancelled[b]]
  /\ todo' = [todo EXCEPT ![b] = {a \in Account : job[b][a] # "NONE"}]
  /\ Goto(b, "opening")
  /\ UNCHANGED <<dbVars, apiVars, orphans, execLock, current, failed>>

(* ... and written back whole with pid, host and heartbeat.                *)
WriteMetadata(b, from) ==
  /\ worker[b] = from
  /\ cancelled' = [cancelled EXCEPT ![b] = saved[b]]
  /\ saved' = [saved EXCEPT ![b] = FALSE]
  /\ Goto(b, "next")
  /\ UNCHANGED <<batch, job, trigger, aged, enabled, apiVars,
                 orphans, execLock, todo, current, failed>>

StartBatch(b) == WriteMetadata(b, "opening")

(* The next job: claimed, or skipped when it is no longer PENDING.         *)
ClaimJob(b) ==
  /\ worker[b] = "next"
  /\ \E a \in todo[b] :
       /\ todo' = [todo EXCEPT ![b] = @ \ {a}]
       /\ \/ /\ job[b][a] = "PENDING"
             /\ job' = [job EXCEPT ![b][a] = "RUNNING"]
             /\ current' = [current EXCEPT ![b] = {a}]
             /\ Goto(b, "syncing")
          \/ job[b][a] # "PENDING" /\ UNCHANGED <<job, current, worker>>
  /\ UNCHANGED <<batch, trigger, cancelled, aged, enabled, apiVars,
                 orphans, execLock, saved, failed>>

(* should_stop(), asked before every provider request.                     *)
ShouldStop(b) == \/ b \in stopped \/ b \in orphans \/ cancelled[b]
                 \/ trigger[b] = "auto" /\ ~enabled

Request(b) ==
  /\ worker[b] = "syncing"
  /\ ~ShouldStop(b)
  /\ Goto(b, "calling")
  /\ UNCHANGED <<dbVars, apiVars, orphans, execLock, todo, current, saved, failed>>

(* The job gets its outcome in one commit.                                 *)
FinishJob(b, outcome) ==
  /\ job' = [job EXCEPT ![b] = [a \in Account |-> IF a \in current[b] THEN outcome ELSE @[a]]]
  /\ failed' = [failed EXCEPT ![b] = @ \/ outcome = "FAILED"]
  /\ current' = [current EXCEPT ![b] = {}]
  /\ Goto(b, "heartbeat")
  /\ UNCHANGED <<batch, trigger, cancelled, aged, enabled, apiVars,
                 orphans, execLock, todo, saved>>

(* sync_current() stops, or raises before a request: the account is gone,  *)
(* its lock is taken (409), its token cannot be refreshed, no quota left.  *)
StopJob(b) == worker[b] = "syncing" /\ FinishJob(b, "FAILED")

(* A request is answered: another page or listing follows, ...             *)
NextRequest(b) ==
  /\ worker[b] = "calling"
  /\ Goto(b, "syncing")
  /\ UNCHANGED <<dbVars, apiVars, orphans, execLock, todo, current, saved, failed>>

(* ... or the account is done: SUCCESS, PARTIAL or an exception.           *)
FinishAccount(b) ==
  worker[b] = "calling" /\ \E outcome \in Terminal : FinishJob(b, outcome)

(* The heartbeat reads the metadata (expire_all, get) and writes it back.  *)
ReadHeartbeat(b) ==
  /\ worker[b] = "heartbeat"
  /\ saved' = [saved EXCEPT ![b] = cancelled[b]]
  /\ Goto(b, "beating")
  /\ UNCHANGED <<dbVars, apiVars, orphans, execLock, todo, current, failed>>

WriteHeartbeat(b) == WriteMetadata(b, "beating")

FinishBatch(b) ==
  /\ worker[b] = "next" /\ todo[b] = {}
  /\ batch' = [batch EXCEPT ![b] = IF failed[b] THEN "FAILED" ELSE "SUCCESS"]
  /\ Goto(b, "releasing")
  /\ Forget(b)
  /\ UNCHANGED <<job, trigger, cancelled, aged, enabled, apiVars, orphans, execLock>>

Release(b) ==
  /\ worker[b] = "releasing"
  /\ Unlock(b)
  /\ Goto(b, "exited")
  /\ UNCHANGED <<dbVars, apiVars, orphans, todo, current, saved, failed>>

(* Any other exception (the database is gone, a commit fails): the lock is *)
(* freed on the way out and the handler fails what is still active.        *)
Raise(b) ==
  /\ worker[b] \in Locked \cup {"start"}
  /\ Unlock(b)
  /\ Goto(b, "handler")
  /\ Forget(b)
  /\ UNCHANGED <<dbVars, apiVars, orphans>>

Handle(b) ==
  /\ worker[b] = "handler"
  /\ \/ /\ batch[b] \in Active
        /\ batch' = [batch EXCEPT ![b] = "FAILED"]
        /\ job' = FailActiveJobs(b)
     \/ batch[b] \notin Active /\ UNCHANGED <<batch, job>>
  /\ Goto(b, "exited")
  /\ UNCHANGED <<trigger, cancelled, aged, enabled, apiVars,
                 orphans, execLock, todo, current, saved, failed>>

(* The process is killed; PostgreSQL frees the lock of its connection.     *)
Crash(b) ==
  /\ worker[b] \in Alive
  /\ Unlock(b)
  /\ Goto(b, "exited")
  /\ Forget(b)
  /\ UNCHANGED <<dbVars, apiVars, orphans>>

-----------------------------------------------------------------------------
(* The users' other requests, and time.                                    *)

(* cancel(): SELECT ... FOR UPDATE, then the flag, while the batch is active.*)
Cancel(b) ==
  /\ api = "up" /\ batch[b] \in Active
  /\ cancelled' = [cancelled EXCEPT ![b] = TRUE]
  /\ UNCHANGED <<batch, job, trigger, aged, enabled, apiVars, workerVars>>

SetEnabled ==
  /\ api = "up"
  /\ enabled' = ~enabled
  /\ UNCHANGED <<batch, job, trigger, cancelled, aged, apiVars, workerVars>>

(* Two minutes pass after started_at.                                      *)
Age(b) ==
  /\ batch[b] \in Active /\ b \notin aged
  /\ aged' = aged \cup {b}
  /\ UNCHANGED <<batch, job, trigger, cancelled, enabled, apiVars, workerVars>>

-----------------------------------------------------------------------------
(* The API process: shutdown_workers() when it stops, and crashes.         *)

(* The lifespan ends when the requests are served and the loop's check is  *)
(* over; every supervised worker's stop event is set.                      *)
ShutdownBegin ==
  /\ api = "up"
  /\ \A c \in Caller : caller[c] = "idle"
  /\ api' = "stopping"
  /\ stopped' = stopped \cup children
  /\ UNCHANGED <<dbVars, crashes, caller, seen, mine, children, workerVars>>

(* join(timeout=75): the child has ended by itself, ...                   *)
Joined(b) ==
  /\ api = "stopping" /\ b \in children
  /\ worker[b] = "exited"
  /\ children' = children \ {b}
  /\ stopped' = stopped \ {b}
  /\ UNCHANGED <<dbVars, api, crashes, caller, seen, mine, workerVars>>

(* ... or it is terminated, and a transaction that follows marks its rows. *)
Terminate(b) ==
  /\ api = "stopping" /\ b \in children
  /\ worker[b] \in Alive
  /\ Unlock(b)
  /\ Goto(b, "terminated")
  /\ Forget(b)
  /\ UNCHANGED <<dbVars, apiVars, orphans>>

MarkTerminated(b) ==
  /\ api = "stopping" /\ b \in children
  /\ worker[b] = "terminated"
  /\ batch' = [batch EXCEPT ![b] = FailActive(@)]
  /\ job' = FailActiveJobs(b)
  /\ children' = children \ {b}
  /\ stopped' = stopped \ {b}
  /\ UNCHANGED <<trigger, cancelled, aged, enabled, api, crashes, caller, seen, mine,
                 workerVars>>

ShutdownEnd ==
  /\ api = "stopping" /\ children = {}
  /\ api' = "down"
  /\ UNCHANGED <<dbVars, crashes, caller, seen, mine, children, stopped, workerVars>>

(* The API process is killed: its open transactions roll back, what it was *)
(* about to dispatch is forgotten, its workers live on without a parent.   *)
ApiCrash ==
  /\ api # "down" /\ crashes < MaxCrashes
  /\ crashes' = crashes + 1
  /\ api' = "down"
  /\ caller' = [c \in Caller |-> "idle"]
  /\ seen' = [c \in Caller |-> NoBatch]
  /\ mine' = [c \in Caller |-> NoBatch]
  /\ children' = {}
  /\ orphans' = orphans \cup LiveChildren
  /\ execLock' = IF execLock \in Caller THEN NoBatch ELSE execLock
  /\ UNCHANGED <<dbVars, stopped, worker, todo, current, saved, failed>>

ApiStart ==
  /\ api = "down"
  /\ api' = "up"
  /\ UNCHANGED <<dbVars, crashes, caller, seen, mine, children, stopped, workerVars>>

-----------------------------------------------------------------------------
Reserve(c) == ReserveCheck(c) \/ ReserveNothing(c) \/ ReserveRejected(c) \/ ReserveCreate(c)

Dispatch(c) == Spawn(c) \/ SpawnFails(c)

Call(c) == ReserveBegin(c) \/ Reserve(c) \/ Dispatch(c)

RunBatch(b) ==
  \/ TakeLock(b) \/ ClaimBatch(b) \/ OpenBatch(b) \/ StartBatch(b) \/ ClaimJob(b)
  \/ Request(b) \/ StopJob(b) \/ NextRequest(b) \/ FinishAccount(b) \/ ReadHeartbeat(b) \/ WriteHeartbeat(b)
  \/ FinishBatch(b) \/ Release(b) \/ Handle(b)

Fault(b) == Raise(b) \/ Crash(b)

Shutdown == \/ ShutdownBegin \/ ShutdownEnd
            \/ \E b \in Batch : Joined(b) \/ Terminate(b) \/ MarkTerminated(b)

Next ==
  \/ \E c \in Caller : Call(c)
  \/ \E b \in Batch : RunBatch(b) \/ Fault(b) \/ Cancel(b) \/ Age(b)
  \/ SetEnabled \/ Shutdown \/ ApiCrash \/ ApiStart

Spec == Init /\ [][Next]_vars

(* Fairness. A live process keeps running and an account has finitely many *)
(* pages; the loop retries every 15 seconds and PostgreSQL queues waiters  *)
(* for the reservation lock in order; threads finish the call they are in; *)
(* time passes; the API process is restarted and finishes its shutdown.    *)
Fairness ==
  /\ \A b \in Batch : /\ WF_vars(RunBatch(b)) /\ SF_vars(FinishAccount(b))
                      /\ WF_vars(Age(b))
                      /\ WF_vars(Joined(b) \/ Terminate(b) \/ MarkTerminated(b))
  /\ \A c \in Caller : WF_vars(Reserve(c)) /\ WF_vars(Dispatch(c))
  /\ SF_vars(ReserveBegin(Scheduler))
  /\ WF_vars(ShutdownEnd)
  /\ WF_vars(ApiStart)

FairSpec == Spec /\ Fairness

-----------------------------------------------------------------------------
(* SAFETY *)

(* One batch at a time. The partial unique index uq_best_offer_batch_job   *)
(* would refuse a second one with an error; reserve() never runs into it.  *)
OneActiveBatch ==
  \A b1, b2 \in Batch : batch[b1] \in Active /\ batch[b2] \in Active => b1 = b2

(* An active job belongs to an active batch, whatever died on the way: a   *)
(* job left behind would be skipped by every later reservation (`prior`)   *)
(* and its account never synchronised again, since recover_abandoned()     *)
(* only looks at the jobs of an active batch.                              *)
NoJobLeftBehind ==
  \A b \in Batch, a \in Account : job[b][a] \in Active => batch[b] \in Active

(* "Never reclaim a live worker": while a worker runs a batch it claimed,  *)
(* the batch stays RUNNING, the job it has claimed stays RUNNING and the   *)
(* execution lock is its own, however old the batch is.                    *)
LiveWorkerKeepsItsBatch ==
  \A b \in Batch : worker[b] \in Owning =>
    /\ batch[b] = "RUNNING"
    /\ execLock = b
    /\ \A a \in current[b] : job[b][a] = "RUNNING"

(* After shutdown_workers() no worker process is left, except those of an  *)
(* API process that crashed earlier.                                       *)
NoWorkerOutlivesShutdown ==
  api = "stopping" /\ children = {} =>
    \A b \in Batch : worker[b] \in Alive => b \in orphans

(* Whatever stops or dies, the owner of a batch and the records of the     *)
(* batch agree: no job outlives its batch, no live worker loses its batch  *)
(* and no worker outlives the API process that shut down.                  *)
BatchKept ==
  /\ NoJobLeftBehind
  /\ LiveWorkerKeepsItsBatch
  /\ NoWorkerOutlivesShutdown

(* The recorded outcome of a job is final: nobody, however late, rewrites  *)
(* it.                                                                     *)
JobOutcomeFinal ==
  [][\A b \in Batch, a \in Account :
       job[b][a] \in Terminal => job'[b][a] = job[b][a]]_vars

(* Stated by the docs and not kept by the code; it has a run of its own.   *)

(* A cancellation, once recorded, is not forgotten.                        *)
CancellationKept ==
  [][\A b \in Batch : cancelled[b] => cancelled'[b]]_vars

(* REFINEMENT *)

(* The jobs implement SingleFlight: a batch is open while it is active,    *)
(* and in execution while its worker, holding the execution lock, owns it. *)
Flight == INSTANCE SingleFlight WITH
  Item <- Batch, Nobody <- NoBatch,
  phase <- [b \in Batch |-> IF batch[b] = "NONE" THEN "new"
                            ELSE IF batch[b] \in Active THEN "open" ELSE "closed"],
  executing <- IF execLock \in Batch /\ worker[execLock] \in Owning
               THEN execLock ELSE NoBatch

ImplementsSingleFlight == Flight!Spec

(* LIVENESS *)

(* Every reserved batch ends, even when its worker was never started, lost *)
(* the race for the execution lock or died: the next one can be reserved.  *)
EveryBatchEnds ==
  \A b \in Batch : batch[b] \in Active ~> batch[b] \in Terminal
=============================================================================
