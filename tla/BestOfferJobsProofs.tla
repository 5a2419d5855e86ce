------------------------- MODULE BestOfferJobsProofs -------------------------
(* Theorems about BestOfferJobs for every set of accounts, batches and     *)
(* callers.                                                                *)
EXTENDS BestOfferJobs, TLAPS

(* A caller that is to dispatch has a batch to dispatch: without this,     *)
(* TypeOK is not inductive.                                                *)
Reserved == \A c \in Caller : caller[c] = "dispatching" => mine[c] # NoBatch
Typed == TypeOK /\ Reserved

LEMMA Places ==
  Place = {"none", "start", "claim", "opened", "opening", "next", "syncing", "calling",
           "heartbeat", "beating", "releasing", "handler", "exited", "terminated"}
  BY DEF Place, Alive, Locked, Owning, Busy

LEMMA Statuses == Status = {"NONE", "PENDING", "RUNNING", "SUCCESS", "FAILED"}
  BY DEF Status, Active, Terminal

(* Failing active jobs yields statuses.                                    *)
LEMMA FailActiveJobsType ==
  ASSUME TypeOK, NEW b \in Batch
  PROVE  FailActiveJobs(b) \in [Batch -> [Account -> Status]]
  BY DEF TypeOK, FailActiveJobs, FailActive, Status, Active, Terminal

(* What recover_abandoned() leaves behind are statuses.                    *)
LEMMA RecoveredType ==
  ASSUME TypeOK, NEW c \in Caller
  PROVE  /\ RecoveredBatch(c) \in [Batch -> Status]
         /\ RecoveredJob(c) \in [Batch -> [Account -> Status]]
<1>1. CASE Reclaims(c)
  <2>1. seen[c] \in Batch
    BY <1>1 DEF Reclaims, TypeOK
  <2> QED
    BY <1>1, <2>1, FailActiveJobsType DEF RecoveredBatch, RecoveredJob, TypeOK, Status, Terminal
<1>2. CASE ~Reclaims(c)
  BY <1>2 DEF RecoveredBatch, RecoveredJob, TypeOK
<1> QED
  BY <1>1, <1>2

(* Every step keeps the types.                                             *)
LEMMA TypedStep == Typed /\ [Next]_vars => Typed'
<1> SUFFICES ASSUME Typed, [Next]_vars PROVE Typed'
  OBVIOUS
<1>0. TypeOK /\ Reserved
  BY DEF Typed
<1> USE NoBatchAssumption, MaxCrashesAssumption
<1>1. ASSUME NEW c \in Caller, ReserveBegin(c) PROVE Typed'
  <2>1. TypeOK'
    BY <1>0, <1>1 DEF ReserveBegin, TypeOK, dbVars, workerVars
  <2>2. Reserved'
    BY <1>0, <1>1 DEF ReserveBegin, TypeOK, Reserved
  <2> QED
    BY <2>1, <2>2 DEF Typed
<1>2. ASSUME NEW c \in Caller, ReserveNothing(c) PROVE Typed'
  BY <1>0, <1>2, RecoveredType DEF Typed, Reserved, ReserveNothing, Leave, Unlock, TypeOK
<1>3. ASSUME NEW c \in Caller, ReserveRejected(c) PROVE Typed'
  BY <1>0, <1>3 DEF Typed, Reserved, ReserveRejected, Leave, Unlock, TypeOK, dbVars
<1>15. ASSUME NEW c \in Caller, ReserveCheck(c) PROVE Typed'
  BY <1>0, <1>15 DEF Typed, Reserved, ReserveCheck, TypeOK, dbVars
<1>4. ASSUME NEW c \in Caller, ReserveCreate(c) PROVE Typed'
  <2> DEFINE accounts(chosen) ==
        {a \in chosen : \A o \in Batch : RecoveredJob(c)[o][a] \notin Active}
  <2>1. PICK b \in Batch, chosen \in SUBSET Account :
          /\ batch' = [RecoveredBatch(c) EXCEPT ![b] = "PENDING"]
          /\ job' = [RecoveredJob(c) EXCEPT ![b] =
                       [a \in Account |-> IF a \in accounts(chosen) THEN "PENDING" ELSE "NONE"]]
          /\ trigger' = [trigger EXCEPT ![b] = IF c = Scheduler THEN "auto" ELSE "manual"]
          /\ mine' = [mine EXCEPT ![c] = b]
    BY <1>4 DEF ReserveCreate
  <2>2. /\ batch' \in [Batch -> Status]
        /\ job' \in [Batch -> [Account -> Status]]
    BY <1>0, <2>1, RecoveredType, Statuses
  <2> QED
    BY <1>0, <1>4, <2>1, <2>2 DEF Typed, Reserved, ReserveCreate, Unlock, TypeOK
<1>5. ASSUME NEW c \in Caller, Spawn(c) PROVE Typed'
  BY <1>0, <1>5, Places DEF Typed, Reserved, Spawn, Dispatched, LiveChildren, TypeOK, dbVars
<1>6. ASSUME NEW c \in Caller, SpawnFails(c) PROVE Typed'
  BY <1>0, <1>6, Statuses DEF Typed, Reserved, SpawnFails, Dispatched, LiveChildren, FailPending, TypeOK, workerVars
<1>7. ASSUME NEW b \in Batch, RunBatch(b) PROVE Typed'
  <2>1. CASE TakeLock(b)
    BY <1>0, <2>1, Places, Statuses DEF Typed, Reserved, TakeLock, Goto, TypeOK, dbVars, apiVars
  <2>2. CASE ClaimBatch(b)
    BY <1>0, <2>2, Places, Statuses DEF Typed, Reserved, ClaimBatch, Goto, TypeOK, apiVars
  <2>3. CASE OpenBatch(b)
    BY <1>0, <2>3, Places, Statuses DEF Typed, Reserved, OpenBatch, Goto, TypeOK, dbVars, apiVars
  <2>4. ASSUME NEW from, WriteMetadata(b, from) PROVE Typed'
    BY <1>0, <2>4, Places, Statuses DEF Typed, Reserved, WriteMetadata, Goto, TypeOK, apiVars
  <2>5. CASE ClaimJob(b)
    <3>1. PICK a \in todo[b] :
            /\ todo' = [todo EXCEPT ![b] = @ \ {a}]
            /\ \/ /\ job' = [job EXCEPT ![b][a] = "RUNNING"]
                  /\ current' = [current EXCEPT ![b] = {a}]
                  /\ Goto(b, "syncing")
               \/ UNCHANGED <<job, current, worker>>
      BY <2>5 DEF ClaimJob
    <3>2. a \in Account /\ job[b] \in [Account -> Status]
      BY <1>0 DEF TypeOK
    <3>3. todo' \in [Batch -> SUBSET Account]
      BY <1>0, <3>1 DEF TypeOK
    <3>4. job' \in [Batch -> [Account -> Status]]
      <4>1. [job[b] EXCEPT ![a] = "RUNNING"] \in [Account -> Status]
        BY <3>2, Statuses
      <4> QED
        BY <1>0, <3>1, <4>1 DEF TypeOK
    <3>5. current' \in [Batch -> SUBSET Account]
      <4>1. {a} \in SUBSET Account
        BY <3>2
      <4> QED
        BY <1>0, <3>1, <4>1 DEF TypeOK
    <3>6. worker' \in [Batch -> Place]
      BY <1>0, <3>1, Places DEF TypeOK, Goto
    <3> QED
      BY <1>0, <2>5, <3>3, <3>4, <3>5, <3>6 DEF Typed, Reserved, ClaimJob, TypeOK, apiVars
  <2>6. CASE Request(b) \/ NextRequest(b)
    BY <1>0, <2>6, Places, Statuses DEF Typed, Reserved, Request, NextRequest, Goto, TypeOK, dbVars, apiVars
  <2>7. CASE StopJob(b) \/ FinishAccount(b)
    <3>1. PICK outcome \in Status : FinishJob(b, outcome)
      BY <2>7, Statuses DEF StopJob, FinishAccount, Terminal
    <3>2. job' \in [Batch -> [Account -> Status]]
      <4>1. [a \in Account |-> IF a \in current[b] THEN outcome ELSE job[b][a]]
              \in [Account -> Status]
        BY <1>0 DEF TypeOK
      <4> QED
        BY <1>0, <3>1, <4>1 DEF FinishJob, TypeOK
    <3> QED
      BY <1>0, <3>1, <3>2, Places, Statuses DEF Typed, Reserved, FinishJob, Goto, TypeOK, apiVars
  <2>8. CASE ReadHeartbeat(b)
    BY <1>0, <2>8, Places, Statuses DEF Typed, Reserved, ReadHeartbeat, Goto, TypeOK, dbVars, apiVars
  <2>9. CASE FinishBatch(b)
    BY <1>0, <2>9, Places, Statuses DEF Typed, Reserved, FinishBatch, Goto, Forget, TypeOK, apiVars
  <2>10. CASE Release(b)
    BY <1>0, <2>10, Places, Statuses DEF Typed, Reserved, Release, Unlock, Goto, TypeOK, dbVars, apiVars
  <2>11. CASE Handle(b)
    <3>1. /\ batch' \in [Batch -> Status]
          /\ job' \in [Batch -> [Account -> Status]]
      <4>1. CASE batch[b] \in Active
        <5>1. batch' = [batch EXCEPT ![b] = "FAILED"] /\ job' = FailActiveJobs(b)
          BY <2>11, <4>1 DEF Handle
        <5> QED
          BY <1>0, <5>1, FailActiveJobsType, Statuses DEF TypeOK
      <4>2. CASE batch[b] \notin Active
        BY <1>0, <2>11, <4>2 DEF Handle, TypeOK
      <4> QED
        BY <4>1, <4>2
    <3> QED
      BY <1>0, <2>11, <3>1, Places, Statuses DEF Typed, Reserved, Handle, Goto, TypeOK, apiVars
  <2> QED
    BY <1>7, <2>1, <2>2, <2>3, <2>4, <2>5, <2>6, <2>7, <2>8, <2>9, <2>10, <2>11
       DEF RunBatch, StartBatch, WriteHeartbeat
<1>8. ASSUME NEW b \in Batch, Fault(b) PROVE Typed'
  <2>1. CASE Raise(b)
    BY <1>0, <2>1, Places, Statuses DEF Typed, Reserved, Raise, Unlock, Goto, Forget, TypeOK, dbVars, apiVars
  <2>2. CASE Crash(b)
    BY <1>0, <2>2, Places, Statuses DEF Typed, Reserved, Crash, Unlock, Goto, Forget, TypeOK, dbVars, apiVars
  <2> QED
    BY <1>8, <2>1, <2>2 DEF Fault
<1>9. ASSUME NEW b \in Batch, Cancel(b) \/ Age(b) PROVE Typed'
  BY <1>0, <1>9 DEF Typed, Reserved, Cancel, Age, TypeOK, apiVars, workerVars
<1>10. CASE SetEnabled
  BY <1>0, <1>10 DEF Typed, Reserved, SetEnabled, TypeOK, apiVars, workerVars
<1>11. CASE Shutdown
  <2>1. CASE ShutdownBegin \/ ShutdownEnd
    BY <1>0, <2>1 DEF Typed, Reserved, ShutdownBegin, ShutdownEnd, TypeOK, dbVars, workerVars
  <2>2. ASSUME NEW b \in Batch, Joined(b) PROVE Typed'
    BY <1>0, <2>2 DEF Typed, Reserved, Joined, TypeOK, dbVars, workerVars
  <2>4. ASSUME NEW b \in Batch, Terminate(b) PROVE Typed'
    BY <1>0, <2>4, Places, Statuses DEF Typed, Reserved, Terminate, Unlock, Goto, Forget, TypeOK, dbVars, apiVars
  <2>3. ASSUME NEW b \in Batch, MarkTerminated(b) PROVE Typed'
    BY <1>0, <2>3, FailActiveJobsType, Statuses DEF Typed, Reserved, MarkTerminated, FailActive, TypeOK, workerVars
  <2> QED
    BY <1>11, <2>1, <2>2, <2>3, <2>4 DEF Shutdown
<1>12. CASE ApiCrash
  BY <1>0, <1>12 DEF Typed, Reserved, ApiCrash, LiveChildren, TypeOK, dbVars
<1>13. CASE ApiStart
  BY <1>0, <1>13 DEF Typed, Reserved, ApiStart, TypeOK, dbVars, workerVars
<1>14. CASE UNCHANGED vars
  BY <1>0, <1>14 DEF Typed, Reserved, vars, dbVars, apiVars, workerVars, TypeOK
<1> QED
  BY <1>1, <1>2, <1>3, <1>4, <1>5, <1>6, <1>7, <1>8, <1>9, <1>10, <1>11, <1>12, <1>13, <1>14, <1>15
     DEF Next, Call, Reserve, Dispatch

(* Every reachable state is well-typed.                                    *)
THEOREM TypeCorrect == Spec => []TypeOK
<1>1. Init => Typed
  BY Places, Statuses, MaxCrashesAssumption DEF Init, Typed, Reserved, TypeOK
<1>2. Typed /\ [Next]_vars => Typed'
  BY TypedStep
<1>3. Typed => TypeOK
  BY DEF Typed
<1> QED
  BY <1>1, <1>2, <1>3, PTL DEF Spec

-----------------------------------------------------------------------------
(***************************************************************************)
(* The inductive invariant of the safety theorems.                         *)
(***************************************************************************)

(* The reservation lock: one caller between its taking and its release.    *)
InReserve(c) == caller[c] \in {"reserving", "creating"}
SoleReserver == \A c, d \in Caller : InReserve(c) /\ InReserve(d) => c = d

(* What a caller is to dispatch is its own, has no process yet, and is     *)
(* PENDING or was failed by recovery.                                      *)
FreshMine ==
  \A c \in Caller : caller[c] = "dispatching" =>
    /\ mine[c] \in Batch
    /\ worker[mine[c]] = "none"
    /\ batch[mine[c]] \in {"PENDING", "FAILED"}
    /\ \A d \in Caller : caller[d] = "dispatching" /\ mine[d] = mine[c] => d = c

(* The batch a reservation has read is still the only one that can be      *)
(* active; once it decides to create, none is but the one it reclaims,     *)
(* whose execution lock it holds.                                          *)
SeenActive ==
  \A c \in Caller :
    /\ seen[c] # NoBatch => /\ InReserve(c)
                            /\ batch[seen[c]] # "NONE"
                            /\ \A b \in Batch : batch[b] \in Active => b = seen[c]
    /\ caller[c] = "creating" =>
         IF seen[c] = NoBatch THEN \A b \in Batch : batch[b] \notin Active
                              ELSE execLock = c

CallersInv == SoleReserver /\ FreshMine /\ SeenActive

(* A job is active only in an active batch; a claimed job is RUNNING, and  *)
(* of a batch in execution nothing else is; what is active is still ahead  *)
(* of the worker.                                                          *)
Unstarted == {"none", "start", "claim"}
JobInv(b, a) ==
  /\ job[b][a] \in Active => batch[b] \in Active
  /\ a \in current[b] => worker[b] \in Busy /\ job[b][a] = "RUNNING"
  /\ job[b][a] = "RUNNING" /\ worker[b] \in Owning \cup Unstarted => a \in current[b]
  /\ job[b][a] \in Active /\ worker[b] \in Owning \ {"opened"} =>
       a \in todo[b] \cup current[b]

BatchInv(b) ==
  /\ batch[b] = "NONE" => worker[b] = "none" /\ \A a \in Account : job[b][a] = "NONE"
  /\ worker[b] \in Locked => execLock = b
  /\ worker[b] \in Owning => batch[b] = "RUNNING"
  /\ \A a \in Account : JobInv(b, a)

JobsInv == \A b \in Batch : BatchInv(b)

Inv == Typed /\ CallersInv /\ JobsInv /\ OneActiveBatch

LEMMA PlaceSets ==
  /\ Busy = {"syncing", "calling"}
  /\ Owning = {"syncing", "calling", "opened", "opening", "next", "heartbeat", "beating"}
  /\ Locked = Owning \cup {"claim", "releasing"}
  /\ Alive = Locked \cup {"start", "handler"}
  /\ Unstarted = {"none", "start", "claim"}
  /\ Active = {"PENDING", "RUNNING"}
  BY DEF Busy, Owning, Locked, Alive, Unstarted, Active

(* A row and a process that a step leaves alone.                           *)
Same(b) ==
  /\ batch'[b] = batch[b] /\ job'[b] = job[b] /\ worker'[b] = worker[b]
  /\ todo'[b] = todo[b] /\ current'[b] = current[b]
  /\ execLock = b => execLock' = b

(* A step that reserves nothing: it starts no process and opens no batch.  *)
Quiet ==
  /\ UNCHANGED <<caller, seen, mine>>
  /\ \A b \in Batch :
       /\ batch'[b] \in Active => batch[b] \in Active
       /\ batch'[b] = "NONE" => batch[b] = "NONE"
       /\ worker[b] = "none" =>
            worker'[b] = "none" /\ (batch[b] \in {"PENDING", "FAILED"} => batch'[b] \in {"PENDING", "FAILED"})
  /\ \A c \in Caller : execLock = c => execLock' = c

LEMMA SameKeeps ==
  ASSUME NEW b \in Batch, BatchInv(b), Same(b)
  PROVE  BatchInv(b)'
  BY DEF BatchInv, JobInv, Same

LEMMA QuietKeeps ==
  ASSUME Typed, CallersInv, OneActiveBatch, Quiet
  PROVE  CallersInv' /\ OneActiveBatch'
<1>1. SoleReserver'
  BY DEF CallersInv, SoleReserver, InReserve, Quiet
<1>2. FreshMine'
  BY DEF CallersInv, FreshMine, Quiet
<1>3. SeenActive'
  <2> SUFFICES ASSUME NEW c \in Caller
               PROVE  /\ seen[c] # NoBatch => /\ InReserve(c)
                                              /\ batch'[seen[c]] # "NONE"
                                              /\ \A b \in Batch : batch'[b] \in Active => b = seen[c]
                      /\ caller[c] = "creating" =>
                           IF seen[c] = NoBatch THEN \A b \in Batch : batch'[b] \notin Active
                                                ELSE execLock' = c
    BY DEF SeenActive, InReserve, Quiet
  <2>1. seen[c] \in Batch \cup {NoBatch}
    BY DEF Typed, TypeOK
  <2> QED
    BY <2>1 DEF CallersInv, SeenActive, Quiet
<1>4. OneActiveBatch'
  BY DEF OneActiveBatch, Quiet
<1> QED
  BY <1>1, <1>2, <1>3, <1>4 DEF CallersInv

(* A quiet step that touches one batch has to be looked at there only.     *)
LEMMA OneBatchStep ==
  ASSUME Inv, Typed', NEW b \in Batch, Quiet, BatchInv(b)',
         \A o \in Batch \ {b} : Same(o)
  PROVE  Inv'
  BY QuietKeeps, SameKeeps DEF Inv, JobsInv

(* What the invariant does not speak of may change.                        *)
LEMMA CoreFrame ==
  ASSUME Inv, Typed',
         UNCHANGED <<batch, job, caller, seen, mine, execLock, worker, todo, current>>
  PROVE  Inv'
<1>1. Quiet
  BY DEF Quiet
<1>2. \A b \in Batch : Same(b)
  BY DEF Same
<1> QED
  BY <1>1, <1>2, QuietKeeps, SameKeeps DEF Inv, JobsInv


(* The steps of a worker process, one lemma for those that only move it.   *)

LEMMA TakeLockKeeps ==
  ASSUME Inv, Typed', NEW b \in Batch, TakeLock(b)
  PROVE  Inv'
<1> USE NoBatchAssumption, DisjointAssumption, PlaceSets
<1>1. TypeOK /\ TypeOK' /\ BatchInv(b)
  BY DEF Inv, JobsInv, Typed
<1>2. Quiet
  BY <1>1 DEF Quiet, TakeLock, Goto, dbVars, apiVars, TypeOK
<1>3. \A o \in Batch \ {b} : Same(o)
  BY <1>1 DEF Same, TakeLock, Goto, dbVars, apiVars, TypeOK
<1>4. BatchInv(b)'
  BY <1>1 DEF BatchInv, JobInv, TakeLock, Goto, dbVars, apiVars, TypeOK
<1> QED
  BY <1>2, <1>3, <1>4, OneBatchStep

LEMMA ClaimBatchKeeps ==
  ASSUME Inv, Typed', NEW b \in Batch, ClaimBatch(b)
  PROVE  Inv'
<1> USE NoBatchAssumption, DisjointAssumption, PlaceSets
<1>1. TypeOK /\ TypeOK' /\ BatchInv(b)
  BY DEF Inv, JobsInv, Typed
<1>2. Quiet
  BY <1>1 DEF Quiet, ClaimBatch, Goto, apiVars, TypeOK
<1>3. \A o \in Batch \ {b} : Same(o)
  BY <1>1 DEF Same, ClaimBatch, Goto, apiVars, TypeOK
<1>4. BatchInv(b)'
  BY <1>1 DEF BatchInv, JobInv, ClaimBatch, Goto, apiVars, TypeOK
<1> QED
  BY <1>2, <1>3, <1>4, OneBatchStep

LEMMA OpenBatchKeeps ==
  ASSUME Inv, Typed', NEW b \in Batch, OpenBatch(b)
  PROVE  Inv'
<1> USE NoBatchAssumption, DisjointAssumption, PlaceSets
<1>1. TypeOK /\ TypeOK' /\ BatchInv(b)
  BY DEF Inv, JobsInv, Typed
<1>2. Quiet
  BY <1>1 DEF Quiet, OpenBatch, Goto, dbVars, apiVars, TypeOK
<1>3. \A o \in Batch \ {b} : Same(o)
  BY <1>1 DEF Same, OpenBatch, Goto, dbVars, apiVars, TypeOK
<1>4. BatchInv(b)'
  BY <1>1 DEF BatchInv, JobInv, OpenBatch, Goto, dbVars, apiVars, TypeOK
<1> QED
  BY <1>2, <1>3, <1>4, OneBatchStep

LEMMA RequestKeeps ==
  ASSUME Inv, Typed', NEW b \in Batch, Request(b)
  PROVE  Inv'
<1> USE NoBatchAssumption, DisjointAssumption, PlaceSets
<1>1. TypeOK /\ TypeOK' /\ BatchInv(b)
  BY DEF Inv, JobsInv, Typed
<1>2. Quiet
  BY <1>1 DEF Quiet, Request, Goto, dbVars, apiVars, TypeOK
<1>3. \A o \in Batch \ {b} : Same(o)
  BY <1>1 DEF Same, Request, Goto, dbVars, apiVars, TypeOK
<1>4. BatchInv(b)'
  BY <1>1 DEF BatchInv, JobInv, Request, Goto, dbVars, apiVars, TypeOK
<1> QED
  BY <1>2, <1>3, <1>4, OneBatchStep

LEMMA NextRequestKeeps ==
  ASSUME Inv, Typed', NEW b \in Batch, NextRequest(b)
  PROVE  Inv'
<1> USE NoBatchAssumption, DisjointAssumption, PlaceSets
<1>1. TypeOK /\ TypeOK' /\ BatchInv(b)
  BY DEF Inv, JobsInv, Typed
<1>2. Quiet
  BY <1>1 DEF Quiet, NextRequest, Goto, dbVars, apiVars, TypeOK
<1>3. \A o \in Batch \ {b} : Same(o)
  BY <1>1 DEF Same, NextRequest, Goto, dbVars, apiVars, TypeOK
<1>4. BatchInv(b)'
  BY <1>1 DEF BatchInv, JobInv, NextRequest, Goto, dbVars, apiVars, TypeOK
<1> QED
  BY <1>2, <1>3, <1>4, OneBatchStep

LEMMA ReadHeartbeatKeeps ==
  ASSUME Inv, Typed', NEW b \in Batch, ReadHeartbeat(b)
  PROVE  Inv'
<1> USE NoBatchAssumption, DisjointAssumption, PlaceSets
<1>1. TypeOK /\ TypeOK' /\ BatchInv(b)
  BY DEF Inv, JobsInv, Typed
<1>2. Quiet
  BY <1>1 DEF Quiet, ReadHeartbeat, Goto, dbVars, apiVars, TypeOK
<1>3. \A o \in Batch \ {b} : Same(o)
  BY <1>1 DEF Same, ReadHeartbeat, Goto, dbVars, apiVars, TypeOK
<1>4. BatchInv(b)'
  BY <1>1 DEF BatchInv, JobInv, ReadHeartbeat, Goto, dbVars, apiVars, TypeOK
<1> QED
  BY <1>2, <1>3, <1>4, OneBatchStep

LEMMA FinishBatchKeeps ==
  ASSUME Inv, Typed', NEW b \in Batch, FinishBatch(b)
  PROVE  Inv'
<1> USE NoBatchAssumption, DisjointAssumption, PlaceSets
<1>1. TypeOK /\ TypeOK' /\ BatchInv(b)
  BY DEF Inv, JobsInv, Typed
<1>2. Quiet
  BY <1>1 DEF Quiet, FinishBatch, Goto, Forget, apiVars, TypeOK
<1>3. \A o \in Batch \ {b} : Same(o)
  BY <1>1 DEF Same, FinishBatch, Goto, Forget, apiVars, TypeOK
<1>4. BatchInv(b)'
  BY <1>1 DEF BatchInv, JobInv, FinishBatch, Goto, Forget, apiVars, TypeOK
<1> QED
  BY <1>2, <1>3, <1>4, OneBatchStep

LEMMA ReleaseKeeps ==
  ASSUME Inv, Typed', NEW b \in Batch, Release(b)
  PROVE  Inv'
<1> USE NoBatchAssumption, DisjointAssumption, PlaceSets
<1>1. TypeOK /\ TypeOK' /\ BatchInv(b)
  BY DEF Inv, JobsInv, Typed
<1>2. Quiet
  BY <1>1 DEF Quiet, Release, Unlock, Goto, dbVars, apiVars, TypeOK
<1>3. \A o \in Batch \ {b} : Same(o)
  BY <1>1 DEF Same, Release, Unlock, Goto, dbVars, apiVars, TypeOK
<1>4. BatchInv(b)'
  BY <1>1 DEF BatchInv, JobInv, Release, Unlock, Goto, dbVars, apiVars, TypeOK
<1> QED
  BY <1>2, <1>3, <1>4, OneBatchStep

LEMMA RaiseKeeps ==
  ASSUME Inv, Typed', NEW b \in Batch, Raise(b)
  PROVE  Inv'
<1> USE NoBatchAssumption, DisjointAssumption, PlaceSets
<1>1. TypeOK /\ TypeOK' /\ BatchInv(b)
  BY DEF Inv, JobsInv, Typed
<1>2. Quiet
  BY <1>1 DEF Quiet, Raise, Unlock, Goto, Forget, dbVars, apiVars, TypeOK
<1>3. \A o \in Batch \ {b} : Same(o)
  BY <1>1 DEF Same, Raise, Unlock, Goto, Forget, dbVars, apiVars, TypeOK
<1>4. BatchInv(b)'
  BY <1>1 DEF BatchInv, JobInv, Raise, Unlock, Goto, Forget, dbVars, apiVars, TypeOK
<1> QED
  BY <1>2, <1>3, <1>4, OneBatchStep

LEMMA CrashKeeps ==
  ASSUME Inv, Typed', NEW b \in Batch, Crash(b)
  PROVE  Inv'
<1> USE NoBatchAssumption, DisjointAssumption, PlaceSets
<1>1. TypeOK /\ TypeOK' /\ BatchInv(b)
  BY DEF Inv, JobsInv, Typed
<1>2. Quiet
  BY <1>1 DEF Quiet, Crash, Unlock, Goto, Forget, dbVars, apiVars, TypeOK
<1>3. \A o \in Batch \ {b} : Same(o)
  BY <1>1 DEF Same, Crash, Unlock, Goto, Forget, dbVars, apiVars, TypeOK
<1>4. BatchInv(b)'
  BY <1>1 DEF BatchInv, JobInv, Crash, Unlock, Goto, Forget, dbVars, apiVars, TypeOK
<1> QED
  BY <1>2, <1>3, <1>4, OneBatchStep

LEMMA TerminateKeeps ==
  ASSUME Inv, Typed', NEW b \in Batch, Terminate(b)
  PROVE  Inv'
<1> USE NoBatchAssumption, DisjointAssumption, PlaceSets
<1>1. TypeOK /\ TypeOK' /\ BatchInv(b)
  BY DEF Inv, JobsInv, Typed
<1>2. Quiet
  BY <1>1 DEF Quiet, Terminate, Unlock, Goto, Forget, dbVars, apiVars, TypeOK
<1>3. \A o \in Batch \ {b} : Same(o)
  BY <1>1 DEF Same, Terminate, Unlock, Goto, Forget, dbVars, apiVars, TypeOK
<1>4. BatchInv(b)'
  BY <1>1 DEF BatchInv, JobInv, Terminate, Unlock, Goto, Forget, dbVars, apiVars, TypeOK
<1> QED
  BY <1>2, <1>3, <1>4, OneBatchStep

LEMMA WriteMetadataKeeps ==
  ASSUME Inv, Typed', NEW b \in Batch, NEW from \in {"opening", "beating"}, WriteMetadata(b, from)
  PROVE  Inv'
<1> USE NoBatchAssumption, DisjointAssumption, PlaceSets
<1>1. TypeOK /\ TypeOK' /\ BatchInv(b)
  BY DEF Inv, JobsInv, Typed
<1>2. Quiet
  BY <1>1 DEF Quiet, WriteMetadata, Goto, apiVars, TypeOK
<1>3. \A o \in Batch \ {b} : Same(o)
  BY <1>1 DEF Same, WriteMetadata, Goto, apiVars, TypeOK
<1>4. BatchInv(b)'
  BY <1>1 DEF BatchInv, JobInv, WriteMetadata, Goto, apiVars, TypeOK
<1> QED
  BY <1>2, <1>3, <1>4, OneBatchStep


LEMMA ClaimJobKeeps ==
  ASSUME Inv, Typed', NEW b \in Batch, ClaimJob(b)
  PROVE  Inv'
<1> USE NoBatchAssumption, DisjointAssumption, PlaceSets
<1>1. TypeOK /\ TypeOK' /\ BatchInv(b)
  BY DEF Inv, JobsInv, Typed
<1>2. Quiet
  BY <1>1 DEF Quiet, ClaimJob, Goto, apiVars, TypeOK
<1>3. PICK a \in todo[b] :
        /\ todo' = [todo EXCEPT ![b] = @ \ {a}]
        /\ \/ /\ job[b][a] = "PENDING"
              /\ job' = [job EXCEPT ![b][a] = "RUNNING"]
              /\ current' = [current EXCEPT ![b] = {a}]
              /\ Goto(b, "syncing")
           \/ job[b][a] # "PENDING" /\ UNCHANGED <<job, current, worker>>
  BY DEF ClaimJob
<1>4. worker[b] = "next" /\ UNCHANGED <<batch, execLock>>
  BY DEF ClaimJob
<1>5. \A o \in Batch \ {b} : Same(o)
  BY <1>1, <1>3, <1>4 DEF Same, Goto, TypeOK
<1>6. todo'[b] = todo[b] \ {a} /\ a \in Account
  BY <1>1, <1>3 DEF TypeOK
<1>7. \A x \in Account : x \notin current[b]
  BY <1>1, <1>4 DEF BatchInv, JobInv
<1>8. CASE job[b][a] = "PENDING"
  <2>1. /\ worker'[b] = "syncing"
        /\ current'[b] = {a}
        /\ job'[b][a] = "RUNNING"
        /\ \A x \in Account \ {a} : job'[b][x] = job[b][x]
    BY <1>1, <1>3, <1>6, <1>8 DEF Goto, TypeOK
  <2>2. BatchInv(b)'
    BY <1>1, <1>4, <1>6, <1>7, <2>1 DEF BatchInv, JobInv
  <2> QED
    BY <1>2, <1>5, <2>2, OneBatchStep
<1>9. CASE job[b][a] # "PENDING"
  <2>1. UNCHANGED <<job, current, worker>>
    BY <1>3, <1>9
  <2>2. BatchInv(b)'
    BY <1>1, <1>4, <1>6, <1>7, <1>9, <2>1 DEF BatchInv, JobInv
  <2> QED
    BY <1>2, <1>5, <2>2, OneBatchStep
<1> QED
  BY <1>8, <1>9

LEMMA FinishJobKeeps ==
  ASSUME Inv, Typed', NEW b \in Batch, NEW outcome \in Terminal,
         worker[b] \in Busy, FinishJob(b, outcome)
  PROVE  Inv'
<1> USE NoBatchAssumption, DisjointAssumption, PlaceSets
<1>1. TypeOK /\ TypeOK' /\ BatchInv(b)
  BY DEF Inv, JobsInv, Typed
<1>2. Quiet
  BY <1>1 DEF Quiet, FinishJob, Goto, apiVars, TypeOK
<1>3. \A o \in Batch \ {b} : Same(o)
  BY <1>1 DEF Same, FinishJob, Goto, TypeOK
<1>4. \A a \in Account : job'[b][a] = IF a \in current[b] THEN outcome ELSE job[b][a]
  BY <1>1 DEF FinishJob, TypeOK
<1>5. /\ current'[b] = {} /\ worker'[b] = "heartbeat"
      /\ UNCHANGED <<batch, todo, execLock>>
  BY <1>1 DEF FinishJob, Goto, TypeOK
<1>6. outcome \notin Active
  BY DEF Terminal
<1>7. BatchInv(b)'
  BY <1>1, <1>4, <1>5, <1>6 DEF BatchInv, JobInv
<1> QED
  BY <1>2, <1>3, <1>7, OneBatchStep

(* FailActiveJobs(), job by job.                                           *)
LEMMA FailedJobs ==
  ASSUME TypeOK, NEW b \in Batch
  PROVE  /\ \A a \in Account : FailActiveJobs(b)[b][a] = FailActive(job[b][a])
         /\ \A o \in Batch \ {b} : FailActiveJobs(b)[o] = job[o]
  BY DEF TypeOK, FailActiveJobs

(* A batch without a process whose batch and jobs are failed.              *)
LEMMA FailedKeeps ==
  ASSUME NEW b \in Batch, TypeOK, TypeOK', BatchInv(b),
         batch[b] # "NONE", batch'[b] \notin {"NONE", "RUNNING"},
         worker[b] \notin Owning, worker'[b] \notin Owning,
         worker'[b] \in Locked => execLock' = b,
         current'[b] = current[b],
         \A a \in Account : job'[b][a] \notin Active
  PROVE  BatchInv(b)'
  BY PlaceSets DEF BatchInv, JobInv

LEMMA HandleKeeps ==
  ASSUME Inv, Typed', NEW b \in Batch, Handle(b)
  PROVE  Inv'
<1> USE NoBatchAssumption, DisjointAssumption, PlaceSets
<1>1. TypeOK /\ TypeOK' /\ BatchInv(b)
  BY DEF Inv, JobsInv, Typed
<1>2. Quiet
  BY <1>1 DEF Quiet, Handle, Goto, apiVars, TypeOK
<1>3. worker[b] = "handler" /\ worker'[b] = "exited" /\ UNCHANGED <<todo, current, execLock>>
  BY <1>1 DEF Handle, Goto, TypeOK
<1>4. CASE batch[b] \in Active
  <2>1. batch' = [batch EXCEPT ![b] = "FAILED"] /\ job' = FailActiveJobs(b)
    BY <1>4 DEF Handle
  <2>2. \A o \in Batch \ {b} : Same(o)
    BY <1>1, <1>3, <2>1, FailedJobs DEF Same, Handle, Goto, TypeOK
  <2>3. \A a \in Account : job'[b][a] \notin Active
    BY <1>1, <2>1, FailedJobs DEF FailActive
  <2>4. batch'[b] = "FAILED"
    BY <1>1, <2>1 DEF TypeOK
  <2>5. BatchInv(b)'
    BY <1>1, <1>3, <1>4, <2>3, <2>4, FailedKeeps
  <2> QED
    BY <1>2, <2>2, <2>5, OneBatchStep
<1>5. CASE batch[b] \notin Active
  <2>1. UNCHANGED <<batch, job>>
    BY <1>5 DEF Handle
  <2>2. \A o \in Batch \ {b} : Same(o)
    BY <1>1, <1>3, <2>1 DEF Same, Handle, Goto, TypeOK
  <2>3. BatchInv(b)'
    BY <1>1, <1>3, <2>1 DEF BatchInv, JobInv
  <2> QED
    BY <1>2, <2>2, <2>3, OneBatchStep
<1> QED
  BY <1>4, <1>5

LEMMA MarkTerminatedKeeps ==
  ASSUME Inv, Typed', NEW b \in Batch, MarkTerminated(b)
  PROVE  Inv'
<1> USE NoBatchAssumption, DisjointAssumption, PlaceSets
<1>1. TypeOK /\ TypeOK' /\ BatchInv(b)
  BY DEF Inv, JobsInv, Typed
<1>2. Quiet
  BY <1>1 DEF Quiet, MarkTerminated, workerVars, FailActive, TypeOK
<1>3. /\ worker[b] = "terminated" /\ UNCHANGED <<worker, todo, current, execLock>>
      /\ job' = FailActiveJobs(b)
      /\ batch' = [batch EXCEPT ![b] = FailActive(@)]
  BY DEF MarkTerminated, workerVars
<1>4. \A o \in Batch \ {b} : Same(o)
  BY <1>1, <1>3, FailedJobs DEF Same, TypeOK
<1>5. \A a \in Account : job'[b][a] \notin Active
  BY <1>1, <1>3, FailedJobs DEF FailActive
<1>6. batch[b] # "NONE"
  BY <1>1, <1>3 DEF BatchInv
<1>7. batch'[b] \notin {"NONE", "RUNNING"}
  BY <1>1, <1>3, <1>6 DEF FailActive, TypeOK
<1>8. BatchInv(b)'
  BY <1>1, <1>3, <1>5, <1>6, <1>7, FailedKeeps
<1> QED
  BY <1>2, <1>4, <1>8, OneBatchStep

-----------------------------------------------------------------------------
(* The steps of a caller.                                                  *)

LEMMA SpawnFailsKeeps ==
  ASSUME Inv, Typed', NEW c \in Caller, SpawnFails(c)
  PROVE  Inv'
<1> USE NoBatchAssumption, DisjointAssumption, PlaceSets
<1>1. TypeOK /\ TypeOK'
  BY DEF Inv, Typed
<1>2. PICK b \in Batch : /\ b = mine[c] /\ worker[b] = "none"
                        /\ batch[b] \in {"PENDING", "FAILED"}
                        /\ caller[c] = "dispatching"
  BY DEF Inv, CallersInv, FreshMine, SpawnFails
<1>3. BatchInv(b)
  BY <1>2 DEF Inv, JobsInv
<1>4. /\ batch' = [batch EXCEPT ![b] = FailPending(@)]
      /\ job' = [job EXCEPT ![b] = [a \in Account |-> FailPending(@[a])]]
      /\ UNCHANGED <<seen, execLock, worker, todo, current>>
      /\ caller' = [caller EXCEPT ![c] = "idle"]
      /\ mine' = [mine EXCEPT ![c] = NoBatch]
  BY <1>2 DEF SpawnFails, Dispatched, workerVars
<1>5. /\ \A o \in Batch \ {b} : Same(o)
      /\ batch'[b] = "FAILED"
      /\ \A a \in Account : job'[b][a] = FailPending(job[b][a])
  BY <1>1, <1>2, <1>4 DEF Same, FailPending, TypeOK
<1>6. \A a \in Account : job'[b][a] \notin Active
  BY <1>2, <1>3, <1>5 DEF BatchInv, JobInv, FailPending
<1>7. BatchInv(b)'
  BY <1>1, <1>2, <1>3, <1>4, <1>5, <1>6, FailedKeeps
<1>8. JobsInv'
  BY <1>5, <1>7, SameKeeps DEF Inv, JobsInv
<1>9. SoleReserver'
  BY <1>1, <1>4 DEF Inv, CallersInv, SoleReserver, InReserve, TypeOK
<1>10. FreshMine'
  BY <1>1, <1>4, <1>5 DEF Inv, CallersInv, FreshMine, Same, TypeOK
<1>11. SeenActive'
  <2>1. \A d \in Caller : seen[d] \in Batch \cup {NoBatch}
    BY <1>1 DEF TypeOK
  <2>2. \A d \in Caller : (caller'[d] = "creating" <=> caller[d] = "creating")
                          /\ (InReserve(d)' <=> InReserve(d))
    BY <1>1, <1>2, <1>4 DEF InReserve, TypeOK
  <2>3. \A o \in Batch : /\ batch'[o] \in Active => batch[o] \in Active
                         /\ batch'[o] = "NONE" => batch[o] = "NONE"
    BY <1>5 DEF Same
  <2> QED
    BY <1>4, <2>1, <2>2, <2>3 DEF Inv, CallersInv, SeenActive
<1>12. OneActiveBatch'
  BY <1>5 DEF Inv, OneActiveBatch, Same
<1> QED
  BY <1>8, <1>9, <1>10, <1>11, <1>12 DEF Inv, CallersInv

LEMMA SpawnKeeps ==
  ASSUME Inv, Typed', NEW c \in Caller, Spawn(c)
  PROVE  Inv'
<1> USE NoBatchAssumption, DisjointAssumption, PlaceSets
<1>1. TypeOK /\ TypeOK'
  BY DEF Inv, Typed
<1>2. PICK b \in Batch : /\ b = mine[c] /\ worker[b] = "none"
                        /\ batch[b] \in {"PENDING", "FAILED"}
                        /\ caller[c] = "dispatching"
  BY DEF Inv, CallersInv, FreshMine, Spawn
<1>3. BatchInv(b)
  BY <1>2 DEF Inv, JobsInv
<1>4. /\ worker' = [worker EXCEPT ![b] = "start"]
      /\ UNCHANGED <<batch, job, seen, execLock, todo, current>>
      /\ caller' = [caller EXCEPT ![c] = "idle"]
      /\ mine' = [mine EXCEPT ![c] = NoBatch]
  BY <1>2 DEF Spawn, Dispatched, dbVars
<1>5. worker'[b] = "start" /\ \A o \in Batch \ {b} : Same(o)
  BY <1>1, <1>2, <1>4 DEF Same, TypeOK
<1>6. BatchInv(b)'
  BY <1>2, <1>3, <1>4, <1>5 DEF BatchInv, JobInv
<1>7. JobsInv'
  BY <1>5, <1>6, SameKeeps DEF Inv, JobsInv
<1>8. SoleReserver'
  BY <1>1, <1>4 DEF Inv, CallersInv, SoleReserver, InReserve, TypeOK
<1>9. FreshMine'
  BY <1>1, <1>2, <1>4, <1>5 DEF Inv, CallersInv, FreshMine, Same, TypeOK
<1>10. SeenActive'
  <2>1. \A d \in Caller : (caller'[d] = "creating" <=> caller[d] = "creating")
                          /\ (InReserve(d)' <=> InReserve(d))
    BY <1>1, <1>2, <1>4 DEF InReserve, TypeOK
  <2> QED
    BY <1>4, <2>1 DEF Inv, CallersInv, SeenActive
<1> QED
  BY <1>4, <1>7, <1>8, <1>9, <1>10 DEF Inv, CallersInv, OneActiveBatch

LEMMA ReserveBeginKeeps ==
  ASSUME Inv, Typed', NEW c \in Caller, ReserveBegin(c)
  PROVE  Inv'
<1> USE NoBatchAssumption, DisjointAssumption, PlaceSets
<1>1. TypeOK /\ TypeOK'
  BY DEF Inv, Typed
<1>2. /\ UNCHANGED <<batch, job, mine, execLock, worker, todo, current>>
      /\ caller[c] = "idle" /\ \A d \in Caller : ~InReserve(d)
      /\ caller' = [caller EXCEPT ![c] = "reserving"]
  BY DEF ReserveBegin, ReservationFree, InReserve, dbVars, workerVars
<1>3. \/ \E b \in Batch : batch[b] \in Active /\ seen' = [seen EXCEPT ![c] = b]
      \/ seen' = [seen EXCEPT ![c] = NoBatch]
  BY DEF ReserveBegin, Abandonable
<1>4. JobsInv'
  BY <1>2, SameKeeps DEF Inv, JobsInv, Same
<1>5. SoleReserver'
  BY <1>1, <1>2 DEF SoleReserver, InReserve, TypeOK
<1>6. FreshMine'
  BY <1>1, <1>2 DEF Inv, CallersInv, FreshMine, TypeOK
<1>7. SeenActive'
  <2>1. \A d \in Caller \ {c} : caller'[d] = caller[d] /\ seen'[d] = seen[d]
    BY <1>1, <1>2, <1>3 DEF TypeOK
  <2>2. caller'[c] = "reserving"
    BY <1>1, <1>2 DEF TypeOK
  <2>3. \/ seen'[c] = NoBatch
        \/ /\ seen'[c] \in Batch /\ batch[seen'[c]] \in Active
           /\ \A b \in Batch : batch[b] \in Active => b = seen'[c]
    BY <1>1, <1>3 DEF Inv, OneActiveBatch, TypeOK
  <2> QED
    BY <1>2, <2>1, <2>2, <2>3 DEF Inv, CallersInv, SeenActive, InReserve
<1> QED
  BY <1>2, <1>4, <1>5, <1>6, <1>7 DEF Inv, CallersInv, OneActiveBatch

(* What recovery does to a batch: nothing, or fail it with its jobs; then  *)
(* no worker is executing anything, since the execution lock is the        *)
(* caller's or nobody's.                                                   *)
Left(c, o) == RecoveredBatch(c)[o] = batch[o] /\ RecoveredJob(c)[o] = job[o]
Reclaimed(c, o) ==
  /\ batch[o] # "NONE" /\ worker[o] \notin Locked
  /\ RecoveredBatch(c)[o] = "FAILED"
  /\ \A a \in Account : RecoveredJob(c)[o][a] \notin Active

LEMMA LockFree ==
  ASSUME Inv, NEW c \in Caller, execLock \in {NoBatch, c}
  PROVE  \A b \in Batch : worker[b] \notin Locked
  BY NoBatchAssumption, DisjointAssumption DEF Inv, JobsInv, BatchInv

LEMMA Recovery ==
  ASSUME Inv, NEW c \in Caller
  PROVE  /\ \A o \in Batch : Left(c, o) \/ Reclaimed(c, o)
         /\ ~Reclaims(c) => \A o \in Batch : Left(c, o)
         /\ Reclaims(c) => \A o \in Batch : RecoveredBatch(c)[o] \notin Active
<1>1. TypeOK
  BY DEF Inv, Typed
<1>2. CASE Reclaims(c)
  <2>1. PICK s \in Batch : /\ s = seen[c] /\ batch[s] # "NONE"
                           /\ \A b \in Batch : batch[b] \in Active => b = s
    BY <1>1, <1>2 DEF Reclaims, Inv, CallersInv, SeenActive, TypeOK
  <2>2. worker[s] \notin Locked
    BY <1>2, LockFree DEF Reclaims
  <2>3. RecoveredBatch(c) = [batch EXCEPT ![s] = "FAILED"] /\ RecoveredJob(c) = FailActiveJobs(s)
    BY <1>2, <2>1 DEF RecoveredBatch, RecoveredJob
  <2>4. \A o \in Batch : RecoveredBatch(c)[o] = IF o = s THEN "FAILED" ELSE batch[o]
    BY <1>1, <2>3 DEF TypeOK
  <2>5. Reclaimed(c, s)
    BY <1>1, <2>1, <2>2, <2>3, <2>4, FailedJobs DEF Reclaimed, FailActive, Active
  <2>6. \A o \in Batch \ {s} : Left(c, o)
    BY <1>1, <2>3, <2>4, FailedJobs DEF Left
  <2> QED
    BY <1>2, <2>1, <2>4, <2>5, <2>6 DEF Active
<1>3. CASE ~Reclaims(c)
  BY <1>3 DEF Left, RecoveredBatch, RecoveredJob
<1> QED
  BY <1>2, <1>3

(* The rows of a batch that recovery may have changed, when the processes  *)
(* stand still.                                                            *)
LEMMA RecoveredKeeps ==
  ASSUME Inv, Typed', NEW c \in Caller, NEW o \in Batch,
         batch'[o] = RecoveredBatch(c)[o], job'[o] = RecoveredJob(c)[o],
         UNCHANGED <<worker, todo, current>>,
         execLock = o => execLock' = o
  PROVE  BatchInv(o)'
<1>1. TypeOK /\ TypeOK' /\ BatchInv(o)
  BY DEF Inv, JobsInv, Typed
<1>2. CASE Left(c, o)
  BY <1>1, <1>2, SameKeeps DEF Left, Same
<1>3. CASE Reclaimed(c, o)
  <2>1. /\ batch[o] # "NONE" /\ batch'[o] = "FAILED"
        /\ worker[o] \notin Owning /\ worker'[o] \notin Owning /\ worker'[o] \notin Locked
        /\ \A a \in Account : job'[o][a] \notin Active
    BY <1>3 DEF Reclaimed, Locked
  <2> QED
    BY <1>1, <2>1, FailedKeeps
<1> QED
  BY <1>2, <1>3, Recovery

(* The only caller in its reservation goes back to idle.                   *)
LEMMA LeaveKeeps ==
  ASSUME Inv, Typed', NEW c \in Caller, InReserve(c), Leave(c), UNCHANGED <<mine, worker>>,
         \A o \in Batch : batch'[o] = batch[o] \/ batch'[o] = "FAILED"
  PROVE  CallersInv' /\ OneActiveBatch'
<1> USE NoBatchAssumption, PlaceSets
<1>1. TypeOK /\ TypeOK'
  BY DEF Inv, Typed
<1>2. /\ caller'[c] = "idle" /\ seen'[c] = NoBatch
      /\ \A d \in Caller \ {c} : caller'[d] = caller[d] /\ seen'[d] = seen[d] /\ ~InReserve(d)
  BY <1>1 DEF Leave, Inv, CallersInv, SoleReserver, TypeOK
<1>3. SoleReserver'
  BY <1>2 DEF SoleReserver, InReserve
<1>4. FreshMine'
  BY <1>1, <1>2 DEF Inv, CallersInv, FreshMine, TypeOK
<1>5. SeenActive'
  <2>1. \A d \in Caller : seen'[d] = NoBatch /\ caller'[d] # "creating"
    BY <1>2 DEF Inv, CallersInv, SeenActive, InReserve
  <2> QED
    BY <2>1 DEF SeenActive
<1>6. OneActiveBatch'
  BY DEF Inv, OneActiveBatch
<1> QED
  BY <1>3, <1>4, <1>5, <1>6 DEF CallersInv

LEMMA ReserveNothingKeeps ==
  ASSUME Inv, Typed', NEW c \in Caller, ReserveNothing(c)
  PROVE  Inv'
<1> USE NoBatchAssumption, DisjointAssumption
<1>1. /\ InReserve(c) /\ Leave(c)
      /\ batch' = RecoveredBatch(c) /\ job' = RecoveredJob(c)
      /\ UNCHANGED <<mine, worker, todo, current>>
  BY DEF ReserveNothing, InReserve
<1>2. \A o \in Batch : execLock = o => execLock' = o
  BY DEF ReserveNothing, Unlock
<1>3. \A o \in Batch : batch'[o] = batch[o] \/ batch'[o] = "FAILED"
  BY <1>1, Recovery DEF Left, Reclaimed
<1>4. JobsInv'
  BY <1>1, <1>2, RecoveredKeeps DEF JobsInv
<1> QED
  BY <1>1, <1>3, <1>4, LeaveKeeps DEF Inv

LEMMA ReserveRejectedKeeps ==
  ASSUME Inv, Typed', NEW c \in Caller, ReserveRejected(c)
  PROVE  Inv'
<1> USE NoBatchAssumption, DisjointAssumption
<1>1. /\ InReserve(c) /\ Leave(c)
      /\ UNCHANGED <<batch, job, mine, worker, todo, current>>
  BY DEF ReserveRejected, InReserve, dbVars
<1>2. \A o \in Batch : Same(o)
  BY <1>1 DEF Same, ReserveRejected, Unlock
<1>3. JobsInv'
  BY <1>2, SameKeeps DEF Inv, JobsInv
<1> QED
  BY <1>1, <1>3, LeaveKeeps DEF Inv

LEMMA ReserveCheckKeeps ==
  ASSUME Inv, Typed', NEW c \in Caller, ReserveCheck(c)
  PROVE  Inv'
<1> USE NoBatchAssumption, DisjointAssumption
<1>1. TypeOK /\ TypeOK'
  BY DEF Inv, Typed
<1>2. /\ InReserve(c) /\ NoneActive(RecoveredBatch(c))
      /\ caller' = [caller EXCEPT ![c] = "creating"]
      /\ UNCHANGED <<batch, job, mine, worker, todo, current>>
  BY DEF ReserveCheck, InReserve, dbVars
<1>3. \/ Reclaims(c) /\ execLock' = c /\ UNCHANGED seen
      \/ ~Reclaims(c) /\ seen' = [seen EXCEPT ![c] = NoBatch] /\ UNCHANGED execLock
  BY DEF ReserveCheck
<1>4. /\ caller'[c] = "creating"
      /\ \A d \in Caller \ {c} : caller'[d] = caller[d] /\ seen'[d] = seen[d] /\ ~InReserve(d)
  BY <1>1, <1>2, <1>3 DEF Inv, CallersInv, SoleReserver, TypeOK
<1>5. JobsInv'
  <2>1. \A o \in Batch : execLock = o => execLock' = o
    BY <1>3 DEF Reclaims
  <2> QED
    BY <1>2, <2>1, SameKeeps DEF Inv, JobsInv, Same
<1>6. SoleReserver'
  BY <1>4 DEF SoleReserver, InReserve
<1>7. FreshMine'
  BY <1>1, <1>2, <1>4 DEF Inv, CallersInv, FreshMine, TypeOK
<1>8. SeenActive'
  <2>1. \A d \in Caller \ {c} : seen'[d] = NoBatch /\ caller'[d] # "creating"
    BY <1>4 DEF Inv, CallersInv, SeenActive, InReserve
  <2>2. CASE Reclaims(c)
    <3>1. seen'[c] # NoBatch /\ execLock' = c /\ seen'[c] = seen[c]
      BY <1>3, <2>2 DEF Reclaims
    <3>2. /\ batch'[seen'[c]] # "NONE"
          /\ \A b \in Batch : batch'[b] \in Active => b = seen'[c]
      BY <1>2, <3>1 DEF Inv, CallersInv, SeenActive
    <3> QED
      BY <1>2, <1>4, <2>1, <3>1, <3>2 DEF SeenActive, InReserve
  <2>3. CASE ~Reclaims(c)
    <3>1. seen'[c] = NoBatch
      BY <1>1, <1>3, <2>3 DEF TypeOK
    <3>2. \A b \in Batch : batch'[b] \notin Active
      BY <1>2, <2>3, Recovery DEF Left, NoneActive
    <3> QED
      BY <2>1, <3>1, <3>2 DEF SeenActive
  <2> QED
    BY <2>2, <2>3
<1> QED
  BY <1>2, <1>5, <1>6, <1>7, <1>8 DEF Inv, CallersInv, OneActiveBatch

LEMMA ReserveCreateKeeps ==
  ASSUME Inv, Typed', NEW c \in Caller, ReserveCreate(c)
  PROVE  Inv'
<1> USE NoBatchAssumption, DisjointAssumption, PlaceSets
<1>1. TypeOK /\ TypeOK'
  BY DEF Inv, Typed
<1> DEFINE accounts(chosen) ==
      {a \in chosen : \A o \in Batch : RecoveredJob(c)[o][a] \notin Active}
<1>2. PICK b \in Batch, chosen \in SUBSET Account :
        /\ batch[b] = "NONE"
        /\ batch' = [RecoveredBatch(c) EXCEPT ![b] = "PENDING"]
        /\ job' = [RecoveredJob(c) EXCEPT ![b] =
                     [a \in Account |-> IF a \in accounts(chosen) THEN "PENDING" ELSE "NONE"]]
        /\ mine' = [mine EXCEPT ![c] = b]
  BY DEF ReserveCreate
<1> HIDE DEF accounts
<1>3. /\ caller[c] = "creating" /\ InReserve(c)
      /\ caller' = [caller EXCEPT ![c] = "dispatching"]
      /\ seen' = [seen EXCEPT ![c] = NoBatch]
      /\ UNCHANGED <<worker, todo, current>>
  BY DEF ReserveCreate, InReserve
<1>4. \A o \in Batch : execLock = o => execLock' = o
  BY DEF ReserveCreate, Unlock
<1>5. /\ caller'[c] = "dispatching" /\ seen'[c] = NoBatch /\ mine'[c] = b
      /\ \A d \in Caller \ {c} : /\ caller'[d] = caller[d] /\ seen'[d] = seen[d]
                                 /\ mine'[d] = mine[d] /\ ~InReserve(d)
  BY <1>1, <1>2, <1>3 DEF Inv, CallersInv, SoleReserver, TypeOK
<1>6. \A o \in Batch : RecoveredBatch(c)[o] \notin Active
  <2>1. CASE seen[c] = NoBatch
    <3>1. ~Reclaims(c) /\ \A o \in Batch : batch[o] \notin Active
      BY <1>3, <2>1 DEF Reclaims, Inv, CallersInv, SeenActive
    <3> QED
      BY <3>1, Recovery DEF Left
  <2>2. CASE seen[c] # NoBatch
    <3>1. Reclaims(c)
      BY <1>3, <2>2 DEF Reclaims, Inv, CallersInv, SeenActive
    <3> QED
      BY <3>1, Recovery
  <2> QED
    BY <2>1, <2>2
<1>7. /\ batch'[b] = "PENDING"
      /\ \A o \in Batch \ {b} : batch'[o] = RecoveredBatch(c)[o] /\ job'[o] = RecoveredJob(c)[o]
      /\ \A a \in Account : job'[b][a] \in {"PENDING", "NONE"}
  BY <1>1, <1>2, RecoveredType
<1>8. JobsInv'
  <2>1. ASSUME NEW o \in Batch \ {b} PROVE BatchInv(o)'
    BY <1>3, <1>4, <1>7, <2>1, RecoveredKeeps
  <2>2. BatchInv(b) /\ worker'[b] = "none"
    BY <1>2, <1>3 DEF Inv, JobsInv, BatchInv
  <2>3. BatchInv(b)'
    BY <1>2, <1>3, <1>7, <2>2 DEF BatchInv, JobInv
  <2> QED
    BY <2>1, <2>3 DEF JobsInv
<1>9. SoleReserver'
  BY <1>5 DEF SoleReserver, InReserve
<1>10. FreshMine'
  <2>1. worker'[b] = "none"
    BY <1>2, <1>3 DEF Inv, JobsInv, BatchInv
  <2>2. ASSUME NEW d \in Caller \ {c}, caller[d] = "dispatching"
        PROVE  /\ mine[d] \in Batch \ {b} /\ worker'[mine[d]] = "none"
               /\ batch'[mine[d]] \in {"PENDING", "FAILED"}
    <3>1. PICK o \in Batch : o = mine[d] /\ worker[o] = "none" /\ batch[o] \in {"PENDING", "FAILED"}
      BY <2>2 DEF Inv, CallersInv, FreshMine
    <3>2. o # b
      BY <1>2, <3>1
    <3>3. RecoveredBatch(c)[o] \in {batch[o], "FAILED"}
      BY Recovery DEF Left, Reclaimed
    <3> QED
      BY <1>3, <1>7, <3>1, <3>2, <3>3
  <2> QED
    BY <1>5, <1>7, <2>1, <2>2 DEF Inv, CallersInv, FreshMine
<1>11. SeenActive'
  <2>1. \A d \in Caller : seen'[d] = NoBatch /\ caller'[d] # "creating"
    BY <1>5 DEF Inv, CallersInv, SeenActive, InReserve
  <2> QED
    BY <2>1 DEF SeenActive
<1>12. OneActiveBatch'
  BY <1>6, <1>7 DEF OneActiveBatch
<1> QED
  BY <1>8, <1>9, <1>10, <1>11, <1>12 DEF Inv, CallersInv

LEMMA ApiCrashKeeps ==
  ASSUME Inv, Typed', ApiCrash
  PROVE  Inv'
<1> USE NoBatchAssumption, DisjointAssumption
<1>1. UNCHANGED <<batch, job, worker, todo, current>>
  BY DEF ApiCrash, dbVars
<1>2. \A c \in Caller : caller'[c] = "idle" /\ seen'[c] = NoBatch
  BY DEF ApiCrash
<1>3. \A b \in Batch : Same(b)
  BY <1>1 DEF Same, ApiCrash
<1>4. JobsInv'
  BY <1>3, SameKeeps DEF Inv, JobsInv
<1>5. CallersInv'
  BY <1>2 DEF CallersInv, SoleReserver, FreshMine, SeenActive, InReserve
<1> QED
  BY <1>1, <1>4, <1>5 DEF Inv, OneActiveBatch

-----------------------------------------------------------------------------
LEMMA InvInit == Init => Inv
<1> SUFFICES ASSUME Init PROVE Inv
  OBVIOUS
<1>1. Typed
  BY MaxCrashesAssumption, Places, Statuses DEF Typed, Reserved, Init, TypeOK
<1>2. CallersInv
  BY DEF Init, CallersInv, SoleReserver, FreshMine, SeenActive, InReserve
<1>3. JobsInv
  BY PlaceSets DEF Init, JobsInv, BatchInv, JobInv
<1>4. OneActiveBatch
  BY DEF Init, OneActiveBatch, Active
<1> QED
  BY <1>1, <1>2, <1>3, <1>4 DEF Inv

LEMMA InvStep == Inv /\ [Next]_vars => Inv'
<1> SUFFICES ASSUME Inv, [Next]_vars PROVE Inv'
  OBVIOUS
<1>0. Typed'
  BY TypedStep DEF Inv
<1>1. ASSUME NEW c \in Caller, Call(c) PROVE Inv'
  BY <1>0, <1>1, ReserveBeginKeeps, ReserveCheckKeeps, ReserveNothingKeeps,
     ReserveRejectedKeeps, ReserveCreateKeeps, SpawnKeeps, SpawnFailsKeeps
     DEF Call, Reserve, Dispatch
<1>2. ASSUME NEW b \in Batch, RunBatch(b) PROVE Inv'
  <2>1. CASE StopJob(b) \/ FinishAccount(b)
    <3>1. PICK outcome \in Terminal : FinishJob(b, outcome)
      BY <2>1 DEF StopJob, FinishAccount, Terminal
    <3>2. worker[b] \in Busy
      BY <2>1 DEF StopJob, FinishAccount, Busy
    <3> QED
      BY <1>0, <3>1, <3>2, FinishJobKeeps
  <2>2. CASE StartBatch(b) \/ WriteHeartbeat(b)
    BY <1>0, <2>2, WriteMetadataKeeps DEF StartBatch, WriteHeartbeat
  <2>3. CASE ~(StopJob(b) \/ FinishAccount(b) \/ StartBatch(b) \/ WriteHeartbeat(b))
    BY <1>0, <1>2, <2>3, TakeLockKeeps, ClaimBatchKeeps, OpenBatchKeeps, ClaimJobKeeps,
       RequestKeeps, NextRequestKeeps, ReadHeartbeatKeeps, FinishBatchKeeps, ReleaseKeeps,
       HandleKeeps
       DEF RunBatch
  <2> QED
    BY <2>1, <2>2, <2>3
<1>3. ASSUME NEW b \in Batch, Fault(b) PROVE Inv'
  BY <1>0, <1>3, RaiseKeeps, CrashKeeps DEF Fault
<1>4. ASSUME NEW b \in Batch, Cancel(b) \/ Age(b) PROVE Inv'
  BY <1>0, <1>4, CoreFrame DEF Cancel, Age, apiVars, workerVars
<1>5. CASE SetEnabled
  BY <1>0, <1>5, CoreFrame DEF SetEnabled, apiVars, workerVars
<1>6. CASE Shutdown
  <2>1. CASE ShutdownBegin \/ ShutdownEnd
    BY <1>0, <2>1, CoreFrame DEF ShutdownBegin, ShutdownEnd, dbVars, workerVars
  <2>2. ASSUME NEW b \in Batch, Joined(b) PROVE Inv'
    BY <1>0, <2>2, CoreFrame DEF Joined, dbVars, workerVars
  <2> QED
    BY <1>0, <1>6, <2>1, <2>2, TerminateKeeps, MarkTerminatedKeeps DEF Shutdown
<1>7. CASE ApiCrash
  BY <1>0, <1>7, ApiCrashKeeps
<1>8. CASE ApiStart
  BY <1>0, <1>8, CoreFrame DEF ApiStart, dbVars, workerVars
<1>9. CASE UNCHANGED vars
  BY <1>0, <1>9, CoreFrame DEF vars, dbVars, apiVars, workerVars
<1> QED
  BY <1>1, <1>2, <1>3, <1>4, <1>5, <1>6, <1>7, <1>8, <1>9 DEF Next

THEOREM Invariance == Spec => []Inv
<1> QED
  BY InvInit, InvStep, PTL DEF Spec

(* The reservation lock, the re-read in recover_abandoned() and the check  *)
(* for an active batch together keep reserve() off the partial unique      *)
(* index uq_best_offer_batch_job, for any number of callers and crashes.   *)
THEOREM OneActiveBatchHolds == Spec => []OneActiveBatch
<1>1. Inv => OneActiveBatch
  BY DEF Inv
<1> QED
  BY <1>1, Invariance, PTL

(* Whatever dies on the way, no job stays PENDING or RUNNING in a batch    *)
(* that has ended, where recover_abandoned() would not look for it.        *)
THEOREM NoJobIsLeftBehind == Spec => []NoJobLeftBehind
<1>1. Inv => NoJobLeftBehind
  BY DEF Inv, JobsInv, BatchInv, JobInv, NoJobLeftBehind
<1> QED
  BY <1>1, Invariance, PTL

(* recover_abandoned() never takes a batch from a worker that executes it: *)
(* run_batch() holds 'batch-execution' from claim() to the last commit.    *)
THEOREM LiveWorkerKeepsIt == Spec => []LiveWorkerKeepsItsBatch
<1>1. Inv => LiveWorkerKeepsItsBatch
  <2> SUFFICES ASSUME Inv, NEW b \in Batch, worker[b] \in Owning
               PROVE  /\ batch[b] = "RUNNING" /\ execLock = b
                      /\ \A a \in current[b] : job[b][a] = "RUNNING"
    BY DEF LiveWorkerKeepsItsBatch
  <2>1. BatchInv(b) /\ current[b] \in SUBSET Account
    BY DEF Inv, JobsInv, Typed, TypeOK
  <2> QED
    BY <2>1 DEF BatchInv, JobInv, Locked
<1> QED
  BY <1>1, Invariance, PTL

-----------------------------------------------------------------------------
(* Outcomes are final.                                                     *)
OutcomesKept ==
  \A b \in Batch, a \in Account : job[b][a] \in Terminal => job'[b][a] = job[b][a]

LEMMA TerminalNotActive ==
  ASSUME NEW s \in Terminal
  PROVE  s \notin Active /\ FailActive(s) = s /\ FailPending(s) = s
  BY DEF Terminal, Active, FailActive, FailPending

LEMMA FailActiveKeepsOutcomes ==
  ASSUME TypeOK, NEW b \in Batch, job' = FailActiveJobs(b)
  PROVE  OutcomesKept
  BY FailedJobs, TerminalNotActive DEF OutcomesKept

LEMMA RecoveryKeepsOutcomes ==
  ASSUME TypeOK, NEW c \in Caller, NEW b \in Batch, NEW a \in Account,
         job[b][a] \in Terminal
  PROVE  RecoveredJob(c)[b][a] = job[b][a]
<1>1. CASE Reclaims(c)
  <2>1. seen[c] \in Batch
    BY <1>1 DEF Reclaims, TypeOK
  <2> QED
    BY <1>1, <2>1, FailedJobs, TerminalNotActive DEF RecoveredJob
<1>2. CASE ~Reclaims(c)
  BY <1>2 DEF RecoveredJob
<1> QED
  BY <1>1, <1>2

LEMMA OutcomeStep == Inv /\ [Next]_vars => OutcomesKept
<1> SUFFICES ASSUME Inv, [Next]_vars PROVE OutcomesKept
  OBVIOUS
<1>0. TypeOK
  BY DEF Inv, Typed
<1>1. CASE UNCHANGED job
  BY <1>1 DEF OutcomesKept
<1>2. ASSUME NEW c \in Caller, ReserveNothing(c) PROVE OutcomesKept
  BY <1>0, <1>2, RecoveryKeepsOutcomes DEF ReserveNothing, OutcomesKept
<1>3. ASSUME NEW c \in Caller, ReserveCreate(c) PROVE OutcomesKept
  <2> DEFINE accounts(chosen) ==
        {a \in chosen : \A o \in Batch : RecoveredJob(c)[o][a] \notin Active}
  <2>1. PICK b \in Batch, chosen \in SUBSET Account :
          /\ batch[b] = "NONE"
          /\ job' = [RecoveredJob(c) EXCEPT ![b] =
                       [a \in Account |-> IF a \in accounts(chosen) THEN "PENDING" ELSE "NONE"]]
    BY <1>3 DEF ReserveCreate
  <2>2. \A o \in Batch \ {b} : job'[o] = RecoveredJob(c)[o]
    BY <1>0, <2>1, RecoveredType
  <2>3. \A a \in Account : job[b][a] \notin Terminal
    BY <2>1 DEF Inv, JobsInv, BatchInv, Terminal
  <2> QED
    BY <1>0, <2>2, <2>3, RecoveryKeepsOutcomes DEF OutcomesKept
<1>4. ASSUME NEW c \in Caller, SpawnFails(c) PROVE OutcomesKept
  <2>1. PICK b \in Batch : job' = [job EXCEPT ![b] = [a \in Account |-> FailPending(@[a])]]
    BY <1>4 DEF SpawnFails, Inv, CallersInv, FreshMine
  <2> QED
    BY <1>0, <2>1, TerminalNotActive DEF OutcomesKept, TypeOK
<1>5. ASSUME NEW b \in Batch, ClaimJob(b) PROVE OutcomesKept
  <2>1. PICK a \in Account : \/ job[b][a] = "PENDING" /\ job' = [job EXCEPT ![b][a] = "RUNNING"]
                             \/ UNCHANGED job
    BY <1>0, <1>5 DEF ClaimJob, TypeOK
  <2> QED
    BY <1>0, <2>1 DEF OutcomesKept, TypeOK, Terminal
<1>6. ASSUME NEW b \in Batch, StopJob(b) \/ FinishAccount(b) PROVE OutcomesKept
  <2>1. PICK outcome \in Terminal : FinishJob(b, outcome)
    BY <1>6 DEF StopJob, FinishAccount, Terminal
  <2>2. \A a \in Account : a \in current[b] => job[b][a] = "RUNNING"
    BY DEF Inv, JobsInv, BatchInv, JobInv
  <2>3. /\ \A o \in Batch \ {b} : job'[o] = job[o]
        /\ \A a \in Account : a \notin current[b] => job'[b][a] = job[b][a]
    BY <1>0, <2>1 DEF FinishJob, TypeOK
  <2> QED
    BY <2>2, <2>3 DEF OutcomesKept, Terminal
<1>7. ASSUME NEW b \in Batch, Handle(b) \/ MarkTerminated(b) PROVE OutcomesKept
  BY <1>0, <1>1, <1>7, FailActiveKeepsOutcomes DEF Handle, MarkTerminated
<1>8. ASSUME NEW c \in Caller, Call(c) PROVE OutcomesKept
  <2>1. CASE ReserveBegin(c) \/ ReserveCheck(c) \/ ReserveRejected(c) \/ Spawn(c)
    BY <1>1, <2>1 DEF ReserveBegin, ReserveCheck, ReserveRejected, Spawn, dbVars
  <2> QED
    BY <1>2, <1>3, <1>4, <1>8, <2>1 DEF Call, Reserve, Dispatch
<1>9. ASSUME NEW b \in Batch, RunBatch(b) PROVE OutcomesKept
  <2>1. CASE ~(ClaimJob(b) \/ StopJob(b) \/ FinishAccount(b) \/ Handle(b))
    BY <1>1, <1>9, <2>1 DEF RunBatch, TakeLock, ClaimBatch, OpenBatch, StartBatch, WriteMetadata,
       Request, NextRequest, ReadHeartbeat, WriteHeartbeat, FinishBatch, Release, dbVars
  <2> QED
    BY <1>5, <1>6, <1>7, <2>1
<1>10. ASSUME NEW b \in Batch, Fault(b) \/ Cancel(b) \/ Age(b) \/ Terminate(b) \/ Joined(b)
       PROVE OutcomesKept
  BY <1>1, <1>10 DEF Fault, Raise, Crash, Cancel, Age, Terminate, Joined, dbVars
<1>11. CASE SetEnabled \/ ShutdownBegin \/ ShutdownEnd \/ ApiCrash \/ ApiStart
  BY <1>1, <1>11 DEF SetEnabled, ShutdownBegin, ShutdownEnd, ApiCrash, ApiStart, dbVars
<1>12. CASE Shutdown
  BY <1>7, <1>10, <1>11, <1>12 DEF Shutdown
<1>13. CASE UNCHANGED vars
  BY <1>1, <1>13 DEF vars, dbVars
<1> QED
  BY <1>8, <1>9, <1>10, <1>11, <1>12, <1>13 DEF Next

(* No late writer - a reclaim, a shutdown, an exception handler, the       *)
(* worker of a reclaimed batch - rewrites the recorded outcome of a job.   *)
THEOREM OutcomesAreFinal == Spec => JobOutcomeFinal
<1>1. Inv /\ [Next]_vars =>
        [\A b \in Batch, a \in Account : job[b][a] \in Terminal => job'[b][a] = job[b][a]]_vars
  BY OutcomeStep DEF OutcomesKept
<1> QED
  BY <1>1, Invariance, PTL DEF Spec, JobOutcomeFinal

-----------------------------------------------------------------------------
(* Shutdown.                                                               *)

(* A live worker is supervised or has lost its parent.                     *)
Supervised == \A b \in Batch : worker[b] \in Alive => b \in children \cup orphans

LEMMA SupervisedStep == TypeOK /\ Supervised /\ [Next]_vars => Supervised'
<1> SUFFICES ASSUME TypeOK, Supervised, [Next]_vars PROVE Supervised'
  OBVIOUS
<1> USE PlaceSets
<1>1. CASE UNCHANGED <<children, orphans>> /\ \A b \in Batch : worker'[b] \in Alive => worker[b] \in Alive
  BY <1>1 DEF Supervised
<1>2. ASSUME NEW c \in Caller, Call(c) PROVE Supervised'
  <2>1. CASE Spawn(c)
    <3>1. /\ UNCHANGED orphans /\ children' = LiveChildren \cup {mine[c]}
          /\ \A b \in Batch : worker'[b] = worker[b] \/ b = mine[c]
      BY <2>1 DEF Spawn, TypeOK
    <3> QED
      BY <3>1 DEF Supervised, LiveChildren
  <2>2. CASE SpawnFails(c)
    BY <2>2 DEF SpawnFails, LiveChildren, Supervised, workerVars
  <2>3. CASE ReserveBegin(c) \/ Reserve(c)
    BY <1>1, <2>3 DEF ReserveBegin, Reserve, ReserveCheck, ReserveNothing, ReserveRejected,
       ReserveCreate, workerVars
  <2> QED
    BY <1>2, <2>1, <2>2, <2>3 DEF Call, Dispatch
<1>3. ASSUME NEW b \in Batch, RunBatch(b) PROVE Supervised'
  <2>1. worker[b] \in Alive /\ UNCHANGED <<children, orphans>>
    BY <1>3 DEF RunBatch, TakeLock, ClaimBatch, OpenBatch, StartBatch, WriteMetadata, ClaimJob,
       Request, StopJob, NextRequest, FinishAccount, FinishJob, ReadHeartbeat, WriteHeartbeat,
       FinishBatch, Release, Handle, apiVars
  <2>2. \A o \in Batch \ {b} : worker'[o] = worker[o]
    BY <1>3 DEF RunBatch, TakeLock, ClaimBatch, OpenBatch, StartBatch, WriteMetadata, ClaimJob,
       Request, StopJob, NextRequest, FinishAccount, FinishJob, ReadHeartbeat, WriteHeartbeat,
       FinishBatch, Release, Handle, Goto, TypeOK
  <2> QED
    BY <1>1, <2>1, <2>2
<1>4. ASSUME NEW b \in Batch, Fault(b) \/ Terminate(b) PROVE Supervised'
  BY <1>1, <1>4 DEF Fault, Raise, Crash, Terminate, Goto, apiVars, TypeOK
<1>5. ASSUME NEW b \in Batch, Cancel(b) \/ Age(b) PROVE Supervised'
  BY <1>1, <1>5 DEF Cancel, Age, apiVars, workerVars
<1>6. ASSUME NEW b \in Batch, Joined(b) \/ MarkTerminated(b) PROVE Supervised'
  BY <1>6 DEF Joined, MarkTerminated, workerVars, Supervised
<1>7. CASE SetEnabled \/ ShutdownBegin \/ ShutdownEnd \/ ApiStart
  BY <1>1, <1>7 DEF SetEnabled, ShutdownBegin, ShutdownEnd, ApiStart, apiVars, workerVars
<1>8. CASE ApiCrash
  BY <1>8 DEF ApiCrash, LiveChildren, Supervised
<1>9. CASE UNCHANGED vars
  BY <1>1, <1>9 DEF vars, apiVars, workerVars
<1> QED
  BY <1>2, <1>3, <1>4, <1>5, <1>6, <1>7, <1>8, <1>9 DEF Next, Shutdown

(* shutdown_workers() leaves no worker behind: once _workers is empty in a *)
(* stopping API process, every live worker is an orphan of a crash.        *)
THEOREM ShutdownLeavesNone == Spec => []NoWorkerOutlivesShutdown
<1>1. Init => Supervised
  BY DEF Init, Supervised, Alive, Locked, Owning, Busy
<1>2. Inv => TypeOK
  BY DEF Inv, Typed
<1>3. Supervised => NoWorkerOutlivesShutdown
  BY DEF Supervised, NoWorkerOutlivesShutdown
<1> QED
  BY <1>1, <1>2, <1>3, SupervisedStep, Invariance, PTL DEF Spec

(* Batches, jobs and workers stay in step, whatever dies or is stopped.    *)
THEOREM BatchIsKept == Spec => []BatchKept
<1>1. NoJobLeftBehind /\ LiveWorkerKeepsItsBatch /\ NoWorkerOutlivesShutdown <=> BatchKept
  BY DEF BatchKept
<1> QED
  BY <1>1, NoJobIsLeftBehind, LiveWorkerKeepsIt, ShutdownLeavesNone, PTL

-----------------------------------------------------------------------------
(* BestOfferJobs implements SingleFlight, for every set of accounts,       *)
(* batches and callers. Under the inductive invariant at most one worker   *)
(* executes a batch, and that batch is the only active one: every step is  *)
(* then one of five kinds, and each kind is a step of SingleFlight or none.*)

(* The images of the two variables of SingleFlight.                        *)
Phase == [b \in Batch |-> IF batch[b] = "NONE" THEN "new"
                          ELSE IF batch[b] \in Active THEN "open" ELSE "closed"]
Executing == IF execLock \in Batch /\ worker[execLock] \in Owning
             THEN execLock ELSE NoBatch

LEMMA ExecutingIs ==
  ASSUME Inv
  PROVE  /\ \A b \in Batch : worker[b] \in Owning => Executing = b /\ batch[b] \in Active
         /\ (\A b \in Batch : worker[b] \notin Owning) => Executing = NoBatch
  BY DEF Inv, JobsInv, BatchInv, Executing, Locked, Active

(* While a batch is active, no worker but its own executes.                *)
LEMMA OnlyItsWorker ==
  ASSUME Inv, NEW b \in Batch, batch[b] \in Active
  PROVE  \A o \in Batch \ {b} : worker[o] \notin Owning
  BY ExecutingIs DEF Inv, OneActiveBatch

(* Nothing that SingleFlight sees changes.                                 *)
LEMMA StutterStep ==
  ASSUME Inv, Inv',
         \A b \in Batch : Phase[b]' = Phase[b],
         \A b \in Batch : worker'[b] \in Owning <=> worker[b] \in Owning
  PROVE  UNCHANGED Flight!vars
<1>1. Phase' = Phase
  BY DEF Phase
<1>2. Executing' = Executing
  <2>1. CASE \E b \in Batch : worker[b] \in Owning
    <3>1. PICK b \in Batch : worker[b] \in Owning
      BY <2>1
    <3>2. Executing = b
      BY <3>1, ExecutingIs
    <3>3. Executing' = b
      BY <3>1 DEF Inv, JobsInv, BatchInv, Executing, Locked
    <3> QED
      BY <3>2, <3>3
  <2>2. CASE \A b \in Batch : worker[b] \notin Owning
    <3>1. Executing = NoBatch
      BY <2>2, ExecutingIs
    <3>2. Executing' = NoBatch
      BY <2>2 DEF Executing
    <3> QED
      BY <3>1, <3>2
  <2> QED
    BY <2>1, <2>2
<1> QED
  BY <1>1, <1>2 DEF Flight!vars, Phase, Executing

(* A process leaves run_batch() and no row changes.                        *)
LEMMA VanishStep ==
  ASSUME Inv, Inv', NEW b \in Batch, UNCHANGED batch, worker'[b] \notin Owning,
         \A o \in Batch \ {b} : worker'[o] = worker[o]
  PROVE  [Flight!Next]_Flight!vars
<1>1. CASE worker[b] \in Owning
  <2>1. \A o \in Batch : worker'[o] \notin Owning
    BY <1>1, ExecutingIs, OnlyItsWorker
  <2>2. Executing' = NoBatch
    BY <2>1 DEF Executing
  <2>3. Phase' = Phase
    BY DEF Phase
  <2> QED
    BY <2>2, <2>3 DEF Flight!Next, Flight!Vanish, Phase, Executing
<1>2. CASE worker[b] \notin Owning
  <2>1. \A o \in Batch : worker'[o] \in Owning <=> worker[o] \in Owning
    BY <1>2
  <2>2. \A o \in Batch : Phase[o]' = Phase[o]
    BY DEF Phase
  <2> QED
    BY <2>1, <2>2, StutterStep
<1> QED
  BY <1>1, <1>2

(* An active batch ends, and if a worker executed it that worker is done.  *)
LEMMA CloseStep ==
  ASSUME Inv, Inv', NEW b \in Batch, batch[b] \in Active,
         batch'[b] \notin Active \cup {"NONE"},
         \A o \in Batch \ {b} : batch'[o] = batch[o] /\ worker'[o] = worker[o],
         worker'[b] \notin Owning
  PROVE  [Flight!Next]_Flight!vars
<1>1. \A o \in Batch : worker'[o] \notin Owning
  BY OnlyItsWorker
<1>2. Executing' = NoBatch
  BY <1>1 DEF Executing
<1>3. Executing \in {b, NoBatch}
  BY ExecutingIs, OnlyItsWorker
<1>4. Phase[b] = "open"
  BY DEF Phase, Active
<1>5. Phase' = [Phase EXCEPT ![b] = "closed"]
  BY DEF Phase
<1>6. Flight!Close(b)
  BY <1>2, <1>3, <1>4, <1>5 DEF Flight!Close, Phase, Executing
<1> QED
  BY <1>6 DEF Flight!Next

LEMMA ClaimStep ==
  ASSUME Inv, Inv', NEW b \in Batch, ClaimBatch(b)
  PROVE  [Flight!Next]_Flight!vars
<1>1. TypeOK
  BY DEF Inv, Typed
<1>2. \A o \in Batch \ {b} : batch'[o] = batch[o] /\ worker'[o] = worker[o]
  BY <1>1 DEF ClaimBatch, Goto, TypeOK
<1>3. worker[b] = "claim"
  BY DEF ClaimBatch
<1>4. CASE batch[b] = "PENDING"
  <2>1. worker'[b] = "opened" /\ batch'[b] = "RUNNING"
    BY <1>1, <1>4 DEF ClaimBatch, Goto, TypeOK
  <2>2. \A o \in Batch : worker[o] \notin Owning
    BY <1>3, <1>4, OnlyItsWorker, PlaceSets
  <2>3. Executing = NoBatch
    BY <2>2, ExecutingIs
  <2>4. Executing' = b
    BY <2>1, PlaceSets DEF Inv, JobsInv, BatchInv, Executing
  <2>5. Phase' = Phase /\ Phase[b] = "open"
    BY <1>2, <1>4, <2>1 DEF Phase, Active
  <2>6. Flight!Execute(b)
    BY <2>3, <2>4, <2>5 DEF Flight!Execute, Phase, Executing
  <2> QED
    BY <2>6 DEF Flight!Next
<1>5. CASE batch[b] # "PENDING"
  <2>1. worker'[b] = "releasing" /\ UNCHANGED batch
    BY <1>1, <1>5 DEF ClaimBatch, Goto, TypeOK
  <2> QED
    BY <1>2, <2>1, VanishStep, PlaceSets
<1> QED
  BY <1>4, <1>5

(* reserve() starts a batch, and closes the one it reclaims, at once.      *)
LEMMA StartStep ==
  ASSUME Inv, Inv', NEW c \in Caller, ReserveCreate(c)
  PROVE  [Flight!Next]_Flight!vars
<1>1. TypeOK
  BY DEF Inv, Typed
<1>2. PICK b \in Batch : batch[b] = "NONE" /\ batch' = [RecoveredBatch(c) EXCEPT ![b] = "PENDING"]
  BY DEF ReserveCreate
<1>3. caller[c] = "creating" /\ UNCHANGED worker
  BY DEF ReserveCreate
<1>4. batch'[b] = "PENDING" /\ \A o \in Batch \ {b} : batch'[o] = RecoveredBatch(c)[o]
  BY <1>1, <1>2, RecoveredType
<1>5. \A o \in Batch \ {b} : batch'[o] \notin Active
  BY <1>4 DEF Inv, OneActiveBatch, Active
<1>6. \A o \in Batch : worker[o] \notin Owning
  <2>1. CASE seen[c] = NoBatch
    BY <1>3, <2>1, ExecutingIs DEF Inv, CallersInv, SeenActive
  <2>2. CASE seen[c] # NoBatch
    BY <1>3, <2>2, LockFree DEF Inv, CallersInv, SeenActive, Locked
  <2> QED
    BY <2>1, <2>2
<1>7. Executing = NoBatch /\ Executing' = NoBatch
  BY <1>3, <1>6 DEF Executing
<1>8. Phase[b] = "new"
  BY <1>2 DEF Phase
<1>9. Phase' = [j \in Batch |-> IF j = b THEN "open"
                               ELSE IF Phase[j] = "open" THEN "closed" ELSE Phase[j]]
  <2>1. Phase'[b] = "open"
    BY <1>4 DEF Phase, Active
  <2>2. ASSUME NEW j \in Batch \ {b}
        PROVE  Phase'[j] = IF Phase[j] = "open" THEN "closed" ELSE Phase[j]
    <3>1. batch'[j] \in {batch[j], "FAILED"} /\ (batch[j] = "NONE" => batch'[j] = "NONE")
      BY <1>4, Recovery DEF Left, Reclaimed
    <3>2. batch[j] = "NONE" => Phase'[j] = "new" /\ Phase[j] = "new"
      BY <3>1 DEF Phase
    <3>3. batch[j] # "NONE" => Phase'[j] = "closed" /\ Phase[j] \in {"open", "closed"}
      BY <1>5, <3>1 DEF Phase
    <3> QED
      BY <3>2, <3>3
  <2>3. Phase' = [j \in Batch |-> Phase'[j]]
    BY DEF Phase
  <2> QED
    BY <2>1, <2>2, <2>3
<1>10. Flight!Start(b)
  BY <1>7, <1>8, <1>9 DEF Flight!Start, Phase, Executing
<1> QED
  BY <1>10 DEF Flight!Next

(* Neither a row of a batch nor a process moves.                           *)
LEMMA FrameStep ==
  ASSUME Inv, Inv', UNCHANGED <<batch, worker>>
  PROVE  [Flight!Next]_Flight!vars
  BY StutterStep DEF Phase

(* A worker that executes its batch goes on.                               *)
LEMMA WorkStep ==
  ASSUME Inv, Inv', NEW b \in Batch, UNCHANGED batch,
         worker[b] \in Owning, worker'[b] \in Owning,
         \A o \in Batch \ {b} : worker'[o] = worker[o]
  PROVE  [Flight!Next]_Flight!vars
<1>1. \A o \in Batch : worker'[o] \in Owning <=> worker[o] \in Owning
  OBVIOUS
<1> QED
  BY <1>1, StutterStep DEF Phase

LEMMA CallRefines ==
  ASSUME Inv, Inv', NEW c \in Caller, Call(c)
  PROVE  [Flight!Next]_Flight!vars
<1>1. TypeOK
  BY DEF Inv, Typed
<1>2. CASE ReserveBegin(c) \/ ReserveCheck(c) \/ ReserveRejected(c)
  BY <1>2, FrameStep DEF ReserveBegin, ReserveCheck, ReserveRejected, dbVars, workerVars
<1>3. CASE ReserveNothing(c)
  <2>1. batch' = RecoveredBatch(c) /\ UNCHANGED worker
    BY <1>3 DEF ReserveNothing
  <2>2. \A o \in Batch : batch'[o] = batch[o] \/ (batch[o] # "NONE" /\ batch'[o] = "FAILED")
    BY <2>1, Recovery DEF Left, Reclaimed
  <2>3. CASE \E b \in Batch : Reclaimed(c, b) /\ batch[b] \in Active
    <3>1. PICK b \in Batch : Reclaimed(c, b) /\ batch[b] \in Active
      BY <2>3
    <3>2. batch'[b] = "FAILED" /\ worker'[b] \notin Owning
      BY <2>1, <3>1 DEF Reclaimed, Locked
    <3>3. \A o \in Batch \ {b} : batch'[o] = batch[o]
      <4>1. seen[c] = NoBatch => ~Reclaims(c)
        BY DEF Reclaims
      <4>2. Reclaims(c) => seen[c] = b
        BY <3>1, <4>1 DEF Inv, CallersInv, SeenActive
      <4> QED
        BY <1>1, <2>1, <4>2 DEF RecoveredBatch, TypeOK
    <3> QED
      BY <2>1, <3>1, <3>2, <3>3, CloseStep DEF Active
  <2>4. CASE ~\E b \in Batch : Reclaimed(c, b) /\ batch[b] \in Active
    <3>1. \A o \in Batch : Phase[o]' = Phase[o]
      BY <2>1, <2>4, Recovery DEF Phase, Left, Reclaimed, Active
    <3> QED
      BY <2>1, <3>1, StutterStep
  <2> QED
    BY <2>3, <2>4
<1>4. CASE ReserveCreate(c)
  BY <1>4, StartStep
<1>5. CASE Spawn(c)
  <2>1. PICK b \in Batch : b = mine[c] /\ worker[b] = "none"
    BY <1>5 DEF Spawn, Inv, CallersInv, FreshMine
  <2>2. /\ UNCHANGED batch /\ worker'[b] = "start"
        /\ \A o \in Batch \ {b} : worker'[o] = worker[o]
    BY <1>1, <1>5, <2>1 DEF Spawn, TypeOK, dbVars
  <2> QED
    BY <2>2, VanishStep, PlaceSets
<1>6. CASE SpawnFails(c)
  <2>1. PICK b \in Batch : /\ b = mine[c] /\ worker[b] = "none"
                           /\ batch[b] \in {"PENDING", "FAILED"}
    BY <1>6 DEF SpawnFails, Inv, CallersInv, FreshMine
  <2>2. /\ UNCHANGED worker /\ batch'[b] = "FAILED"
        /\ \A o \in Batch \ {b} : batch'[o] = batch[o]
    BY <1>1, <1>6, <2>1 DEF SpawnFails, FailPending, TypeOK, workerVars
  <2>3. CASE batch[b] = "PENDING"
    BY <2>1, <2>2, <2>3, CloseStep, PlaceSets
  <2>4. CASE batch[b] = "FAILED"
    <3>1. \A o \in Batch : batch'[o] = batch[o]
      BY <2>2, <2>4
    <3> QED
      BY <2>2, <3>1, StutterStep DEF Phase
  <2> QED
    BY <2>1, <2>3, <2>4
<1> QED
  BY <1>2, <1>3, <1>4, <1>5, <1>6 DEF Call, Reserve, Dispatch

(* The rows of a batch whose process is gone are failed, if still active.  *)
LEMMA FailStep ==
  ASSUME Inv, Inv', NEW b \in Batch, worker[b] \notin Owning, worker'[b] \notin Owning,
         batch'[b] = FailActive(batch[b]),
         \A o \in Batch \ {b} : batch'[o] = batch[o] /\ worker'[o] = worker[o]
  PROVE  [Flight!Next]_Flight!vars
<1>1. CASE batch[b] \in Active
  BY <1>1, CloseStep, PlaceSets DEF FailActive
<1>2. CASE batch[b] \notin Active
  <2>1. \A o \in Batch : Phase[o]' = Phase[o]
    BY <1>2 DEF Phase, FailActive
  <2> QED
    BY <2>1, StutterStep
<1> QED
  BY <1>1, <1>2

LEMMA WorkerRefines ==
  ASSUME Inv, Inv', NEW b \in Batch,
         RunBatch(b) \/ Fault(b) \/ Terminate(b) \/ MarkTerminated(b)
  PROVE  [Flight!Next]_Flight!vars
<1> USE PlaceSets
<1>1. TypeOK
  BY DEF Inv, Typed
<1>2. CASE TakeLock(b) \/ Release(b) \/ Raise(b) \/ Crash(b) \/ Terminate(b)
  <2>1. /\ UNCHANGED batch /\ worker'[b] \notin Owning
        /\ \A o \in Batch \ {b} : worker'[o] = worker[o]
    BY <1>1, <1>2 DEF TakeLock, Release, Raise, Crash, Terminate, Goto, dbVars, TypeOK
  <2> QED
    BY <2>1, VanishStep
<1>3. CASE ClaimBatch(b)
  BY <1>3, ClaimStep
<1>4. CASE OpenBatch(b) \/ StartBatch(b) \/ Request(b) \/ NextRequest(b) \/ StopJob(b)
           \/ FinishAccount(b) \/ ReadHeartbeat(b) \/ WriteHeartbeat(b)
  <2>1. /\ UNCHANGED batch /\ worker[b] \in Owning /\ worker'[b] \in Owning
        /\ \A o \in Batch \ {b} : worker'[o] = worker[o]
    BY <1>1, <1>4 DEF OpenBatch, StartBatch, WriteMetadata, Request, NextRequest, StopJob,
       FinishAccount, FinishJob, ReadHeartbeat, WriteHeartbeat, Goto, dbVars, TypeOK
  <2> QED
    BY <2>1, WorkStep
<1>5. CASE ClaimJob(b)
  <2>1. /\ UNCHANGED batch /\ worker[b] \in Owning
        /\ UNCHANGED worker \/ worker' = [worker EXCEPT ![b] = "syncing"]
    BY <1>5 DEF ClaimJob, Goto
  <2>2. worker'[b] \in Owning /\ \A o \in Batch \ {b} : worker'[o] = worker[o]
    BY <1>1, <2>1 DEF TypeOK
  <2> QED
    BY <2>1, <2>2, WorkStep
<1>6. CASE FinishBatch(b)
  <2>1. /\ worker[b] \in Owning /\ worker'[b] = "releasing"
        /\ batch'[b] \in {"FAILED", "SUCCESS"}
        /\ \A o \in Batch \ {b} : batch'[o] = batch[o] /\ worker'[o] = worker[o]
    BY <1>1, <1>6 DEF FinishBatch, Goto, TypeOK
  <2> QED
    BY <2>1, CloseStep, ExecutingIs
<1>7. CASE Handle(b)
  <2>1. /\ worker[b] = "handler" /\ worker'[b] = "exited"
        /\ batch'[b] = FailActive(batch[b])
        /\ \A o \in Batch \ {b} : batch'[o] = batch[o] /\ worker'[o] = worker[o]
    BY <1>1, <1>7 DEF Handle, Goto, FailActive, TypeOK
  <2> QED
    BY <2>1, FailStep
<1>8. CASE MarkTerminated(b)
  <2>1. /\ worker[b] = "terminated" /\ UNCHANGED worker
        /\ batch'[b] = FailActive(batch[b])
        /\ \A o \in Batch \ {b} : batch'[o] = batch[o]
    BY <1>1, <1>8 DEF MarkTerminated, workerVars, TypeOK
  <2> QED
    BY <2>1, FailStep
<1> QED
  BY <1>2, <1>3, <1>4, <1>5, <1>6, <1>7, <1>8 DEF RunBatch, Fault

LEMMA FlightStep == Inv /\ Inv' /\ [Next]_vars => [Flight!Next]_Flight!vars
<1> SUFFICES ASSUME Inv, Inv', [Next]_vars PROVE [Flight!Next]_Flight!vars
  OBVIOUS
<1>1. CASE \E c \in Caller : Call(c)
  BY <1>1, CallRefines
<1>2. CASE \E b \in Batch : RunBatch(b) \/ Fault(b) \/ Terminate(b) \/ MarkTerminated(b)
  BY <1>2, WorkerRefines
<1>3. CASE \E b \in Batch : Cancel(b) \/ Age(b) \/ Joined(b)
  BY <1>3, FrameStep DEF Cancel, Age, Joined, dbVars, workerVars
<1>4. CASE SetEnabled \/ ShutdownBegin \/ ShutdownEnd \/ ApiCrash \/ ApiStart \/ UNCHANGED vars
  BY <1>4, FrameStep DEF SetEnabled, ShutdownBegin, ShutdownEnd, ApiCrash, ApiStart,
     vars, dbVars, workerVars
<1> QED
  BY <1>1, <1>2, <1>3, <1>4 DEF Next, Shutdown

(* Every behaviour of the jobs is one of SingleFlight: batches run one at  *)
(* a time, and only one that nobody executes is ended by somebody else.    *)
THEOREM JobsAreSingleFlight == Spec => ImplementsSingleFlight
<1>1. Init => Flight!Init
  BY NoBatchAssumption DEF Init, Flight!Init
<1> QED
  BY <1>1, FlightStep, Invariance, PTL DEF Spec, ImplementsSingleFlight, Flight!Spec
=============================================================================
