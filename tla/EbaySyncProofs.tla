--------------------------- MODULE EbaySyncProofs ---------------------------
(***************************************************************************)
(* Proofs about EbaySync, for any number of requests and conversations.    *)
(* Without Sync All the check of the running log under the row lock admits *)
(* one log at a time, a log has one worker, and so one worker imports at a *)
(* time and the cursor only moves forward.  Whatever the requests are, and *)
(* however many workers import, no message is lost: what a worker has not  *)
(* written is ahead of it in the list, or so new that the next sync reads  *)
(* it.                                                                     *)
(***************************************************************************)
EXTENDS EbaySync, Induction, FiniteSetTheorems, SequenceTheorems, TLAPS

\* The control state is well typed.
ControlType ==
    /\ log \in [Request -> LogState]
    /\ rowLock \in Holder
    /\ kind \in [Request -> Kinds \cup {"none"}]
    /\ step \in [Request -> Step]
    /\ job \in [Request -> Request \cup {NoLog}]
    /\ stage \in [Request -> Stage]

\* A request has its own log or none, and its worker starts when it is done.
JobInv ==
    \A r \in Request :
        /\ job[r] \in {NoLog, r}
        /\ step[r] # "adopt"
        /\ step[r] # "idle" => kind[r] \in {"one", "auto"}
        /\ step[r] \in {"mark", "spawn", "release", "overwrite"} => job[r] = r
        /\ stage[r] # "none" => job[r] = r /\ step[r] = "done"

\* Between the check for a running log and the commit of the new one the
\* request holds the account's row, so the check stays true.
RowInv ==
    \A r \in Request :
        /\ step[r] \in {"locked", "vacant"} => rowLock = <<"api", r>>
        /\ step[r] = "vacant" => \A l \in Request : log[l] # "RUNNING"

\* One log runs, and whoever imports runs it.
LogInv ==
    /\ \A l, m \in Request : log[l] = "RUNNING" /\ log[m] = "RUNNING" => l = m
    /\ \A p \in Request : stage[p] \in ImportStage => log[p] = "RUNNING"

ControlInv == ControlType /\ JobInv /\ RowInv /\ LogInv

\* The worker of the running log began after the last sync that finished.
CursorInv ==
    /\ cursor \in Nat /\ clock \in Nat /\ checkpoint \in [Request -> Nat]
    /\ cursor <= clock
    /\ \A p \in Request : stage[p] \in {"start"} \cup ImportStage =>
           /\ checkpoint[p] <= clock
           /\ log[p] = "RUNNING" => cursor <= checkpoint[p]

-----------------------------------------------------------------------------
LEMMA ControlInit == Init => ControlInv /\ CursorInv
  BY LogAssumption DEF Init, ControlInv, ControlType, JobInv, RowInv, LogInv,
       CursorInv,
     LogState, Holder, Step, Stage, ImportStage

\* Time and eBay touch nothing of the program.
LEMMA EbayKeepsControl ==
  ASSUME EbayNext
  PROVE  UNCHANGED <<cursor, checkpoint, log, rowLock, kind, step, job, stage>>
<1>1. CASE Tick
  BY <1>1 DEF Tick, requestVars, planVars
<1>2. ASSUME NEW c \in Conv, MessageSent(c)
      PROVE  UNCHANGED <<cursor, checkpoint, log, rowLock, kind, step, job, stage>>
  BY <1>2 DEF MessageSent, requestVars, planVars
<1>3. ASSUME NEW m \in hidden, MessageListed(m)
      PROVE  UNCHANGED <<cursor, checkpoint, log, rowLock, kind, step, job, stage>>
  BY <1>3 DEF MessageListed, requestVars, planVars
<1> QED BY <1>1, <1>2, <1>3 DEF EbayNext

\* Every action keeps the control state well typed.
LEMMA ControlTypeStep ==
  ASSUME ControlType, [Next]_vars
  PROVE  ControlType'
<1> USE DEF requestFrame, workerFrame, ebayVars, requestVars, planVars, workVars,
     WithoutRow, Unlocked, ControlType, LogState, Holder, Step, Stage
<1>1. CASE EbayNext
  BY <1>1, EbayKeepsControl
<1>2. ASSUME NEW r \in Request, NEW k \in Kinds, LockAccount(r, k) PROVE ControlType'
  BY <1>2 DEF LockAccount
<1>3. ASSUME NEW r \in Request, RequestStep(r) PROVE ControlType'
  <2>1. CASE CheckRunning(r)
    BY <2>1 DEF CheckRunning, Running
  <2>2. CASE Reserve(r)
    BY <2>2 DEF Reserve
  <2>3. CASE MarkSyncing(r)
    BY <2>3 DEF MarkSyncing
  <2>4. CASE AdoptRunning(r)
    BY <2>4 DEF AdoptRunning, Running
  <2>5. CASE Spawn(r)
    BY <2>5 DEF Spawn
  <2>6. CASE SpawnFails(r)
    <3>1. step' \in [Request -> Step]
      BY <2>6 DEF SpawnFails
    <3>2. CASE UNCHANGED stage
      BY <2>6, <3>1, <3>2 DEF SpawnFails
    <3>3. CASE stage' = [stage EXCEPT ![r] = "begin"]
      <4>1. stage' \in [Request -> Stage]
        BY <3>3
      <4> QED BY <2>6, <3>1, <4>1 DEF SpawnFails
    <3> QED BY <2>6, <3>2, <3>3 DEF SpawnFails
  <2>7. CASE ReadReserved(r)
    BY <2>7 DEF ReadReserved
  <2>8. CASE ReleaseReserved(r)
    BY <2>8 DEF ReleaseReserved
  <2>9. CASE ReleaseAccount(r)
    BY <2>9 DEF ReleaseAccount
  <2>10. CASE LoseReservation(r)
    BY <2>10 DEF LoseReservation
  <2> QED BY <1>3, <2>1, <2>2, <2>3, <2>4, <2>5, <2>6, <2>7, <2>8, <2>9, <2>10 DEF
       RequestStep
<1>4. ASSUME NEW r \in Request, WorkerStep(r) PROVE ControlType'
  <2>1. CASE ReadAccount(r)
    BY <2>1 DEF ReadAccount
  <2>2. CASE StartLog(r)
    BY <2>2 DEF StartLog
  <2>3. CASE Abort(r)
    BY <2>3 DEF Abort
  <2>4. CASE FetchPage(r)
    BY <2>4 DEF FetchPage
  <2>5. CASE ImportConversation(r)
    BY <2>5 DEF ImportConversation
  <2>6. CASE SkipConversation(r)
    BY <2>6 DEF SkipConversation
  <2>7. CASE ScanFails(r)
    BY <2>7 DEF ScanFails
  <2>8. CASE SyncOrders(r)
    BY <2>8 DEF SyncOrders
  <2>9. CASE SyncOffers(r)
    BY <2>9 DEF SyncOffers
  <2>10. CASE Finalize(r)
    BY <2>10 DEF Finalize
  <2>11. CASE RecordMetadata(r)
    BY <2>11 DEF RecordMetadata
  <2>12. CASE HandleFailure(r)
    BY <2>12 DEF HandleFailure
  <2>13. CASE RecordFailure(r)
    BY <2>13 DEF RecordFailure
  <2> QED BY <1>4, <2>1, <2>2, <2>3, <2>4, <2>5, <2>6, <2>7, <2>8, <2>9, <2>10,
       <2>11, <2>12, <2>13 DEF WorkerStep
<1>5. ASSUME NEW r \in Request, DeathStep(r) PROVE ControlType'
  <2>1. CASE WorkerDies(r) \/ RequestDies(r)
    BY <2>1 DEF WorkerDies, RequestDies
  <2> QED BY <1>5, <2>1 DEF DeathStep
<1>6. CASE UNCHANGED vars
  BY <1>6 DEF vars
<1> QED BY <1>1, <1>2, <1>3, <1>4, <1>5, <1>6 DEF Next

\* Without Sync All no request takes over the log of another.
LEMMA JobStep ==
  ASSUME "all" \notin Kinds, ControlType, JobInv, [Next]_vars
  PROVE  JobInv'
<1> USE DEF requestFrame, workerFrame, ebayVars, requestVars, planVars, workVars,
     WithoutRow, Unlocked, JobInv, ControlType, LogState, Holder, Step, Stage
<1>1. CASE EbayNext
  BY <1>1, EbayKeepsControl
<1>2. ASSUME NEW r \in Request, NEW k \in Kinds, LockAccount(r, k) PROVE JobInv'
  BY <1>2, KindAssumption DEF LockAccount
<1>3. ASSUME NEW r \in Request, RequestStep(r) PROVE JobInv'
  <2>1. CASE CheckRunning(r)
    BY <2>1 DEF CheckRunning, Running
  <2>2. CASE Reserve(r)
    BY <2>2 DEF Reserve
  <2>3. CASE MarkSyncing(r)
    BY <2>3 DEF MarkSyncing
  <2>4. CASE AdoptRunning(r)
    BY <2>4 DEF AdoptRunning, Running
  <2>5. CASE Spawn(r)
    BY <2>5 DEF Spawn
  <2>6. CASE SpawnFails(r)
    BY <2>6 DEF SpawnFails
  <2>7. CASE ReadReserved(r)
    BY <2>7 DEF ReadReserved
  <2>8. CASE ReleaseReserved(r)
    BY <2>8 DEF ReleaseReserved
  <2>9. CASE ReleaseAccount(r)
    BY <2>9 DEF ReleaseAccount
  <2>10. CASE LoseReservation(r)
    BY <2>10 DEF LoseReservation
  <2> QED BY <1>3, <2>1, <2>2, <2>3, <2>4, <2>5, <2>6, <2>7, <2>8, <2>9, <2>10 DEF
       RequestStep
<1>4. ASSUME NEW r \in Request, WorkerStep(r) PROVE JobInv'
  <2>1. CASE ReadAccount(r)
    BY <2>1 DEF ReadAccount
  <2>2. CASE StartLog(r)
    BY <2>2 DEF StartLog
  <2>3. CASE Abort(r)
    BY <2>3 DEF Abort
  <2>4. CASE FetchPage(r)
    BY <2>4 DEF FetchPage
  <2>5. CASE ImportConversation(r)
    BY <2>5 DEF ImportConversation
  <2>6. CASE SkipConversation(r)
    BY <2>6 DEF SkipConversation
  <2>7. CASE ScanFails(r)
    BY <2>7 DEF ScanFails
  <2>8. CASE SyncOrders(r)
    BY <2>8 DEF SyncOrders
  <2>9. CASE SyncOffers(r)
    BY <2>9 DEF SyncOffers
  <2>10. CASE Finalize(r)
    BY <2>10 DEF Finalize
  <2>11. CASE RecordMetadata(r)
    BY <2>11 DEF RecordMetadata
  <2>12. CASE HandleFailure(r)
    BY <2>12 DEF HandleFailure
  <2>13. CASE RecordFailure(r)
    BY <2>13 DEF RecordFailure
  <2> QED BY <1>4, <2>1, <2>2, <2>3, <2>4, <2>5, <2>6, <2>7, <2>8, <2>9, <2>10,
       <2>11, <2>12, <2>13 DEF WorkerStep
<1>5. ASSUME NEW r \in Request, DeathStep(r) PROVE JobInv'
  <2>1. CASE WorkerDies(r) \/ RequestDies(r)
    BY <2>1 DEF WorkerDies, RequestDies
  <2> QED BY <1>5, <2>1 DEF DeathStep
<1>6. CASE UNCHANGED vars
  BY <1>6 DEF vars
<1> QED BY <1>1, <1>2, <1>3, <1>4, <1>5, <1>6 DEF Next

\* The row lock stays with the request that took it until its log is there.
LEMMA RowStep ==
  ASSUME ControlType, JobInv, RowInv, [Next]_vars
  PROVE  RowInv'
<1> USE DEF requestFrame, workerFrame, ebayVars, requestVars, planVars, workVars,
     WithoutRow, Unlocked, RowInv, JobInv, ControlType, LogState, Holder, Step,
     Stage
<1>1. CASE EbayNext
  BY <1>1, EbayKeepsControl
<1>2. ASSUME NEW r \in Request, NEW k \in Kinds, LockAccount(r, k) PROVE RowInv'
  BY <1>2 DEF LockAccount
<1>3. ASSUME NEW r \in Request, RequestStep(r) PROVE RowInv'
  <2>1. CASE CheckRunning(r)
    BY <2>1 DEF CheckRunning, Running
  <2>2. CASE Reserve(r)
    BY <2>2 DEF Reserve
  <2>3. CASE MarkSyncing(r)
    BY <2>3 DEF MarkSyncing
  <2>4. CASE AdoptRunning(r)
    BY <2>4 DEF AdoptRunning, Running
  <2>5. CASE Spawn(r)
    BY <2>5 DEF Spawn
  <2>6. CASE SpawnFails(r)
    BY <2>6 DEF SpawnFails
  <2>7. CASE ReadReserved(r)
    BY <2>7 DEF ReadReserved
  <2>8. CASE ReleaseReserved(r)
    BY <2>8 DEF ReleaseReserved
  <2>9. CASE ReleaseAccount(r)
    BY <2>9 DEF ReleaseAccount
  <2>10. CASE LoseReservation(r)
    BY <2>10 DEF LoseReservation
  <2> QED BY <1>3, <2>1, <2>2, <2>3, <2>4, <2>5, <2>6, <2>7, <2>8, <2>9, <2>10 DEF
       RequestStep
<1>4. ASSUME NEW r \in Request, WorkerStep(r) PROVE RowInv'
  <2>1. CASE ReadAccount(r)
    BY <2>1 DEF ReadAccount
  <2>2. CASE StartLog(r)
    BY <2>2 DEF StartLog
  <2>3. CASE Abort(r)
    BY <2>3 DEF Abort
  <2>4. CASE FetchPage(r)
    BY <2>4 DEF FetchPage
  <2>5. CASE ImportConversation(r)
    BY <2>5 DEF ImportConversation
  <2>6. CASE SkipConversation(r)
    BY <2>6 DEF SkipConversation
  <2>7. CASE ScanFails(r)
    BY <2>7 DEF ScanFails
  <2>8. CASE SyncOrders(r)
    BY <2>8 DEF SyncOrders
  <2>9. CASE SyncOffers(r)
    BY <2>9 DEF SyncOffers
  <2>10. CASE Finalize(r)
    BY <2>10 DEF Finalize
  <2>11. CASE RecordMetadata(r)
    BY <2>11 DEF RecordMetadata
  <2>12. CASE HandleFailure(r)
    BY <2>12 DEF HandleFailure
  <2>13. CASE RecordFailure(r)
    BY <2>13 DEF RecordFailure
  <2> QED BY <1>4, <2>1, <2>2, <2>3, <2>4, <2>5, <2>6, <2>7, <2>8, <2>9, <2>10,
       <2>11, <2>12, <2>13 DEF WorkerStep
<1>5. ASSUME NEW r \in Request, DeathStep(r) PROVE RowInv'
  <2>1. CASE WorkerDies(r) \/ RequestDies(r)
    BY <2>1 DEF WorkerDies, RequestDies
  <2> QED BY <1>5, <2>1 DEF DeathStep
<1>6. CASE UNCHANGED vars
  BY <1>6 DEF vars
<1> QED BY <1>1, <1>2, <1>3, <1>4, <1>5, <1>6 DEF Next

\* A log starts to run only when none runs; only its worker ends it after that.
LEMMA LogStep ==
  ASSUME ControlType, JobInv, RowInv, LogInv, [Next]_vars
  PROVE  LogInv'
<1> USE DEF requestFrame, workerFrame, ebayVars, requestVars, planVars, workVars,
     WithoutRow, Unlocked, LogInv, RowInv, JobInv, ImportStage, ControlType,
     LogState, Holder, Step, Stage
<1>1. CASE EbayNext
  BY <1>1, EbayKeepsControl
<1>2. ASSUME NEW r \in Request, NEW k \in Kinds, LockAccount(r, k) PROVE LogInv'
  BY <1>2 DEF LockAccount
<1>3. ASSUME NEW r \in Request, RequestStep(r) PROVE LogInv'
  <2>1. CASE CheckRunning(r)
    BY <2>1 DEF CheckRunning, Running
  <2>2. CASE Reserve(r)
    BY <2>2 DEF Reserve
  <2>3. CASE MarkSyncing(r)
    BY <2>3 DEF MarkSyncing
  <2>4. CASE AdoptRunning(r)
    BY <2>4 DEF AdoptRunning, Running
  <2>5. CASE Spawn(r)
    BY <2>5 DEF Spawn
  <2>6. CASE SpawnFails(r)
    BY <2>6 DEF SpawnFails
  <2>7. CASE ReadReserved(r)
    BY <2>7 DEF ReadReserved
  <2>8. CASE ReleaseReserved(r)
    BY <2>8 DEF ReleaseReserved
  <2>9. CASE ReleaseAccount(r)
    BY <2>9 DEF ReleaseAccount
  <2>10. CASE LoseReservation(r)
    BY <2>10 DEF LoseReservation
  <2> QED BY <1>3, <2>1, <2>2, <2>3, <2>4, <2>5, <2>6, <2>7, <2>8, <2>9, <2>10 DEF
       RequestStep
<1>4. ASSUME NEW r \in Request, WorkerStep(r) PROVE LogInv'
  <2>1. CASE ReadAccount(r)
    BY <2>1 DEF ReadAccount
  <2>2. CASE StartLog(r)
    BY <2>2 DEF StartLog
  <2>3. CASE Abort(r)
    BY <2>3 DEF Abort
  <2>4. CASE FetchPage(r)
    BY <2>4 DEF FetchPage
  <2>5. CASE ImportConversation(r)
    BY <2>5 DEF ImportConversation
  <2>6. CASE SkipConversation(r)
    BY <2>6 DEF SkipConversation
  <2>7. CASE ScanFails(r)
    BY <2>7 DEF ScanFails
  <2>8. CASE SyncOrders(r)
    BY <2>8 DEF SyncOrders
  <2>9. CASE SyncOffers(r)
    BY <2>9 DEF SyncOffers
  <2>10. CASE Finalize(r)
    BY <2>10 DEF Finalize
  <2>11. CASE RecordMetadata(r)
    BY <2>11 DEF RecordMetadata
  <2>12. CASE HandleFailure(r)
    BY <2>12 DEF HandleFailure
  <2>13. CASE RecordFailure(r)
    BY <2>13 DEF RecordFailure
  <2> QED BY <1>4, <2>1, <2>2, <2>3, <2>4, <2>5, <2>6, <2>7, <2>8, <2>9, <2>10,
       <2>11, <2>12, <2>13 DEF WorkerStep
<1>5. ASSUME NEW r \in Request, DeathStep(r) PROVE LogInv'
  <2>1. CASE WorkerDies(r) \/ RequestDies(r)
    BY <2>1 DEF WorkerDies, RequestDies
  <2> QED BY <1>5, <2>1 DEF DeathStep
<1>6. CASE UNCHANGED vars
  BY <1>6 DEF vars
<1> QED BY <1>1, <1>2, <1>3, <1>4, <1>5, <1>6 DEF Next

\* Only the worker of the running log moves the cursor.
LEMMA CursorStep ==
  ASSUME ControlType, JobInv, LogInv, CursorInv, [Next]_vars
  PROVE  CursorInv'
<1> USE DEF requestFrame, workerFrame, ebayVars, requestVars, planVars, workVars,
     WithoutRow, Unlocked, CursorInv, LogInv, JobInv, ImportStage, ControlType,
     LogState, Holder, Step, Stage
<1>1. CASE EbayNext
  <2>1. UNCHANGED <<cursor, checkpoint, stage, log>>
    BY <1>1, EbayKeepsControl
  <2>2. clock' = clock \/ clock' = clock + 1
    BY <1>1 DEF EbayNext, Tick, MessageSent, MessageListed
  <2> QED BY <2>1, <2>2
<1>2. ASSUME NEW r \in Request, NEW k \in Kinds, LockAccount(r, k) PROVE CursorInv'
  BY <1>2 DEF LockAccount
<1>3. ASSUME NEW r \in Request, RequestStep(r) PROVE CursorInv'
  <2>1. CASE CheckRunning(r)
    BY <2>1 DEF CheckRunning, Running
  <2>2. CASE Reserve(r)
    BY <2>2 DEF Reserve
  <2>3. CASE MarkSyncing(r)
    BY <2>3 DEF MarkSyncing
  <2>4. CASE AdoptRunning(r)
    BY <2>4 DEF AdoptRunning, Running
  <2>5. CASE Spawn(r)
    BY <2>5 DEF Spawn
  <2>6. CASE SpawnFails(r)
    BY <2>6 DEF SpawnFails
  <2>7. CASE ReadReserved(r)
    BY <2>7 DEF ReadReserved
  <2>8. CASE ReleaseReserved(r)
    BY <2>8 DEF ReleaseReserved
  <2>9. CASE ReleaseAccount(r)
    BY <2>9 DEF ReleaseAccount
  <2>10. CASE LoseReservation(r)
    BY <2>10 DEF LoseReservation
  <2> QED BY <1>3, <2>1, <2>2, <2>3, <2>4, <2>5, <2>6, <2>7, <2>8, <2>9, <2>10 DEF
       RequestStep
<1>4. ASSUME NEW r \in Request, WorkerStep(r) PROVE CursorInv'
  <2>1. CASE ReadAccount(r)
    BY <2>1 DEF ReadAccount
  <2>2. CASE StartLog(r)
    BY <2>2 DEF StartLog
  <2>3. CASE Abort(r)
    BY <2>3 DEF Abort
  <2>4. CASE FetchPage(r)
    BY <2>4 DEF FetchPage
  <2>5. CASE ImportConversation(r)
    BY <2>5 DEF ImportConversation
  <2>6. CASE SkipConversation(r)
    BY <2>6 DEF SkipConversation
  <2>7. CASE ScanFails(r)
    BY <2>7 DEF ScanFails
  <2>8. CASE SyncOrders(r)
    BY <2>8 DEF SyncOrders
  <2>9. CASE SyncOffers(r)
    BY <2>9 DEF SyncOffers
  <2>10. CASE Finalize(r)
    BY <2>10 DEF Finalize
  <2>11. CASE RecordMetadata(r)
    BY <2>11 DEF RecordMetadata
  <2>12. CASE HandleFailure(r)
    BY <2>12 DEF HandleFailure
  <2>13. CASE RecordFailure(r)
    BY <2>13 DEF RecordFailure
  <2> QED BY <1>4, <2>1, <2>2, <2>3, <2>4, <2>5, <2>6, <2>7, <2>8, <2>9, <2>10,
       <2>11, <2>12, <2>13 DEF WorkerStep
<1>5. ASSUME NEW r \in Request, DeathStep(r) PROVE CursorInv'
  <2>1. CASE WorkerDies(r) \/ RequestDies(r)
    BY <2>1 DEF WorkerDies, RequestDies
  <2> QED BY <1>5, <2>1 DEF DeathStep
<1>6. CASE UNCHANGED vars
  BY <1>6 DEF vars
<1> QED BY <1>1, <1>2, <1>3, <1>4, <1>5, <1>6 DEF Next

-----------------------------------------------------------------------------
LEMMA InvariantHolds ==
  ASSUME "all" \notin Kinds
  PROVE  Spec => [](ControlInv /\ CursorInv)
<1>1. ControlInv /\ CursorInv /\ [Next]_vars => (ControlInv /\ CursorInv)'
  BY ControlTypeStep, JobStep, RowStep, LogStep, CursorStep DEF ControlInv
<1> QED BY <1>1, ControlInit, PTL DEF Spec

\* Without Sync All, no two workers import the account's messages at a time.
THEOREM OneImporterAtATime ==
  ASSUME "all" \notin Kinds
  PROVE  Spec => []OneImporter
<1>1. ControlInv => OneImporter
  BY DEF ControlInv, LogInv, OneImporter, Importing
<1> QED BY <1>1, InvariantHolds, PTL

\* Without Sync All, the cursor never moves back.
THEOREM CursorNeverMovesBack ==
  ASSUME "all" \notin Kinds
  PROVE  Spec => CursorMonotone
<1>1. ASSUME ControlInv, CursorInv, [Next]_vars PROVE [cursor' >= cursor]_cursor
  <2>1. ASSUME NEW p \in Request, Finalize(p) PROVE cursor' >= cursor
    BY <1>1, <2>1 DEF Finalize, ControlInv, LogInv, CursorInv, ImportStage
  <2>2. CASE UNCHANGED vars
    BY <2>2 DEF vars
  <2>3. CASE EbayNext
    BY <2>3 DEF EbayNext, Tick, MessageSent, MessageListed
  <2>4. ASSUME NEW r \in Request, NEW k \in Kinds, LockAccount(r, k) PROVE UNCHANGED cursor
    BY <2>4 DEF LockAccount, requestFrame
  <2>5. ASSUME NEW r \in Request, RequestStep(r) PROVE UNCHANGED cursor
    BY <2>5 DEF RequestStep, LoseReservation, CheckRunning, Reserve, MarkSyncing,
         AdoptRunning, Spawn, SpawnFails, ReadReserved, ReleaseReserved,
         ReleaseAccount, requestFrame
  <2>6. ASSUME NEW r \in Request, WorkerStep(r), ~Finalize(r) PROVE UNCHANGED cursor
    BY <2>6 DEF WorkerStep, ReadAccount, StartLog, Abort, FetchPage,
         ImportConversation, SkipConversation, ScanFails, SyncOrders, SyncOffers,
         RecordMetadata, HandleFailure, RecordFailure
  <2>7. ASSUME NEW r \in Request, DeathStep(r) PROVE UNCHANGED cursor
    BY <2>7 DEF DeathStep, WorkerDies, RequestDies
  <2> QED BY <1>1, <2>1, <2>2, <2>3, <2>4, <2>5, <2>6, <2>7 DEF Next
<1> QED BY <1>1, InvariantHolds, PTL DEF Spec, CursorMonotone

\* Without Sync All, importers take turns and the cursor follows them.
THEOREM ImportersTakeTurns ==
  ASSUME "all" \notin Kinds
  PROVE  Spec => InOrder
BY OneImporterAtATime, CursorNeverMovesBack, PTL DEF InOrder

-----------------------------------------------------------------------------
(* The list of conversations, for any set V of listed messages. *)

Of(V, c) == {m \in V : m.conv = c}
Latest(V, c) == Max({m.at : m \in Of(V, c)})
Shown(V, t) == {c \in Conv : TypeOf[c] = t /\ Of(V, c) # {}}
Above(V, c, d) ==
    \/ Latest(V, c) > Latest(V, d)
    \/ Latest(V, c) = Latest(V, d) /\ Rank[c] < Rank[d]
AllAbove(V, d) == {c \in Shown(V, TypeOf[d]) : Above(V, c, d)}
PlaceIn(V, c) == Cardinality(AllAbove(V, c)) + 1

\* The last activity of a conversation is the date of one of its messages.
LEMMA LatestIs ==
  ASSUME NEW V \in SUBSET Message, NEW c, Of(V, c) # {}
  PROVE  /\ Latest(V, c) \in Time
         /\ \E m \in V : m.conv = c /\ m.at = Latest(V, c)
         /\ \A m \in V : m.conv = c => m.at <= Latest(V, c)
<1> DEFINE T == {m.at : m \in Of(V, c)}
<1>1. T \in SUBSET Nat /\ T # {} /\ \A n \in T : n <= MaxTime
  BY BoundAssumption DEF Of, Message, Time
<1>2. \E x \in T : \A y \in T : y <= x
  <2> HIDE DEF T
  <2> QED
    BY <1>1, BoundAssumption, GreatestElement
<1>3. \E x \in T : \A y \in T : x >= y
  BY <1>1, <1>2
<1>4. Max(T) \in T /\ \A y \in T : Max(T) >= y
  <2> HIDE DEF T
  <2> QED
    BY <1>3 DEF Max
<1>5. Latest(V, c) = Max(T)
  BY DEF Latest
<1>6. \E m \in V : m.conv = c /\ m.at = Latest(V, c)
  BY <1>4, <1>5 DEF Of
<1>7. \A m \in V : m.conv = c => m.at <= Latest(V, c)
  <2> SUFFICES ASSUME NEW m \in V, m.conv = c PROVE m.at <= Latest(V, c)
    OBVIOUS
  <2>1. m.at \in T
    BY DEF Of
  <2>2. Max(T) \in Nat /\ m.at \in Nat /\ Max(T) >= m.at
    BY <1>1, <1>4, <2>1
  <2> QED
    BY <1>5, <2>2
<1>8. Latest(V, c) \in Time
  BY <1>6 DEF Message
<1> QED
  BY <1>6, <1>7, <1>8

\* The list is in order: no two conversations share a place.
LEMMA AboveOrders ==
  ASSUME NEW V \in SUBSET Message, NEW t,
         NEW c \in Shown(V, t), NEW d \in Shown(V, t)
  PROVE  /\ ~Above(V, c, c)
         /\ c # d => Above(V, c, d) \/ Above(V, d, c)
         /\ Above(V, c, d) => \A e \in Shown(V, t) : Above(V, e, c) => Above(V, e, d)
         /\ Above(V, c, d) => Latest(V, c) >= Latest(V, d)
<1>1. ASSUME NEW e \in Shown(V, t) PROVE Latest(V, e) \in Nat /\ Rank[e] \in Nat
  <2>1. e \in Conv /\ Of(V, e) # {}
    BY DEF Shown
  <2>2. Latest(V, e) \in Time
    BY <2>1, LatestIs
  <2> QED
    BY <2>1, <2>2, RankAssumption DEF Time
<1>2. c # d => Rank[c] # Rank[d]
  BY RankAssumption DEF Shown
<1>3. Latest(V, c) \in Nat /\ Latest(V, d) \in Nat /\ Rank[c] \in Nat /\ Rank[d] \in Nat
  BY <1>1
<1>4. Above(V, c, d) => \A e \in Shown(V, t) : Above(V, e, c) => Above(V, e, d)
  <2> SUFFICES ASSUME Above(V, c, d), NEW e \in Shown(V, t), Above(V, e, c)
               PROVE  Above(V, e, d)
    OBVIOUS
  <2>1. Latest(V, e) \in Nat /\ Rank[e] \in Nat
    BY <1>1
  <2> QED
    BY <1>3, <2>1 DEF Above
<1> QED
  BY <1>2, <1>3, <1>4 DEF Above

LEMMA ShownFinite ==
  ASSUME NEW V, NEW t
  PROVE  /\ IsFiniteSet(Shown(V, t)) /\ Cardinality(Shown(V, t)) \in Nat
         /\ \A U \in SUBSET Shown(V, t) : /\ IsFiniteSet(U) /\ Cardinality(U) \in Nat
                                          /\ Cardinality(U) <= Cardinality(Shown(V, t))
<1>1. IsFiniteSet(Shown(V, t))
  BY ConvAssumption, FS_Subset DEF Shown
<1> QED
  BY <1>1, FS_Subset, FS_CardinalityType

\* A set of conversations that holds all above c and c reaches down to c.
LEMMA PlaceWithin ==
  ASSUME NEW V \in SUBSET Message, NEW t, NEW c \in Shown(V, t),
         NEW U \in SUBSET Shown(V, t), AllAbove(V, c) \subseteq U, c \in U
  PROVE  PlaceIn(V, c) <= Cardinality(U) /\ PlaceIn(V, c) \in Nat \ {0}
<1>1. TypeOf[c] = t /\ AllAbove(V, c) \in SUBSET Shown(V, t)
  BY DEF Shown, AllAbove
<1>2. IsFiniteSet(AllAbove(V, c)) /\ IsFiniteSet(U) /\ Cardinality(U) \in Nat
      /\ Cardinality(AllAbove(V, c)) \in Nat
  BY <1>1, ShownFinite
<1>3. c \notin AllAbove(V, c)
  BY AboveOrders DEF AllAbove
<1>4. Cardinality(AllAbove(V, c) \cup {c}) = Cardinality(AllAbove(V, c)) + 1
  BY <1>2, <1>3, FS_AddElement
<1>5. AllAbove(V, c) \cup {c} \in SUBSET U
  OBVIOUS
<1>6. Cardinality(AllAbove(V, c) \cup {c}) <= Cardinality(U)
  BY <1>2, <1>5, FS_Subset
<1> QED
  BY <1>2, <1>4, <1>6 DEF PlaceIn

LEMMA PlaceType ==
  ASSUME NEW V \in SUBSET Message, NEW t, NEW c \in Shown(V, t)
  PROVE  PlaceIn(V, c) \in 1..Cardinality(Shown(V, t))
<1>1. AllAbove(V, c) \subseteq Shown(V, t)
  BY DEF AllAbove, Shown
<1> QED
  BY <1>1, PlaceWithin, ShownFinite

LEMMA PlaceUnique ==
  ASSUME NEW V \in SUBSET Message, NEW t,
         NEW c \in Shown(V, t), NEW d \in Shown(V, t), PlaceIn(V, c) = PlaceIn(V, d)
  PROVE  c = d
<1>1. ASSUME NEW x \in Shown(V, t), NEW y \in Shown(V, t), Above(V, x, y)
      PROVE  PlaceIn(V, x) # PlaceIn(V, y)
  <2>1. AllAbove(V, y) \in SUBSET Shown(V, t) /\ TypeOf[y] = t /\ TypeOf[x] = t
    BY DEF AllAbove, Shown
  <2>2. AllAbove(V, x) \subseteq AllAbove(V, y) /\ x \in AllAbove(V, y)
    BY <1>1, <2>1, AboveOrders DEF AllAbove
  <2>3. PlaceIn(V, x) <= Cardinality(AllAbove(V, y)) /\ PlaceIn(V, x) \in Nat
    BY <2>1, <2>2, PlaceWithin
  <2>4. Cardinality(AllAbove(V, y)) \in Nat
    BY <2>1, ShownFinite
  <2> QED
    BY <2>3, <2>4 DEF PlaceIn
<1> QED
  BY <1>1, AboveOrders

\* Every place of the list is taken.
LEMMA PlaceTaken ==
  ASSUME NEW V \in SUBSET Message, NEW t, NEW i \in 1..Cardinality(Shown(V, t))
  PROVE  \E c \in Shown(V, t) : PlaceIn(V, c) = i
<1> DEFINE S == Shown(V, t)
           n == Cardinality(S)
           f == [c \in S |-> PlaceIn(V, c)]
<1>1. n \in Nat /\ IsFiniteSet(S)
  BY ShownFinite
<1>2. f \in [S -> 1..n]
  BY PlaceType
<1>3. \A c, d \in S : f[c] = f[d] => c = d
  BY PlaceUnique
<1>4. f \in Injection(S, 1..n)
  <2> HIDE DEF f
  <2> QED
    BY <1>2, <1>3 DEF Injection, IsInjective
<1>5. IsFiniteSet(1..n) /\ Cardinality(1..n) = n
  <2> HIDE DEF n
  <2>1. IsFiniteSet(1..n) /\ Cardinality(1..n) = IF 1 > n THEN 0 ELSE n - 1 + 1
    BY <1>1, FS_Interval
  <2> QED
    BY <1>1, <2>1
<1>6. f \in Surjection(S, 1..n)
  <2> HIDE DEF f
  <2>1. Cardinality(S) = Cardinality(1..n)
    BY <1>5
  <2> HIDE DEF n, S
  <2> QED
    BY <1>4, <1>5, <2>1, FS_Injection
<1>7. \E c \in S : f[c] = i
  <2> HIDE DEF f
  <2> QED
    BY <1>6 DEF Surjection
<1> QED
  BY <1>7


\* The list of one type holds each of its conversations at its place.
ListIn(V, t) == [i \in 1..Cardinality(Shown(V, t)) |-> CHOOSE c \in Shown(V, t) : PlaceIn(V, c) = i]

LEMMA ListIs ==
  ASSUME NEW V \in SUBSET Message, NEW t
  PROVE  /\ \A i \in 1..Cardinality(Shown(V, t)) : ListIn(V, t)[i] \in Conv
         /\ \A c \in Shown(V, t) : ListIn(V, t)[PlaceIn(V, c)] = c
<1> DEFINE At(i) == CHOOSE c \in Shown(V, t) : PlaceIn(V, c) = i
<1>1. ASSUME NEW i \in 1..Cardinality(Shown(V, t))
      PROVE  At(i) \in Shown(V, t) /\ PlaceIn(V, At(i)) = i
  BY PlaceTaken
<1>2. \A i \in 1..Cardinality(Shown(V, t)) : ListIn(V, t)[i] = At(i)
  BY DEF ListIn
<1> HIDE DEF At
<1>3. ASSUME NEW c \in Shown(V, t) PROVE ListIn(V, t)[PlaceIn(V, c)] = c
  <2>1. PlaceIn(V, c) \in 1..Cardinality(Shown(V, t))
    BY PlaceType
  <2>2. At(PlaceIn(V, c)) \in Shown(V, t) /\ PlaceIn(V, At(PlaceIn(V, c))) = PlaceIn(V, c)
    BY <1>1, <2>1
  <2>3. At(PlaceIn(V, c)) = c
    BY <2>2, PlaceUnique
  <2> QED
    BY <1>2, <2>1, <2>3
<1>4. \A i \in 1..Cardinality(Shown(V, t)) : ListIn(V, t)[i] \in Conv
  BY <1>1, <1>2 DEF Shown
<1> QED
  BY <1>3, <1>4

\* What is recent is at the top of the list.
RecentIn(V, t, from) == Cardinality({c \in Shown(V, t) : Latest(V, c) > from})

LEMMA RecentFirst ==
  ASSUME NEW V \in SUBSET Message, NEW t, NEW from \in Nat
  PROVE  /\ RecentIn(V, t, from) \in 0..Cardinality(Shown(V, t))
         /\ \A c \in Shown(V, t) : Latest(V, c) > from => PlaceIn(V, c) <= RecentIn(V, t, from)
<1> DEFINE U == {c \in Shown(V, t) : Latest(V, c) > from}
<1>1. U \in SUBSET Shown(V, t) /\ RecentIn(V, t, from) = Cardinality(U)
  BY DEF RecentIn
<1>2. ASSUME NEW c \in Shown(V, t), Latest(V, c) > from
      PROVE  PlaceIn(V, c) <= Cardinality(U)
  <2>1. \A d \in Shown(V, t) : Above(V, d, c) => Latest(V, d) > from
    <3> SUFFICES ASSUME NEW d \in Shown(V, t), Above(V, d, c) PROVE Latest(V, d) > from
      OBVIOUS
    <3>1. Of(V, c) # {} /\ Of(V, d) # {}
      BY DEF Shown
    <3>2. Latest(V, d) \in Nat /\ Latest(V, c) \in Nat
      BY <3>1, LatestIs DEF Time
    <3>3. Latest(V, d) >= Latest(V, c)
      BY AboveOrders
    <3> QED
      BY <1>2, <3>2, <3>3
  <2>2. AllAbove(V, c) \subseteq U /\ c \in U
    BY <1>2, <2>1 DEF AllAbove, Shown
  <2> HIDE DEF U
  <2> QED
    BY <1>1, <2>2, PlaceWithin
<1>3. Cardinality(U) \in 0..Cardinality(Shown(V, t))
  <2> HIDE DEF U
  <2> QED
    BY <1>1, ShownFinite
<1> QED
  BY <1>1, <1>2, <1>3

\* A message that appears moves the other conversations down or not at all.
LEMMA OthersMoveDown ==
  ASSUME NEW V \in SUBSET Message, NEW n \in Message, NEW c, c # n.conv, Of(V, c) # {}, c \in Conv
  PROVE  /\ Of(V \cup {n}, c) = Of(V, c)
         /\ Latest(V \cup {n}, c) = Latest(V, c)
         /\ PlaceIn(V \cup {n}, c) >= PlaceIn(V, c)
<1> DEFINE W == V \cup {n}
<1>1. \A d : d # n.conv => Of(W, d) = Of(V, d)
  BY DEF Of
<1>2. \A d : d # n.conv => Latest(W, d) = Latest(V, d)
  BY <1>1 DEF Latest
<1>3. W \in SUBSET Message /\ V \subseteq W
  OBVIOUS
<1> HIDE DEF W
<1>4. ASSUME NEW d \in Conv, Of(V, d) # {}
      PROVE  /\ Of(W, d) # {} /\ Latest(W, d) \in Nat /\ Latest(V, d) \in Nat
             /\ Latest(W, d) >= Latest(V, d)
  <2>1. Of(W, d) # {}
    BY <1>3, <1>4 DEF Of
  <2>2. Latest(W, d) \in Nat /\ Latest(V, d) \in Nat
    BY <1>3, <1>4, <2>1, LatestIs DEF Time
  <2>3. PICK m \in V : m.conv = d /\ m.at = Latest(V, d)
    BY <1>4, LatestIs
  <2>4. \A k \in W : k.conv = d => k.at <= Latest(W, d)
    BY <1>3, <2>1, LatestIs
  <2>5. m.at <= Latest(W, d)
    BY <1>3, <2>3, <2>4
  <2> QED
    BY <2>1, <2>2, <2>3, <2>5
<1>5. ASSUME NEW d \in AllAbove(V, c) PROVE d \in AllAbove(W, c)
  <2>1. d \in Conv /\ Of(V, d) # {} /\ TypeOf[d] = TypeOf[c] /\ Above(V, d, c)
    BY DEF AllAbove, Shown
  <2>2. Of(W, d) # {} /\ Latest(W, d) \in Nat /\ Latest(V, d) \in Nat
        /\ Latest(W, d) >= Latest(V, d)
    BY <1>4, <2>1
  <2>3. Latest(W, c) = Latest(V, c) /\ Latest(V, c) \in Nat
    BY <1>2, <1>4
  <2>4. Above(W, d, c)
    BY <2>1, <2>2, <2>3 DEF Above
  <2> QED
    BY <2>1, <2>2, <2>4 DEF AllAbove, Shown
<1>6. AllAbove(V, c) \in SUBSET AllAbove(W, c) /\ AllAbove(V, c) \in SUBSET Shown(V, TypeOf[c])
      /\ AllAbove(W, c) \in SUBSET Shown(W, TypeOf[c])
  BY <1>5 DEF AllAbove
<1>7. IsFiniteSet(AllAbove(W, c)) /\ Cardinality(AllAbove(V, c)) \in Nat
      /\ Cardinality(AllAbove(W, c)) \in Nat
  BY <1>6, ShownFinite
<1>8. Cardinality(AllAbove(V, c)) <= Cardinality(AllAbove(W, c))
  BY <1>6, <1>7, FS_Subset
<1>9. PlaceIn(W, c) >= PlaceIn(V, c)
  BY <1>7, <1>8 DEF PlaceIn
<1> QED
  BY <1>1, <1>2, <1>9 DEF W


\* One page: it holds what is recent from the offset on, or the list goes on.
PageIn(V, t, offset, from) ==
    SubSeq(ListIn(V, t), offset + 1, Min({offset + PageSize, RecentIn(V, t, from)}))

LEMMA SmallerOfTwo ==
  ASSUME NEW a \in Nat, NEW b \in Nat
  PROVE  Min({a, b}) = IF a <= b THEN a ELSE b
<1>1. \A x \in {a, b} : (\A y \in {a, b} : x =< y) <=> x = IF a <= b THEN a ELSE b
  OBVIOUS
<1> QED
  BY <1>1 DEF Min

LEMMA PageIs ==
  ASSUME NEW V \in SUBSET Message, NEW t, NEW offset \in Nat, NEW from \in Nat
  PROVE  /\ PageIn(V, t, offset, from) \in Seq(Conv)
         /\ \A c \in Shown(V, t) :
                Latest(V, c) > from /\ PlaceIn(V, c) > offset =>
                    \/ \E k \in DOMAIN PageIn(V, t, offset, from) :
                           PageIn(V, t, offset, from)[k] = c
                    \/ /\ PlaceIn(V, c) > offset + PageSize
                       /\ PageIn(V, t, offset, from) # <<>>
                       /\ ~(offset + PageSize >= Cardinality(Shown(V, t)))
<1> DEFINE n == Cardinality(Shown(V, t))
           last == Min({offset + PageSize, RecentIn(V, t, from)})
           list == ListIn(V, t)
           page == SubSeq(list, offset + 1, last)
<1>1. n \in Nat /\ RecentIn(V, t, from) \in 0..n /\ PageSize \in Nat \ {0}
  BY ShownFinite, RecentFirst, SizeAssumption
<1>2. last = IF offset + PageSize <= RecentIn(V, t, from) THEN offset + PageSize
             ELSE RecentIn(V, t, from)
  <2>1. offset + PageSize \in Nat /\ RecentIn(V, t, from) \in Nat
    BY <1>1
  <2> QED
    BY <2>1, SmallerOfTwo
<1>3. PageIn(V, t, offset, from) = page
  BY DEF PageIn
<1>4. \A i \in 1..n : list[i] \in Conv
  BY ListIs
<1>5. \A c \in Shown(V, t) : list[PlaceIn(V, c)] = c
  BY ListIs
<1> HIDE DEF list
<1>6. last \in Nat /\ last <= n /\ last <= offset + PageSize
  <2> HIDE DEF n, last
  <2> QED
    BY <1>1, <1>2
<1>7. /\ page \in Seq(Conv)
      /\ Len(page) = IF offset + 1 <= last THEN last - (offset + 1) + 1 ELSE 0
      /\ \A i \in 1..last - (offset + 1) + 1 : page[i] = list[offset + 1 + i - 1]
  <2> HIDE DEF n, last
  <2>1. \A i \in (offset + 1)..last : list[i] \in Conv
    BY <1>1, <1>4, <1>6
  <2>2. offset + 1 \in Int /\ last \in Int
    BY <1>6
  <2> QED
    BY <2>1, <2>2, SubSeqProperties
<1>8. ASSUME NEW c \in Shown(V, t), Latest(V, c) > from, PlaceIn(V, c) > offset
      PROVE  \/ \E k \in DOMAIN page : page[k] = c
             \/ /\ PlaceIn(V, c) > offset + PageSize
                /\ page # <<>>
                /\ ~(offset + PageSize >= n)
  <2>1. PlaceIn(V, c) \in 1..n /\ PlaceIn(V, c) <= RecentIn(V, t, from)
    BY <1>8, PlaceType, RecentFirst
  <2> HIDE DEF n, page
  <2>2. CASE PlaceIn(V, c) <= last
    <3> DEFINE k == PlaceIn(V, c) - offset
    <3>1. k \in 1..last - (offset + 1) + 1 /\ k \in 1..Len(page) /\ offset + 1 + k - 1 = PlaceIn(V, c)
      <4> HIDE DEF last
      <4>1. PlaceIn(V, c) \in Nat /\ PlaceIn(V, c) > offset /\ PlaceIn(V, c) <= last /\ last \in Nat
        BY <1>1, <1>6, <1>8, <2>1, <2>2
      <4>2. k \in 1..last - (offset + 1) + 1 /\ offset + 1 + k - 1 = PlaceIn(V, c) /\ offset + 1 <= last
        BY <4>1
      <4>3. Len(page) = last - (offset + 1) + 1
        BY <1>7, <4>2
      <4> QED
        BY <4>2, <4>3
    <3>2. page[k] = list[PlaceIn(V, c)]
      <4> HIDE DEF last, k
      <4> QED
        BY <1>7, <3>1
    <3>3. k \in DOMAIN page
      <4> HIDE DEF last, k
      <4> QED
        BY <1>7, <3>1, LenProperties
    <3> QED
      BY <3>2, <3>3, <1>5
  <2>3. CASE ~(PlaceIn(V, c) <= last)
    <3> HIDE DEF last
    <3>1. last = offset + PageSize /\ PlaceIn(V, c) > offset + PageSize
      BY <1>1, <1>2, <1>6, <2>1, <2>3
    <3>2. Len(page) # 0
      BY <1>1, <1>7, <3>1
    <3>3. page # <<>>
      BY <3>2, EmptySeq
    <3> QED
      BY <1>1, <2>1, <3>1, <3>3
  <2> QED
    BY <2>2, <2>3
<1> QED
  BY <1>3, <1>7, <1>8

\* The model's list is that of the messages visible now.
LEMMA ListNow ==
  /\ \A c : MessagesOf(c) = Of(visible, c) /\ LastActivity(c) = Latest(visible, c)
  /\ \A t : Listed(t) = Shown(visible, t)
  /\ \A c : Place(c) = PlaceIn(visible, c)
  /\ \A t, o, f : Fresh(t, o, f) = PageIn(visible, t, o, f)
<1>1. \A c : MessagesOf(c) = Of(visible, c)
  BY DEF MessagesOf, Of
<1>2. \A c : LastActivity(c) = Latest(visible, c)
  BY <1>1 DEF LastActivity, Latest
<1>3. \A t : Listed(t) = Shown(visible, t)
  BY <1>1 DEF Listed, Shown
<1>4. \A c, d : Before(c, d) <=> Above(visible, c, d)
  BY <1>2 DEF Before, Above
<1>5. \A c : Place(c) = PlaceIn(visible, c)
  BY <1>3, <1>4 DEF Place, PlaceIn, AllAbove
<1>6. \A t : Listing(t) = ListIn(visible, t)
  BY <1>3, <1>5 DEF Listing, ListIn
<1>7. \A t, f : Recent(t, f) = RecentIn(visible, t, f)
  BY <1>2, <1>3 DEF Recent, RecentIn
<1>8. \A t, o, f : Fresh(t, o, f) = PageIn(visible, t, o, f)
  BY <1>6, <1>7 DEF Fresh, PageIn
<1> QED
  BY <1>1, <1>2, <1>3, <1>5, <1>8


-----------------------------------------------------------------------------
(* Types. *)

DataType ==
    /\ clock \in Time
    /\ visible \subseteq Message
    /\ hidden \subseteq Message
    /\ imported \subseteq Message
    /\ cursor \in 0..MaxTime
    /\ status \in AccountState
    /\ cap \in [Request -> Nat]
    /\ since \in [Request -> 0..MaxTime]
    /\ checkpoint \in [Request -> 0..MaxTime]
    /\ scan \in [Request -> Scan]
    /\ staged \in [Request -> SUBSET Message]
    /\ failed \in [Request -> BOOLEAN]
    /\ processed \in [Request -> 0..(CommitEvery - 1)]
    /\ deaths \in 0..MaxDeaths

LEMMA TypeIs == TypeOK <=> ControlType /\ DataType
  BY DEF TypeOK, ControlType, DataType

LEMMA TypeInit == Init => TypeOK
<1> SUFFICES ASSUME Init PROVE TypeOK
  OBVIOUS
<1>1. ControlType
  BY DEF Init, ControlType, LogState, Holder, Step, Stage
<1>2. TopOfList \in Scan
  BY TypeAssumption, LenProperties, EmptySeq DEF TopOfList, Scan
<1>3. clock \in Time /\ 0 \in 0..MaxTime /\ 0 \in 0..MaxDeaths /\ 0 \in 0..(CommitEvery - 1)
  BY BoundAssumption, SizeAssumption DEF Init, Time
<1>4. DataType
  BY <1>2, <1>3 DEF Init, DataType, AccountState
<1> QED
  BY <1>1, <1>4, TypeIs

\* A request touches nothing of a worker but its start and its cap.
LEMMA RequestKeeps ==
  ASSUME NEW r \in Request, RequestStep(r)
  PROVE  UNCHANGED <<clock, visible, hidden, imported, cursor, since, checkpoint,
                     scan, failed, processed, staged, deaths>>
<1> USE DEF requestFrame, ebayVars, planVars, workVars
<1>1. CASE CheckRunning(r) \/ Reserve(r) \/ MarkSyncing(r) \/ AdoptRunning(r)
  BY <1>1 DEF CheckRunning, Reserve, MarkSyncing, AdoptRunning
<1>2. CASE LoseReservation(r) \/ Spawn(r) \/ SpawnFails(r)
  BY <1>2 DEF LoseReservation, Spawn, SpawnFails
<1>3. CASE ReadReserved(r) \/ ReleaseReserved(r) \/ ReleaseAccount(r)
  BY <1>3 DEF ReadReserved, ReleaseReserved, ReleaseAccount
<1> QED
  BY <1>1, <1>2, <1>3 DEF RequestStep

LEMMA FetchSinceType ==
  ASSUME NEW a \in 0..MaxTime
  PROVE  FetchSince(a) \in 0..MaxTime
  BY BoundAssumption, OverlapAssumption DEF FetchSince

\* The page that follows, field by field.
LEMMA AfterPageIs ==
  ASSUME NEW s \in Scan, NEW from \in Nat, s.type <= Len(Types), visible \subseteq Message
  PROVE  LET fresh == PageIn(visible, Types[s.type], s.offset, from)
             over == \/ fresh = <<>>
                     \/ s.offset + PageSize >= Cardinality(Shown(visible, Types[s.type]))
         IN  /\ AfterPage(s, from) \in Scan
             /\ AfterPage(s, from).page = fresh
             /\ AfterPage(s, from).type = IF over THEN s.type + 1 ELSE s.type
             /\ AfterPage(s, from).offset = IF over THEN 0 ELSE s.offset + PageSize
<1> DEFINE fresh == PageIn(visible, Types[s.type], s.offset, from)
           over == \/ fresh = <<>>
                   \/ s.offset + PageSize >= Cardinality(Shown(visible, Types[s.type]))
<1>1. fresh \in Seq(Conv)
  BY PageIs DEF Scan
<1>2. Fresh(Types[s.type], s.offset, from) = fresh
  BY ListNow
<1>3. Listed(Types[s.type]) = Shown(visible, Types[s.type])
  BY ListNow
<1>4. PICK b \in BOOLEAN : b <=> over
  OBVIOUS
<1>5. AfterPage(s, from) = [s EXCEPT !.page = fresh,
                                     !.type = IF b THEN @ + 1 ELSE @,
                                     !.offset = IF b THEN 0 ELSE @ + PageSize]
  <2> HIDE DEF fresh
  <2> QED
    BY <1>2, <1>3, <1>4 DEF AfterPage
<1> HIDE DEF fresh, over
<1>6. Len(Types) \in Nat
  BY TypeAssumption, LenProperties
<1>7. PICK ty, of : /\ ty = IF b THEN s.type + 1 ELSE s.type
                    /\ of = IF b THEN 0 ELSE s.offset + PageSize
  OBVIOUS
<1>8. ty \in 1..(Len(Types) + 1) /\ of \in Nat
  <2>1. s.type \in Nat /\ s.type >= 1 /\ s.offset \in Nat /\ PageSize \in Nat
    BY SizeAssumption, <1>6 DEF Scan
  <2>2. CASE b
    BY <1>6, <1>7, <2>1, <2>2
  <2>3. CASE ~b
    BY <1>6, <1>7, <2>1, <2>3
  <2> QED
    BY <2>2, <2>3
<1>9. AfterPage(s, from) = [s EXCEPT !.page = fresh, !.type = ty, !.offset = of]
  BY <1>5, <1>7, Zenon
<1>10. /\ AfterPage(s, from) \in Scan
       /\ AfterPage(s, from).page = fresh
       /\ AfterPage(s, from).type = ty
       /\ AfterPage(s, from).offset = of
  BY <1>1, <1>8, <1>9 DEF Scan
<1> QED
  BY <1>4, <1>7, <1>10 DEF fresh, over


\* Where the generator goes on after a conversation.
LEMMA AdvanceIs ==
  ASSUME DataType, NEW p \in Request, scan[p].page # <<>>, Advance(p)
  PROVE  /\ scan' \in [Request -> Scan]
         /\ \A q \in Request \ {p} : scan'[q] = scan[q]
         /\ cap[p] = 0 => /\ scan'[p].page = Tail(scan[p].page)
                          /\ scan'[p].type = scan[p].type
                          /\ scan'[p].offset = scan[p].offset
<1> DEFINE s == scan[p]
<1>1. s \in Scan /\ scan \in [Request -> Scan] /\ cap[p] \in Nat
  BY DEF DataType
<1>2. Tail(s.page) \in Seq(Conv) /\ <<>> \in Seq(Conv)
  BY <1>1, HeadTailProperties, EmptySeq DEF Scan
<1>3. Len(Types) + 1 \in 1..(Len(Types) + 1)
  BY TypeAssumption, LenProperties
<1>4. CASE cap[p] # 0 /\ s.taken + 1 >= cap[p]
  <2>1. scan' = [scan EXCEPT ![p] = [s EXCEPT !.page = <<>>, !.type = Len(Types) + 1]]
    BY <1>4 DEF Advance
  <2>2. [s EXCEPT !.page = <<>>, !.type = Len(Types) + 1] \in Scan
    BY <1>1, <1>2, <1>3 DEF Scan
  <2> QED
    BY <1>1, <1>4, <2>1, <2>2
<1>5. CASE ~(cap[p] # 0 /\ s.taken + 1 >= cap[p])
  <2>1. PICK n : n = IF cap[p] = 0 THEN 0 ELSE s.taken + 1
    OBVIOUS
  <2>2. n \in Nat
    BY <1>1, <2>1 DEF Scan
  <2>3. scan' = [scan EXCEPT ![p] = [s EXCEPT !.page = Tail(s.page), !.taken = n]]
    BY <1>5, <2>1 DEF Advance
  <2>4. [s EXCEPT !.page = Tail(s.page), !.taken = n] \in Scan
    BY <1>1, <1>2, <2>2 DEF Scan
  <2> QED
    BY <1>1, <2>3, <2>4 DEF Scan
<1> QED
  BY <1>4, <1>5

LEMMA DataTypeStep ==
  ASSUME TypeOK, [Next]_vars
  PROVE  DataType'
<1>0. ControlType /\ DataType
  BY TypeIs
<1> USE <1>0 DEF DataType
<1>1. CASE EbayNext
  <2>1. ASSUME NEW c \in Conv, MessageSent(c) PROVE DataType'
    <3>1. [conv |-> c, at |-> clock] \in Message
      BY DEF Message
    <3> QED
      BY <2>1, <3>1 DEF MessageSent, requestVars, planVars, workVars
  <2>2. CASE Tick
    <3>1. clock' \in Time
      BY <2>2, BoundAssumption DEF Tick, Time
    <3> QED
      BY <2>2, <3>1 DEF Tick, requestVars, planVars, workVars
  <2>3. ASSUME NEW m \in hidden, MessageListed(m) PROVE DataType'
    BY <2>3 DEF MessageListed, requestVars, planVars, workVars
  <2> QED
    BY <1>1, <2>1, <2>2, <2>3 DEF EbayNext
<1>2. ASSUME NEW r \in Request, NEW k \in Kinds, LockAccount(r, k) PROVE DataType'
  BY <1>2 DEF LockAccount, requestFrame, ebayVars, planVars, workVars
<1>3. ASSUME NEW r \in Request, RequestStep(r) PROVE DataType'
  <2>1. status' \in AccountState
    BY <1>3 DEF RequestStep, CheckRunning, Reserve, MarkSyncing, AdoptRunning, LoseReservation,
       Spawn, SpawnFails, ReadReserved, ReleaseReserved, ReleaseAccount, AccountState
  <2>2. cap' \in [Request -> Nat]
    <3>1. CASE Spawn(r)
      <4>1. \A n \in IF kind[r] = "one" THEN Caps ELSE {0} : n \in Nat
        BY CapAssumption
      <4> QED
        BY <3>1, <4>1 DEF Spawn
    <3>2. CASE ~Spawn(r)
      BY <1>3, <3>2 DEF RequestStep, CheckRunning, Reserve, MarkSyncing, AdoptRunning,
         LoseReservation, SpawnFails, ReadReserved, ReleaseReserved, ReleaseAccount,
         requestFrame, planVars
    <3> QED
      BY <3>1, <3>2
  <2> QED
    BY <1>3, <2>1, <2>2, RequestKeeps
<1>4. ASSUME NEW p \in Request, WorkerStep(p) PROVE DataType'
  <2> USE DEF workerFrame, ebayVars, requestVars, planVars, workVars
  <2>1. CASE ReadAccount(p)
    <3>1. FetchSince(cursor) \in 0..MaxTime /\ clock \in 0..MaxTime
      BY FetchSinceType DEF Time
    <3> QED
      BY <2>1, <3>1 DEF ReadAccount
  <2>2. CASE StartLog(p) \/ Abort(p) \/ ScanFails(p)
    BY <2>2 DEF StartLog, Abort, ScanFails
  <2>3. CASE FetchPage(p)
    <3>1. scan[p] \in Scan /\ since[p] \in Nat /\ scan[p].type <= Len(Types)
      BY <2>3 DEF FetchPage
    <3>2. AfterPage(scan[p], since[p]) \in Scan
      BY <3>1, AfterPageIs
    <3>3. scan' \in [Request -> Scan]
      BY <2>3, <3>2 DEF FetchPage
    <3>4. imported' \subseteq Message /\ staged' \in [Request -> SUBSET Message]
      BY <2>3 DEF FetchPage
    <3> QED
      BY <2>3, <3>3, <3>4 DEF FetchPage
  <2>4. CASE ImportConversation(p)
    <3>1. scan' \in [Request -> Scan]
      BY <2>4, AdvanceIs DEF ImportConversation
    <3>2. MessagesOf(Head(scan[p].page)) \subseteq Message
      BY DEF MessagesOf
    <3>3. imported' \subseteq Message /\ staged' \in [Request -> SUBSET Message]
      BY <2>4, <3>2 DEF ImportConversation
    <3>4. (processed[p] + 1) % CommitEvery \in 0..(CommitEvery - 1)
      BY SizeAssumption
    <3>5. processed' \in [Request -> 0..(CommitEvery - 1)]
      BY <2>4, <3>4 DEF ImportConversation
    <3> QED
      BY <2>4, <3>1, <3>3, <3>5 DEF ImportConversation
  <2>5. CASE SkipConversation(p)
    <3>1. scan' \in [Request -> Scan]
      BY <2>5, AdvanceIs DEF SkipConversation
    <3>2. imported' \subseteq Message /\ staged' \in [Request -> SUBSET Message]
      BY <2>5 DEF SkipConversation
    <3> QED
      BY <2>5, <3>1, <3>2 DEF SkipConversation
  <2>6. CASE SyncOrders(p) \/ RecordMetadata(p)
    BY <2>6 DEF SyncOrders, RecordMetadata
  <2>7. CASE SyncOffers(p)
    BY <2>7 DEF SyncOffers
  <2>8. CASE Finalize(p)
    BY <2>8 DEF Finalize, AccountState
  <2>9. CASE HandleFailure(p)
    BY <2>9 DEF HandleFailure
  <2>10. CASE RecordFailure(p)
    BY <2>10 DEF RecordFailure, AccountState
  <2> QED
    BY <1>4, <2>1, <2>2, <2>3, <2>4, <2>5, <2>6, <2>7, <2>8, <2>9, <2>10 DEF WorkerStep
<1>5. ASSUME NEW r \in Request, DeathStep(r) PROVE DataType'
  <2>1. deaths' \in 0..MaxDeaths
    BY <1>5, BoundAssumption DEF DeathStep, WorkerDies, RequestDies
  <2> QED
    BY <1>5, <2>1 DEF DeathStep, WorkerDies, RequestDies, ebayVars, requestVars, planVars, workVars
<1>6. CASE UNCHANGED vars
  BY <1>6 DEF vars, ebayVars, requestVars, planVars, workVars
<1> QED
  BY <1>1, <1>2, <1>3, <1>4, <1>5, <1>6 DEF Next


-----------------------------------------------------------------------------
(* No message is lost.  max_conversations is left out (Caps is {0}): a sync *)
(* it cuts short moves the cursor past what it did not read.                *)

\* A worker that has not listed anything yet is at the top of the list.
FreshStage == {"none", "begin", "start", "abort"}
StartInv ==
    \A p \in Request :
        /\ stage[p] # "none" => step[p] \in {"release", "overwrite", "releaseStatus", "done"}
        /\ stage[p] \in FreshStage => scan[p] = TopOfList
        /\ cap[p] = 0

\* Cursors are in the past, and what eBay does not list yet is recent.
ClockInv ==
    /\ cursor <= clock
    /\ \A p \in Request : checkpoint[p] <= clock
    /\ \A m \in hidden : clock < m.at + Delay

\* The rest of a scan at s that takes what is later than from comes to c.
Ahead(V, s, from, c) ==
    \/ \E k \in DOMAIN s.page : s.page[k] = c
    \/ /\ Latest(V, c) > from
       /\ \E i \in DOMAIN Types :
              /\ Types[i] = TypeOf[c]
              /\ (i > s.type) \/ (i = s.type /\ PlaceIn(V, c) > s.offset)

\* A sync that starts from the cursor at reads c.
Later(V, at, c) == Latest(V, c) > FetchSince(at)

\* What worker p has not written is ahead of it, or the next sync reads it,
\* or p has skipped a conversation and will not move the cursor.
ScanOK(p) ==
    \A m \in visible \ (imported \cup staged[p]) :
        /\ stage[p] \in {"start", "scan"} =>
               \/ failed[p]
               \/ Later(visible, checkpoint[p], m.conv)
               \/ Ahead(visible, scan[p], since[p], m.conv)
        /\ stage[p] \in {"offers", "finalize"} => Later(visible, checkpoint[p], m.conv)
ScanInv == \A p \in Request : ScanOK(p)

LostInv == \A m \in visible \ imported : Later(visible, cursor, m.conv)

SyncInv == TypeOK /\ StartInv /\ ClockInv /\ LostInv /\ ScanInv

LEMMA LostInvIs == LostInv <=> NothingLost
  BY ListNow DEF LostInv, NothingLost, Later

LEMMA SyncInit == Caps \subseteq {0} /\ Init => SyncInv
<1> SUFFICES ASSUME Init PROVE SyncInv
  OBVIOUS
<1> QED
  BY TypeInit DEF Init, SyncInv, StartInv, ClockInv, LostInv, ScanInv, ScanOK

\* What keeps a worker's part of the invariant when the list stays the same.
LEMMA ScanKept ==
  ASSUME NEW p \in Request, ScanOK(p), visible' = visible,
         imported \cup staged[p] \subseteq imported' \cup staged'[p],
         \/ stage'[p] \notin {"start", "scan", "offers", "finalize"}
         \/ /\ stage'[p] = stage[p] /\ scan'[p] = scan[p] /\ since'[p] = since[p]
            /\ checkpoint'[p] = checkpoint[p] /\ (failed[p] => failed'[p])
  PROVE  ScanOK(p)'
<1>1. CASE stage'[p] \notin {"start", "scan", "offers", "finalize"}
  BY <1>1 DEF ScanOK
<1>2. CASE /\ stage'[p] = stage[p] /\ scan'[p] = scan[p] /\ since'[p] = since[p]
           /\ checkpoint'[p] = checkpoint[p] /\ (failed[p] => failed'[p])
  <2> SUFFICES ASSUME NEW m \in visible \ (imported' \cup staged'[p])
               PROVE  /\ stage[p] \in {"start", "scan"} =>
                             \/ failed'[p]
                             \/ Later(visible, checkpoint[p], m.conv)
                             \/ Ahead(visible, scan[p], since[p], m.conv)
                      /\ stage[p] \in {"offers", "finalize"} =>
                             Later(visible, checkpoint[p], m.conv)
    BY <1>2 DEF ScanOK, Later, Ahead
  <2>1. m \in visible \ (imported \cup staged[p])
    OBVIOUS
  <2> QED
    BY <1>2, <2>1 DEF ScanOK
<1> QED
  BY <1>1, <1>2

LEMMA LostKept ==
  ASSUME LostInv, visible' = visible, cursor' = cursor, imported \subseteq imported'
  PROVE  LostInv'
  BY DEF LostInv, Later

\* A message that appears in the list is one the next sync reads.
LEMMA MessageAppears ==
  ASSUME TypeOK, LostInv, ScanInv, NEW n \in Message, visible' = visible \cup {n},
         n.at > FetchSince(cursor), \A p \in Request : n.at > FetchSince(checkpoint[p]),
         UNCHANGED <<imported, staged, stage, scan, since, checkpoint, failed, cursor>>
  PROVE  LostInv' /\ ScanInv'
<1> DEFINE W == visible \cup {n}
<1>0. DataType /\ visible \in SUBSET Message /\ W \in SUBSET Message
  BY TypeIs DEF DataType
<1>1. Of(W, n.conv) # {} /\ Latest(W, n.conv) >= n.at /\ n.at \in Nat
      /\ Latest(W, n.conv) \in Nat
  <2>1. n \in W /\ Of(W, n.conv) # {}
    BY DEF Of
  <2>2. Latest(W, n.conv) \in Time /\ n.at <= Latest(W, n.conv)
    <3> HIDE DEF W
    <3> QED
      BY <1>0, <2>1, LatestIs
  <2> QED
    BY <2>1, <2>2 DEF Message, Time
<1>2. ASSUME NEW m \in visible, m.conv # n.conv
      PROVE  /\ m.conv \in Conv
             /\ Latest(W, m.conv) = Latest(visible, m.conv)
             /\ PlaceIn(W, m.conv) >= PlaceIn(visible, m.conv)
  <2>1. m.conv \in Conv /\ Of(visible, m.conv) # {}
    BY <1>0, <1>2 DEF Of, Message
  <2> QED
    BY <1>0, <1>2, <2>1, OthersMoveDown
<1>3. ASSUME NEW at \in 0..MaxTime, n.at > FetchSince(at)
      PROVE  Later(W, at, n.conv)
  BY <1>1, <1>3, FetchSinceType DEF Later
<1>4. ASSUME NEW m \in visible, m.conv # n.conv
      PROVE  \A at : Later(visible, at, m.conv) => Later(W, at, m.conv)
  BY <1>2, <1>4 DEF Later
<1>5. ASSUME NEW m \in visible, m.conv # n.conv, NEW s \in Scan, NEW from,
             Ahead(visible, s, from, m.conv)
      PROVE  Ahead(W, s, from, m.conv)
  <2>1. CASE \E k \in DOMAIN s.page : s.page[k] = m.conv
    BY <2>1 DEF Ahead
  <2>2. CASE ~ \E k \in DOMAIN s.page : s.page[k] = m.conv
    <3>1. Latest(W, m.conv) > from
      BY <1>2, <1>5, <2>2 DEF Ahead
    <3>2. PICK i \in DOMAIN Types :
              /\ Types[i] = TypeOf[m.conv]
              /\ (i > s.type) \/ (i = s.type /\ PlaceIn(visible, m.conv) > s.offset)
      BY <1>5, <2>2 DEF Ahead
    <3>3. Of(visible, m.conv) # {} /\ Of(W, m.conv) # {} /\ m.conv \in Conv
      BY <1>2, <1>5 DEF Of
    <3>4. PlaceIn(visible, m.conv) \in Nat /\ PlaceIn(W, m.conv) \in Nat
      <4>1. m.conv \in Shown(visible, TypeOf[m.conv]) /\ m.conv \in Shown(W, TypeOf[m.conv])
        BY <3>3 DEF Shown
      <4>2. \A V \in SUBSET Message : Cardinality(Shown(V, TypeOf[m.conv])) \in Nat
        BY ShownFinite
      <4> HIDE DEF W
      <4> QED
        BY <1>0, <4>1, <4>2, PlaceType
    <3>5. PlaceIn(W, m.conv) >= PlaceIn(visible, m.conv)
      BY <1>2, <1>5
    <3>6. i = s.type /\ PlaceIn(visible, m.conv) > s.offset => PlaceIn(W, m.conv) > s.offset
      BY <3>4, <3>5 DEF Scan
    <3> HIDE DEF W
    <3> QED
      BY <3>1, <3>2, <3>6 DEF Ahead
  <2> QED
    BY <2>1, <2>2
<1> HIDE DEF W
<1>6. visible' = W
  BY DEF W
<1>7. \A m \in W : m \in visible \/ m.conv = n.conv
  BY DEF W
<1>8. LostInv'
  <2> SUFFICES ASSUME NEW m \in W \ imported PROVE Later(W, cursor, m.conv)
    BY <1>6 DEF LostInv, Later
  <2>1. CASE m.conv = n.conv
    BY <1>0, <1>3, <2>1 DEF DataType
  <2>2. CASE m.conv # n.conv
    BY <1>4, <1>7, <2>2 DEF LostInv
  <2> QED
    BY <2>1, <2>2
<1>9. ASSUME NEW p \in Request PROVE ScanOK(p)'
  <2> SUFFICES ASSUME NEW m \in W \ (imported \cup staged[p])
               PROVE  /\ stage[p] \in {"start", "scan"} =>
                             \/ failed[p]
                             \/ Later(W, checkpoint[p], m.conv)
                             \/ Ahead(W, scan[p], since[p], m.conv)
                      /\ stage[p] \in {"offers", "finalize"} =>
                             Later(W, checkpoint[p], m.conv)
    BY <1>6 DEF ScanOK, Later, Ahead
  <2>1. CASE m.conv = n.conv
    <3>1. checkpoint[p] \in 0..MaxTime /\ n.at > FetchSince(checkpoint[p])
      BY <1>0 DEF DataType
    <3> QED
      BY <1>3, <2>1, <3>1
  <2>2. CASE m.conv # n.conv
    <3>1. m \in visible \ (imported \cup staged[p]) /\ scan[p] \in Scan
      BY <1>0, <1>7, <2>2 DEF DataType
    <3>2. ScanOK(p)
      BY DEF ScanInv
    <3> QED
      BY <1>4, <1>5, <2>2, <3>1, <3>2 DEF ScanOK
  <2> QED
    BY <2>1, <2>2
<1> QED
  BY <1>8, <1>9 DEF ScanInv


LEMMA EbayScanStep ==
  ASSUME SyncInv, EbayNext
  PROVE  StartInv' /\ ClockInv' /\ LostInv' /\ ScanInv'
<1>0. DataType
  BY TypeIs DEF SyncInv
<1> USE <1>0 DEF SyncInv, requestVars, planVars, workVars
<1>1. CASE Tick
  <2>1. clock \in Nat /\ clock' = clock + 1 /\ \A m \in hidden : clock' < m.at + Delay
    BY <1>1 DEF Tick, DataType, Time
  <2>2. UNCHANGED <<visible, hidden, imported, cursor, stage, step, cap, scan, staged,
                    since, checkpoint, failed>>
    BY <1>1 DEF Tick
  <2>3. ClockInv'
    BY <2>1, <2>2 DEF ClockInv, DataType
  <2>4. ScanInv'
    BY <2>2, ScanKept DEF ScanInv
  <2> QED
    BY <2>2, <2>3, <2>4, LostKept DEF StartInv
<1>2. ASSUME NEW c \in Conv, MessageSent(c) PROVE StartInv' /\ ClockInv' /\ LostInv' /\ ScanInv'
  <2> DEFINE n == [conv |-> c, at |-> clock]
  <2>1. UNCHANGED <<clock, imported, cursor, stage, step, cap, scan, staged,
                    since, checkpoint, failed>>
    BY <1>2 DEF MessageSent
  <2>2. n \in Message /\ n.at = clock /\ clock \in Nat
    BY DEF DataType, Message, Time
  <2>3. CASE visible' = visible \cup {n} /\ UNCHANGED hidden
    <3>1. clock > FetchSince(cursor) /\ \A p \in Request : clock > FetchSince(checkpoint[p])
      BY OverlapAssumption DEF ClockInv, DataType, FetchSince, Time
    <3>2. LostInv' /\ ScanInv'
      <4> HIDE DEF n
      <4> QED
        BY <2>1, <2>2, <2>3, <3>1, MessageAppears
    <3>3. ClockInv'
      BY <2>1, <2>3 DEF ClockInv
    <3> QED
      BY <2>1, <3>2, <3>3 DEF StartInv
  <2>4. CASE Delay > 0 /\ hidden' = hidden \cup {n} /\ UNCHANGED visible
    <3>1. ClockInv'
      BY <2>1, <2>2, <2>4, OverlapAssumption DEF ClockInv
    <3>2. ScanInv'
      BY <2>1, <2>4, ScanKept DEF ScanInv
    <3> QED
      BY <2>1, <2>4, <3>1, <3>2, LostKept DEF StartInv
  <2> QED
    BY <1>2, <2>3, <2>4 DEF MessageSent
<1>3. ASSUME NEW m \in hidden, MessageListed(m)
      PROVE  StartInv' /\ ClockInv' /\ LostInv' /\ ScanInv'
  <2>1. UNCHANGED <<clock, imported, cursor, stage, step, cap, scan, staged,
                    since, checkpoint, failed>>
        /\ visible' = visible \cup {m} /\ hidden' \subseteq hidden
    BY <1>3 DEF MessageListed
  <2>2. m \in Message /\ m.at \in Nat /\ m.at >= 1 /\ clock \in Nat /\ clock < m.at + Delay
    BY DEF DataType, ClockInv, Message, Time
  <2>3. ASSUME NEW a \in Nat, a <= clock PROVE m.at > FetchSince(a)
    BY <2>2, <2>3, OverlapAssumption DEF FetchSince
  <2>4. LostInv' /\ ScanInv'
    <3>1. cursor \in Nat /\ \A p \in Request : checkpoint[p] \in Nat
      BY DEF DataType
    <3>2. m.at > FetchSince(cursor) /\ \A p \in Request : m.at > FetchSince(checkpoint[p])
      BY <2>3, <3>1 DEF ClockInv
    <3> QED
      BY <2>1, <2>2, <3>2, MessageAppears
  <2>5. ClockInv'
    BY <2>1 DEF ClockInv
  <2> QED
    BY <2>1, <2>4, <2>5 DEF StartInv
<1> QED
  BY <1>1, <1>2, <1>3 DEF EbayNext

LEMMA RequestScanStep ==
  ASSUME SyncInv, Caps \subseteq {0}, NEW r \in Request, RequestStep(r)
  PROVE  StartInv' /\ ClockInv' /\ LostInv' /\ ScanInv'
<1>0. ControlType /\ DataType
  BY TypeIs DEF SyncInv
<1> USE <1>0 DEF SyncInv
<1>1. UNCHANGED <<clock, visible, hidden, imported, cursor, since, checkpoint,
                  scan, failed, processed, staged, deaths>>
  BY RequestKeeps
<1>2. /\ \A p \in Request \ {r} : stage'[p] = stage[p] /\ step'[p] = step[p] /\ cap'[p] = cap[p]
      /\ cap'[r] = 0
      /\ \/ stage'[r] = stage[r]
         \/ stage'[r] = "begin" /\ stage[r] = "none" /\ step'[r] \in {"release", "done"}
      /\ step'[r] # "idle"
      /\ stage[r] # "none" => step'[r] \in {"release", "overwrite", "releaseStatus", "done"}
  <2> USE DEF requestFrame, planVars, StartInv, ControlType, DataType
  <2>1. CASE CheckRunning(r) \/ Reserve(r) \/ MarkSyncing(r) \/ AdoptRunning(r) \/ LoseReservation(r)
    BY <2>1 DEF CheckRunning, Reserve, MarkSyncing, AdoptRunning, LoseReservation
  <2>2. CASE Spawn(r)
    <3>1. \A n \in IF kind[r] = "one" THEN Caps ELSE {0} : n = 0
      OBVIOUS
    <3> QED
      BY <2>2, <3>1 DEF Spawn
  <2>3. CASE SpawnFails(r)
    BY <2>3 DEF SpawnFails
  <2>4. CASE ReadReserved(r) \/ ReleaseReserved(r) \/ ReleaseAccount(r)
    BY <2>4 DEF ReadReserved, ReleaseReserved, ReleaseAccount
  <2> QED
    BY <2>1, <2>2, <2>3, <2>4 DEF RequestStep
<1>3. StartInv'
  BY <1>1, <1>2 DEF StartInv, FreshStage
<1>4. ClockInv' /\ LostInv'
  BY <1>1, LostKept DEF ClockInv
<1>5. ASSUME NEW p \in Request PROVE ScanOK(p)'
  BY <1>1, <1>2, ScanKept DEF ScanInv
<1> QED
  BY <1>3, <1>4, <1>5 DEF ScanInv

LEMMA LockScanStep ==
  ASSUME SyncInv, NEW r \in Request, NEW k \in Kinds, LockAccount(r, k)
  PROVE  StartInv' /\ ClockInv' /\ LostInv' /\ ScanInv'
<1>0. ControlType /\ DataType
  BY TypeIs DEF SyncInv
<1> USE <1>0 DEF SyncInv
<1>1. UNCHANGED <<clock, visible, hidden, imported, cursor, since, checkpoint, cap,
                  scan, failed, staged, stage>>
  BY DEF LockAccount, requestFrame, ebayVars, planVars, workVars
<1>2. StartInv'
  BY <1>1 DEF StartInv, LockAccount, ControlType
<1>3. ClockInv' /\ LostInv'
  BY <1>1, LostKept DEF ClockInv
<1>4. ScanInv'
  BY <1>1, ScanKept DEF ScanInv
<1> QED
  BY <1>2, <1>3, <1>4

LEMMA DeathScanStep ==
  ASSUME SyncInv, NEW r \in Request, DeathStep(r)
  PROVE  StartInv' /\ ClockInv' /\ LostInv' /\ ScanInv'
<1>0. ControlType /\ DataType
  BY TypeIs DEF SyncInv
<1> USE <1>0 DEF SyncInv, ebayVars, requestVars, planVars, workVars
<1>1. UNCHANGED <<clock, visible, hidden, imported, cursor, since, checkpoint, cap, scan, failed>>
  BY DEF DeathStep, WorkerDies, RequestDies
<1>2. \A p \in Request : /\ \/ stage'[p] = stage[p] /\ staged'[p] = staged[p]
                            \/ stage'[p] = "dead" /\ stage[p] # "none"
                         /\ step'[p] = step[p] \/ step'[p] = "done"
  BY DEF DeathStep, WorkerDies, RequestDies, ControlType, DataType
<1>3. StartInv'
  BY <1>1, <1>2 DEF StartInv, FreshStage
<1>4. ClockInv' /\ LostInv'
  BY <1>1, LostKept DEF ClockInv
<1>5. ASSUME NEW p \in Request PROVE ScanOK(p)'
  <2>1. CASE stage'[p] = stage[p] /\ staged'[p] = staged[p]
    BY <1>1, <2>1, ScanKept DEF ScanInv
  <2>2. CASE stage'[p] = "dead"
    BY <2>2 DEF ScanOK
  <2> QED
    BY <1>2, <2>1, <2>2
<1> QED
  BY <1>3, <1>4, <1>5 DEF ScanInv


\* A worker leaves the others alone, and only its end moves the cursor.
LEMMA WorkerKeeps ==
  ASSUME SyncInv, NEW p \in Request, WorkerStep(p)
  PROVE  /\ UNCHANGED <<clock, visible, hidden, step, cap>>
         /\ imported \subseteq imported'
         /\ \A q \in Request \ {p} :
                /\ stage'[q] = stage[q] /\ staged'[q] = staged[q] /\ scan'[q] = scan[q]
                /\ since'[q] = since[q] /\ checkpoint'[q] = checkpoint[q]
                /\ failed'[q] = failed[q]
         /\ stage[p] # "none"
         /\ stage'[p] \in FreshStage => stage[p] \in FreshStage /\ scan'[p] = scan[p]
         /\ checkpoint'[p] \in {checkpoint[p], clock}
         /\ cursor' = IF Finalize(p) THEN checkpoint[p] ELSE cursor
<1>0. ControlType /\ DataType
  BY TypeIs DEF SyncInv
<1> USE <1>0 DEF workerFrame, ebayVars, requestVars, planVars, workVars, FreshStage,
     ControlType, DataType
<1>1. CASE ReadAccount(p)
  BY <1>1 DEF ReadAccount, Finalize
<1>2. CASE StartLog(p) \/ Abort(p) \/ ScanFails(p)
  BY <1>2 DEF StartLog, Abort, ScanFails, Finalize
<1>3. CASE FetchPage(p)
  <2>1. \A q \in Request \ {p} : staged'[q] = staged[q] /\ scan'[q] = scan[q]
    BY <1>3 DEF FetchPage
  <2>2. stage[p] = "scan" /\ imported \subseteq imported'
        /\ UNCHANGED <<stage, since, checkpoint, failed, cursor, clock, visible, hidden, step, cap>>
    BY <1>3 DEF FetchPage
  <2> QED
    BY <2>1, <2>2 DEF Finalize
<1>4. CASE ImportConversation(p)
  <2>1. \A q \in Request \ {p} : scan'[q] = scan[q]
    BY <1>4, AdvanceIs DEF ImportConversation
  <2>2. imported \subseteq imported' /\ \A q \in Request \ {p} : staged'[q] = staged[q]
    BY <1>4 DEF ImportConversation
  <2>3. stage[p] = "scan"
        /\ UNCHANGED <<stage, since, checkpoint, failed, cursor, clock, visible, hidden, step, cap>>
    BY <1>4 DEF ImportConversation
  <2> QED
    BY <2>1, <2>2, <2>3 DEF Finalize
<1>5. CASE SkipConversation(p)
  <2>1. \A q \in Request \ {p} : scan'[q] = scan[q]
    BY <1>5, AdvanceIs DEF SkipConversation
  <2>2. imported \subseteq imported'
        /\ \A q \in Request \ {p} : staged'[q] = staged[q] /\ failed'[q] = failed[q]
    BY <1>5 DEF SkipConversation
  <2>3. stage[p] = "scan"
        /\ UNCHANGED <<stage, since, checkpoint, cursor, clock, visible, hidden, step, cap>>
    BY <1>5 DEF SkipConversation
  <2> QED
    BY <2>1, <2>2, <2>3 DEF Finalize
<1>6. CASE SyncOrders(p) \/ RecordMetadata(p)
  BY <1>6 DEF SyncOrders, RecordMetadata, Finalize
<1>7. CASE SyncOffers(p)
  BY <1>7 DEF SyncOffers, Finalize
<1>8. CASE Finalize(p)
  BY <1>8 DEF Finalize
<1>9. CASE HandleFailure(p) \/ RecordFailure(p)
  BY <1>9 DEF HandleFailure, RecordFailure, Finalize
<1> QED
  BY <1>1, <1>2, <1>3, <1>4, <1>5, <1>6, <1>7, <1>8, <1>9 DEF WorkerStep

\* Reading the account: the list from its top holds all that is not in the
\* database.
LEMMA ReadScan ==
  ASSUME SyncInv, NEW p \in Request, ReadAccount(p)
  PROVE  ScanOK(p)'
<1>0. DataType
  BY TypeIs DEF SyncInv
<1>1. /\ stage'[p] = "start" /\ since'[p] = FetchSince(cursor)
      /\ UNCHANGED <<visible, imported, staged, scan, failed>> /\ scan[p] = TopOfList
  <2>1. scan[p] = TopOfList
    BY DEF ReadAccount, SyncInv, StartInv, FreshStage
  <2>2. ControlType
    BY TypeIs DEF SyncInv
  <2>3. stage'[p] = "start" /\ since'[p] = FetchSince(cursor)
    BY <1>0, <2>2 DEF ReadAccount, ControlType, DataType
  <2> QED
    BY <2>1, <2>3 DEF ReadAccount, ebayVars, workVars
<1>2. ASSUME NEW m \in visible \ imported
      PROVE  Ahead(visible, scan[p], FetchSince(cursor), m.conv)
  <2> DEFINE c == m.conv
  <2>1. m \in Message /\ c \in Conv /\ Latest(visible, c) > FetchSince(cursor)
    BY <1>0 DEF SyncInv, LostInv, Later, DataType, Message
  <2>2. PICK i \in DOMAIN Types : Types[i] = TypeOf[c]
    BY <2>1, TypeAssumption
  <2>3. i \in Nat /\ i >= 1
    BY TypeAssumption, LenProperties
  <2>4. c \in Shown(visible, TypeOf[c])
    BY <2>1 DEF Shown, Of
  <2>5. PlaceIn(visible, c) > 0
    <3> HIDE DEF c
    <3>1. Cardinality(Shown(visible, TypeOf[c])) \in Nat /\ visible \in SUBSET Message
      BY <1>0, ShownFinite DEF DataType
    <3>2. PlaceIn(visible, c) \in 1..Cardinality(Shown(visible, TypeOf[c]))
      BY <2>4, <3>1, PlaceType
    <3> QED
      BY <3>1, <3>2
  <2>6. scan[p].type = 1 /\ scan[p].offset = 0
    BY <1>1 DEF TopOfList
  <2>7. (i > scan[p].type) \/ (i = scan[p].type /\ PlaceIn(visible, c) > scan[p].offset)
    BY <2>3, <2>5, <2>6
  <2> HIDE DEF c
  <2>8. Ahead(visible, scan[p], FetchSince(cursor), c)
    BY <2>1, <2>2, <2>7 DEF Ahead
  <2> QED
    BY <2>8 DEF c
<1>3. \A m \in visible \ (imported \cup staged[p]) :
          Ahead(visible, scan[p], since'[p], m.conv)
  BY <1>1, <1>2
<1> QED
  BY <1>1, <1>3 DEF ScanOK, Ahead

\* The page that follows holds what was next, and the rest stays ahead.
LEMMA FetchScan ==
  ASSUME SyncInv, NEW p \in Request, FetchPage(p)
  PROVE  ScanOK(p)'
<1>0. DataType
  BY TypeIs DEF SyncInv
<1> DEFINE t == Types[scan[p].type]
<1>s. PICK s, n : s = scan[p] /\ n = AfterPage(scan[p], since[p])
  OBVIOUS
<1>1. /\ stage[p] = "scan" /\ s.page = <<>> /\ s.type <= Len(Types) /\ scan'[p] = n
      /\ UNCHANGED <<visible, since, checkpoint, stage, failed>>
      /\ imported \cup staged[p] \subseteq imported' \cup staged'[p]
  BY <1>0, <1>s DEF FetchPage, workerFrame, ebayVars, planVars, DataType
<1>2. s \in Scan /\ s.type \in Nat /\ s.type >= 1 /\ s.offset \in Nat /\ since[p] \in Nat
      /\ visible \in SUBSET Message /\ PageSize \in Nat
  BY <1>0, <1>s, SizeAssumption, TypeAssumption, LenProperties DEF DataType, Scan
<1>3. PICK page, over :
        /\ page = PageIn(visible, t, s.offset, since[p])
        /\ over = (page = <<>> \/ s.offset + PageSize >= Cardinality(Shown(visible, t)))
        /\ over \in BOOLEAN
  OBVIOUS
<1>4. /\ n.page = page
      /\ n.type = IF over THEN s.type + 1 ELSE s.type
      /\ n.offset = IF over THEN 0 ELSE s.offset + PageSize
  <2>1. t = Types[s.type] /\ n = AfterPage(s, since[p])
    BY <1>s
  <2> HIDE DEF t
  <2>2. /\ n.page = page
        /\ n.type = IF page = <<>> \/ s.offset + PageSize >= Cardinality(Shown(visible, t))
                    THEN s.type + 1 ELSE s.type
        /\ n.offset = IF page = <<>> \/ s.offset + PageSize >= Cardinality(Shown(visible, t))
                      THEN 0 ELSE s.offset + PageSize
    BY <1>1, <1>2, <1>3, <2>1, AfterPageIs
  <2> QED
    BY <1>3, <2>2, Zenon
<1>5. ASSUME NEW m \in visible, Ahead(visible, s, since[p], m.conv)
      PROVE  Ahead(visible, n, since[p], m.conv)
  <2>0. PICK c : c = m.conv
    OBVIOUS
  <2>1. c \in Conv /\ Of(visible, c) # {}
    BY <1>2, <2>0 DEF Message, Of
  <2> SUFFICES ASSUME Ahead(visible, s, since[p], c)
               PROVE  Ahead(visible, n, since[p], c)
    BY <1>5, <2>0
  <2>2. Ahead(visible, s, since[p], c)
    OBVIOUS
  <2>3. ~ \E k \in DOMAIN s.page : s.page[k] = c
    BY <1>1, EmptySeq
  <2>4. Latest(visible, c) > since[p]
    BY <2>2, <2>3 DEF Ahead
  <2>5. PICK i \in DOMAIN Types : /\ Types[i] = TypeOf[c]
                                  /\ (i > s.type) \/ (i = s.type /\ PlaceIn(visible, c) > s.offset)
    BY <2>2, <2>3 DEF Ahead
  <2>6. c \in Shown(visible, TypeOf[c])
    BY <2>1 DEF Shown
  <2>7. PlaceIn(visible, c) \in Nat /\ PlaceIn(visible, c) >= 1
    <3>1. Cardinality(Shown(visible, TypeOf[c])) \in Nat
      BY ShownFinite
    <3>2. PlaceIn(visible, c) \in 1..Cardinality(Shown(visible, TypeOf[c]))
      BY <1>2, <2>6, PlaceType
    <3> QED
      BY <3>1, <3>2
  <2>8. i \in Nat
    BY TypeAssumption, LenProperties
  <2>9. CASE i > s.type
    <3>1. (i > n.type) \/ (i = n.type /\ PlaceIn(visible, c) > n.offset)
      <4>1. CASE over
        BY <1>2, <1>4, <2>7, <2>8, <2>9, <4>1
      <4>2. CASE ~over
        <5>1. n.type = s.type
          BY <1>3, <1>4, <4>2
        <5> QED
          BY <2>9, <5>1
      <4> QED
        BY <4>1, <4>2
    <3> QED
      BY <2>4, <2>5, <3>1 DEF Ahead
  <2>10. CASE i = s.type /\ PlaceIn(visible, c) > s.offset
    <3>1. t = TypeOf[c] /\ c \in Shown(visible, t)
      BY <1>s, <2>5, <2>6, <2>10
    <3>2. \/ \E k \in DOMAIN page : page[k] = c
          \/ /\ PlaceIn(visible, c) > s.offset + PageSize
             /\ page # <<>>
             /\ ~(s.offset + PageSize >= Cardinality(Shown(visible, t)))
      <4> HIDE DEF t
      <4> QED
        BY <1>2, <1>3, <2>4, <2>10, <3>1, PageIs
    <3>3. CASE \E k \in DOMAIN page : page[k] = c
      BY <1>4, <3>3 DEF Ahead
    <3>4. CASE /\ PlaceIn(visible, c) > s.offset + PageSize
               /\ page # <<>>
               /\ ~(s.offset + PageSize >= Cardinality(Shown(visible, t)))
      <4>1. ~over
        BY <1>3, <3>4
      <4>2. n.type = s.type /\ n.offset = s.offset + PageSize
        BY <1>4, <4>1
      <4> QED
        BY <2>4, <2>5, <2>10, <3>4, <4>2 DEF Ahead
    <3> QED
      BY <3>2, <3>3, <3>4
  <2> QED
    BY <2>5, <2>9, <2>10
<1>6. \A m \in visible \ (imported \cup staged[p]) :
          \/ failed[p]
          \/ Later(visible, checkpoint[p], m.conv)
          \/ Ahead(visible, n, since[p], m.conv)
  BY <1>s, <1>1, <1>5 DEF SyncInv, ScanInv, ScanOK
<1>7. \A m \in visible \ (imported' \cup staged'[p]) : m \in visible \ (imported \cup staged[p])
  BY <1>1
<1> QED
  BY <1>1, <1>6, <1>7 DEF ScanOK, Ahead, Later


\* The conversation at hand is written whole; the rest stays ahead.
LEMMA ImportScan ==
  ASSUME SyncInv, NEW p \in Request, ImportConversation(p)
  PROVE  ScanOK(p)'
<1>0. DataType
  BY TypeIs DEF SyncInv
<1>1. PICK s, h : s = scan[p] /\ h = Head(scan[p].page)
  OBVIOUS
<1>2. /\ stage[p] = "scan" /\ s.page # <<>> /\ s.page \in Seq(Conv) /\ cap[p] = 0
      /\ UNCHANGED <<visible, since, checkpoint, stage, failed>>
  BY <1>0, <1>1 DEF ImportConversation, workerFrame, ebayVars, planVars, DataType, SyncInv,
     StartInv, Scan
<1>3. imported \cup staged[p] \cup Of(visible, h) \subseteq imported' \cup staged'[p]
  <2>1. MessagesOf(h) = Of(visible, h)
    BY ListNow
  <2>2. PICK refreshed \in BOOLEAN :
            LET early == IF refreshed THEN staged[p] ELSE {}
                open == (staged[p] \ early) \cup MessagesOf(h)
                count == (processed[p] + 1) % CommitEvery
                late == IF count = 0 THEN open ELSE {}
            IN  /\ imported' = imported \cup early \cup late
                /\ staged' = [staged EXCEPT ![p] = open \ late]
    BY <1>1 DEF ImportConversation
  <2> DEFINE early == IF refreshed THEN staged[p] ELSE {}
             open == (staged[p] \ early) \cup MessagesOf(h)
             late == IF (processed[p] + 1) % CommitEvery = 0 THEN open ELSE {}
  <2>3. staged'[p] = open \ late
    BY <1>0, <2>2 DEF DataType
  <2>4. open \subseteq imported' \cup staged'[p]
    BY <2>2, <2>3
  <2> QED
    BY <2>1, <2>2, <2>4
<1>4. /\ scan'[p].page = Tail(s.page)
      /\ scan'[p].type = s.type /\ scan'[p].offset = s.offset
  BY <1>0, <1>1, <1>2, AdvanceIs DEF ImportConversation
<1>5. ASSUME NEW c, c # h, Ahead(visible, s, since[p], c)
      PROVE  Ahead(visible, scan'[p], since[p], c)
  <2>1. CASE \E k \in DOMAIN s.page : s.page[k] = c
    <3>1. PICK k \in DOMAIN s.page : s.page[k] = c
      BY <2>1
    <3>2. k \in 1..Len(s.page) /\ Len(s.page) \in Nat /\ Head(s.page) = s.page[1]
      BY <1>2, LenProperties
    <3>3. k # 1
      BY <1>1, <1>5, <3>1, <3>2
    <3>4. k - 1 \in 1..Len(Tail(s.page)) /\ Tail(s.page)[k - 1] = s.page[k - 1 + 1]
      BY <1>2, <3>2, <3>3, HeadTailProperties
    <3>5. k - 1 \in DOMAIN Tail(s.page) /\ Tail(s.page)[k - 1] = c
      BY <1>2, <3>1, <3>2, <3>4, HeadTailProperties, LenProperties
    <3> QED
      BY <1>4, <3>5 DEF Ahead
  <2>2. CASE ~ \E k \in DOMAIN s.page : s.page[k] = c
    BY <1>4, <1>5, <2>2 DEF Ahead
  <2> QED
    BY <2>1, <2>2
<1>6. ASSUME NEW m \in visible \ (imported' \cup staged'[p])
      PROVE  \/ failed[p]
             \/ Later(visible, checkpoint[p], m.conv)
             \/ Ahead(visible, scan'[p], since[p], m.conv)
  <2>1. m.conv # h
    BY <1>3 DEF Of
  <2>2. m \in visible \ (imported \cup staged[p])
    BY <1>3
  <2> QED
    BY <1>1, <1>2, <1>5, <2>1, <2>2 DEF SyncInv, ScanInv, ScanOK
<1> QED
  BY <1>2, <1>6 DEF ScanOK, Ahead, Later

\* At the end of the list nothing is ahead, and no conversation was skipped.
LEMMA EndScan ==
  ASSUME SyncInv, NEW p \in Request, SyncOrders(p)
  PROVE  ScanOK(p)'
<1>0. ControlType /\ DataType
  BY TypeIs DEF SyncInv
<1>1. CASE failed[p]
  <2>1. stage'[p] = "failing"
    BY <1>0, <1>1 DEF SyncOrders, ControlType
  <2> QED
    BY <2>1 DEF ScanOK
<1>2. CASE ~failed[p]
  <2>1. /\ stage[p] = "scan" /\ stage'[p] = "offers"
        /\ UNCHANGED <<visible, imported, staged, checkpoint>>
    BY <1>0, <1>2 DEF SyncOrders, ControlType, workerFrame, ebayVars, planVars
  <2>2. scan[p].page = <<>> /\ scan[p].type > Len(Types)
    BY DEF SyncOrders, EndOfList
  <2>3. Len(Types) \in Nat /\ DOMAIN Types = 1..Len(Types) /\ scan[p].type \in Nat
    BY <1>0, TypeAssumption, LenProperties DEF DataType, Scan
  <2>4. \A c : ~Ahead(visible, scan[p], since[p], c)
    BY <2>2, <2>3, EmptySeq DEF Ahead
  <2>5. \A m \in visible \ (imported \cup staged[p]) : Later(visible, checkpoint[p], m.conv)
    BY <1>2, <2>1, <2>4 DEF SyncInv, ScanInv, ScanOK
  <2> QED
    BY <2>1, <2>5 DEF ScanOK, Later
<1> QED
  BY <1>1, <1>2

LEMMA OwnScan ==
  ASSUME SyncInv, NEW p \in Request, WorkerStep(p)
  PROVE  ScanOK(p)'
<1>0. ControlType /\ DataType /\ ScanOK(p)
  BY TypeIs DEF SyncInv, ScanInv
<1> USE <1>0 DEF workerFrame, ebayVars, planVars, workVars
<1>1. CASE StartLog(p)
  <2>1. /\ stage[p] = "start" /\ stage'[p] \in {"scan", "abort"}
        /\ UNCHANGED <<visible, imported, staged, scan, since, checkpoint, failed>>
    BY <1>1 DEF StartLog, ControlType
  <2> QED
    BY <2>1 DEF ScanOK, Later, Ahead
<1>2. CASE Abort(p) \/ ScanFails(p) \/ HandleFailure(p) \/ RecordFailure(p) \/ RecordMetadata(p)
           \/ Finalize(p)
  <2>1. stage'[p] \in {"failStatus", "failing", "done", "metadata"}
    BY <1>2 DEF Abort, ScanFails, HandleFailure, RecordFailure, RecordMetadata, Finalize,
       ControlType
  <2> QED
    BY <2>1 DEF ScanOK
<1>3. CASE SkipConversation(p)
  <2>1. stage'[p] = "scan" /\ failed'[p]
    BY <1>3 DEF SkipConversation, DataType
  <2> QED
    BY <2>1 DEF ScanOK
<1>4. CASE SyncOffers(p)
  <2>1. /\ stage[p] = "offers" /\ stage'[p] \in {"finalize", "failing"}
        /\ UNCHANGED <<visible, checkpoint>>
        /\ imported \cup staged[p] \subseteq imported' \cup staged'[p]
    BY <1>4 DEF SyncOffers, ControlType, DataType
  <2>2. \A m \in visible \ (imported' \cup staged'[p]) : Later(visible, checkpoint[p], m.conv)
    BY <2>1 DEF ScanOK
  <2> QED
    BY <2>1, <2>2 DEF ScanOK, Later
<1> QED
  BY <1>1, <1>2, <1>3, <1>4, ReadScan, FetchScan, ImportScan, EndScan DEF WorkerStep

LEMMA WorkerScanStep ==
  ASSUME SyncInv, NEW p \in Request, WorkerStep(p)
  PROVE  StartInv' /\ ClockInv' /\ LostInv' /\ ScanInv'
<1>0. ControlType /\ DataType
  BY TypeIs DEF SyncInv
<1>1. StartInv'
  BY WorkerKeeps DEF SyncInv, StartInv, FreshStage
<1>2. ClockInv'
  <2>1. clock \in Nat /\ cursor \in Nat /\ \A q \in Request : checkpoint[q] \in Nat
    BY <1>0 DEF DataType, Time
  <2> QED
    BY <2>1, WorkerKeeps DEF SyncInv, ClockInv
<1>3. LostInv'
  <2>1. CASE Finalize(p)
    <3>1. /\ stage[p] = "finalize" /\ cursor' = checkpoint[p] /\ visible' = visible
          /\ imported' = imported \cup staged[p]
      BY <2>1 DEF Finalize, workerFrame, ebayVars
    <3>2. \A m \in visible \ (imported \cup staged[p]) : Later(visible, checkpoint[p], m.conv)
      BY <3>1 DEF SyncInv, ScanInv, ScanOK
    <3> QED
      BY <3>1, <3>2 DEF LostInv, Later
  <2>2. CASE ~Finalize(p)
    BY <2>2, WorkerKeeps, LostKept DEF SyncInv
  <2> QED
    BY <2>1, <2>2
<1>4. ASSUME NEW q \in Request PROVE ScanOK(q)'
  <2>1. CASE q = p
    BY <2>1, OwnScan
  <2>2. CASE q # p
    <3>1. q \in Request \ {p} /\ ScanOK(q)
      BY <2>2 DEF SyncInv, ScanInv
    <3> QED
      BY <3>1, WorkerKeeps, ScanKept
  <2> QED
    BY <2>1, <2>2
<1> QED
  BY <1>1, <1>2, <1>3, <1>4 DEF ScanInv

LEMMA SyncStep ==
  ASSUME SyncInv, Caps \subseteq {0}, [Next]_vars
  PROVE  SyncInv'
<1>1. TypeOK'
  BY ControlTypeStep, DataTypeStep, TypeIs DEF SyncInv, TypeOK, ControlType, DataType
<1>2. CASE UNCHANGED vars
  <2>1. UNCHANGED <<clock, visible, hidden, imported, cursor, step, stage, cap, since,
                    checkpoint, scan, staged, failed>>
    BY <1>2 DEF vars, ebayVars, requestVars, planVars, workVars
  <2>2. StartInv' /\ ClockInv' /\ LostInv'
    BY <2>1, LostKept DEF SyncInv, StartInv, ClockInv
  <2>3. ScanInv'
    BY <2>1, ScanKept DEF SyncInv, ScanInv
  <2> QED
    BY <1>1, <2>2, <2>3 DEF SyncInv
<1>3. CASE Next
  BY <1>1, <1>3, EbayScanStep, RequestScanStep, LockScanStep, DeathScanStep, WorkerScanStep
     DEF Next, SyncInv
<1> QED
  BY <1>2, <1>3

\* Every variable keeps its type, whatever the caps and kinds of the requests.
THEOREM TypeCorrect == Spec => []TypeOK
<1>1. TypeOK /\ [Next]_vars => TypeOK'
  BY ControlTypeStep, DataTypeStep, TypeIs DEF TypeOK, ControlType, DataType
<1> QED
  BY <1>1, TypeInit, PTL DEF Spec

\* No message is lost by syncs without a cap, whatever else the requests are:
\* several workers at a time, deaths, failures, messages listed late.
THEOREM NoMessageLost ==
  ASSUME Caps \subseteq {0}
  PROVE  Spec => []NothingLost
<1>1. SyncInv => NothingLost
  BY LostInvIs DEF SyncInv
<1> QED
  BY <1>1, SyncInit, SyncStep, PTL DEF Spec
=============================================================================
