----------------------- MODULE BestOfferActionsProofs -----------------------
(***************************************************************************)
(* Proofs about BestOfferActions, for any number of keys and requests.     *)
(*                                                                         *)
(* The safety properties follow from one inductive invariant.  Its heart   *)
(* is RowInv and BlockInv: the ledger row of the request that holds the    *)
(* lock is exactly where the request left it, and a row that may have      *)
(* reached eBay either is the newest one or keeps the offer flagged.       *)
(***************************************************************************)
EXTENDS BestOfferActions, TLAPS

\* The account lock has one holder and says who it is.
LockInv ==
    /\ \A a \in Attempt : lock = a <=> pc[a] \in Holding
    /\ lock = "sync" <=> sync # "idle"
    /\ lock = "recovery" <=> recovery = "locked"

\* What recovery read is still true where its verdict relies on it.
StaleInv ==
    recovery # "idle" =>
        /\ staleKey \in Key
        /\ staleState = "PREPARED" => /\ action[staleKey] = "PREPARED"
                                      /\ ~LiveIn(staleKey, {"prepared"})
        /\ staleState = "DISPATCHING" => action[staleKey] \notin {"NONE", "PREPARED"}
        /\ staleState # "NONE"

\* The row and the offer version behind each request that holds the lock.
RowInv ==
    \A a \in Attempt :
        /\ pc[a] = "prepared" => /\ action[KeyOf[a]] = "PREPARED"
                                 /\ version = expected[KeyOf[a]]
        /\ pc[a] \in {"dispatching", "sent"} => /\ action[KeyOf[a]] = "DISPATCHING"
                                                /\ version = expected[KeyOf[a]] + 1
        /\ pc[a] \in {"prepared", "dispatching", "sent"} => expected[KeyOf[a]] # 0

\* A row that was not dispatched has sent nothing.
UnsentInv == \A k \in Key : action[k] \in {"NONE", "PREPARED"} => outcome[k] = "unsent"

\* The unique index holds, and a row that blocks the offer by its state is the newest.
BlockInv ==
    /\ \A j, k \in Key : action[j] \in Unresolved /\ action[k] \in Unresolved => j = k
    /\ \A k \in Key : action[k] \in {"PREPARED", "DISPATCHING", "SUCCEEDED"} => last = k

\* The stored status is one the offer has had at eBay.
EvidenceInv == status \in provider /\ "Active" \in provider /\ ReconciledOnEvidence

\* Before a request is put on the wire, all earlier ones are settled.
SettledInv ==
    \A a \in Attempt : pc[a] \in {"prepared", "dispatching"} =>
        \A j \in Key : outcome[j] = "unsent" \/ Settled(j)

IInv == /\ TypeOK /\ LockInv /\ StaleInv /\ RowInv /\ UnsentInv /\ BlockInv
        /\ EvidenceInv /\ UncertainOfferFlagged /\ FailedMeansNotApplied /\ SettledInv

-----------------------------------------------------------------------------
(* Type correctness *)

LEMMA TypeInit == Init => TypeOK
<1> SUFFICES ASSUME Init PROVE TypeOK
  OBVIOUS
<1>1. provider \in SUBSET Status /\ status \in Status
  BY DEF Init, Status
<1>2. outcome \in [Key -> {"unsent", "inflight", "applied", "rejected"}]
  BY DEF Init
<1>3. action \in [Key -> ActionState] /\ pc \in [Attempt -> Place]
  BY DEF Init, ActionState, Place
<1>4. expected \in [Key -> Nat] /\ version \in Nat \ {0}
  BY DEF Init
<1>5. /\ last \in Key \cup {NoKey} /\ staleKey \in Key \cup {NoKey}
      /\ staleState \in {"NONE", "PREPARED", "DISPATCHING"}
      /\ recovery \in {"idle", "read", "locked"}
  BY DEF Init
<1>6. /\ lock \in Attempt \cup {"free", "sync", "recovery"}
      /\ sync \in {"idle", "scan", "listing", "observed", "settled"}
  BY DEF Init
<1>7. needs \in BOOLEAN /\ done \in BOOLEAN /\ current \in BOOLEAN
      /\ seen \in BOOLEAN /\ published \in BOOLEAN
  BY DEF Init
<1> QED BY <1>1, <1>2, <1>3, <1>4, <1>5, <1>6, <1>7 DEF TypeOK

LEMMA TypeStep == TypeOK /\ [Next]_vars => TypeOK'
<1> SUFFICES ASSUME TypeOK, [Next]_vars PROVE TypeOK'
  OBVIOUS
<1> USE KeyAssumption DEF TypeOK, ActionState, Status, Place
<1>1. CASE OutsideNext
  <2>1. ASSUME NEW k \in Key, Compose(k) PROVE TypeOK'
    BY <2>1 DEF Compose, ledgerVars, offerVars, recoveryVars, syncVars, ebayVars
  <2>2. ASSUME NEW k \in Key, ProviderDecides(k) PROVE TypeOK'
    <3>1. provider' \in SUBSET Status
      <4>1. ASSUME NEW s \in {"Countered", "Agreed", "Closed"}, provider' = provider \cup {s}
            PROVE  \A x \in provider' : x \in Status
        BY <4>1
      <4>2. \A x \in provider' : x \in Status
        BY <2>2, <4>1 DEF ProviderDecides
      <4> QED BY <4>2
    <3>2. outcome' \in [Key -> {"unsent", "inflight", "applied", "rejected"}]
      BY <2>2 DEF ProviderDecides
    <3> QED BY <2>2, <3>1, <3>2
         DEF ProviderDecides, ledgerVars, offerVars, requestVars, recoveryVars, syncVars
  <2>3. CASE MarkDone
    BY <2>3 DEF MarkDone, ledgerVars, requestVars, recoveryVars, syncVars, ebayVars
  <2>4. CASE BuyerEnds
    <3>1. \A x \in provider' : x \in Status
      <4>1. ASSUME NEW s \in {"Agreed", "Closed"}, provider' = provider \cup {s}
            PROVE  \A x \in provider' : x \in Status
        BY <4>1
      <4> QED BY <2>4, <4>1 DEF BuyerEnds
    <3> QED BY <2>4, <3>1 DEF BuyerEnds, ledgerVars, offerVars, requestVars, recoveryVars, syncVars
  <2> QED BY <1>1, <2>1, <2>2, <2>3, <2>4 DEF OutsideNext
<1>2. ASSUME NEW a \in Attempt, RequestNext(a) PROVE TypeOK'
  <2> USE DEF ledgerVars, offerVars, recoveryVars, syncVars, ebayVars
  <2>0. KeyOf[a] \in Key
    OBVIOUS
  <2>1. CASE Lookup(a)
    BY <2>1 DEF Lookup
  <2>2. CASE Acquire(a)
    BY <2>2 DEF Acquire
  <2>3. CASE Decide(a)
    BY <2>0, <2>3 DEF Decide
  <2>4. CASE Dispatch(a)
    BY <2>0, <2>4 DEF Dispatch
  <2>5. CASE DispatchFails(a)
    BY <2>0, <2>5 DEF DispatchFails
  <2>6. CASE Send(a)
    BY <2>0, <2>6 DEF Send
  <2>7. CASE RecordOutcome(a)
    <3>1. Verdicts(KeyOf[a]) \subseteq {"SUCCEEDED", "FAILED", "RECONCILIATION_REQUIRED"}
      BY DEF Verdicts
    <3> QED BY <2>0, <2>7, <3>1 DEF RecordOutcome
  <2>8. CASE AttemptDies(a)
    BY <2>8 DEF AttemptDies
  <2> QED BY <1>2, <2>1, <2>2, <2>3, <2>4, <2>5, <2>6, <2>7, <2>8 DEF RequestNext
<1>3. CASE RecoveryNext
  <2> USE DEF ledgerVars, offerVars, requestVars, syncVars, ebayVars
  <2>1. ASSUME NEW k \in Key, RecoverRead(k) PROVE TypeOK'
    BY <2>1 DEF RecoverRead
  <2>2. CASE RecoverTry
    BY <2>2 DEF RecoverTry
  <2>3. CASE RecoverCommit
    <3>1. action' \in [Key -> ActionState] /\ needs' \in BOOLEAN
      BY <2>3 DEF RecoverCommit, RecoveredState
    <3> QED BY <2>3, <3>1 DEF RecoverCommit
  <2> QED BY <1>3, <2>1, <2>2, <2>3 DEF RecoveryNext
<1>4. CASE SyncNext
  <2> USE DEF ledgerVars, offerVars, requestVars, recoveryVars, ebayVars
  <2>1. CASE SyncBegin
    BY <2>1 DEF SyncBegin
  <2>2. CASE ScanSees
    BY <2>2 DEF ScanSees, Upsert
  <2>3. CASE ScanComplete
    BY <2>3 DEF ScanComplete
  <2>4. CASE ScanPartial
    BY <2>4 DEF ScanPartial
  <2>5. CASE ListingSees
    BY <2>5 DEF ListingSees, Upsert
  <2>6. CASE ListingSettles
    BY <2>6 DEF ListingSettles, Transitioned
  <2>7. CASE ListingEmpty
    <3>1. Outstanding \in BOOLEAN
      BY DEF Outstanding
    <3>2. needs' \in BOOLEAN
      BY <2>7, <3>1 DEF ListingEmpty
    <3>3. /\ sync' = "settled" /\ seen' = FALSE
          /\ UNCHANGED <<ledgerVars, version, status, done, current, lock, requestVars,
                         recoveryVars, published, ebayVars>>
      BY <2>7 DEF ListingEmpty
    <3>4. action' \in [Key -> ActionState] /\ last' \in Key \cup {NoKey}
      BY <3>3
    <3>5. /\ version' \in Nat \ {0} /\ status' \in Status
          /\ done' \in BOOLEAN /\ current' \in BOOLEAN
      BY <3>3
    <3>6. /\ lock' \in Attempt \cup {"free", "sync", "recovery"}
          /\ pc' \in [Attempt -> Place] /\ expected' \in [Key -> Nat]
      BY <3>3
    <3>7. /\ recovery' \in {"idle", "read", "locked"} /\ staleKey' \in Key \cup {NoKey}
          /\ staleState' \in {"NONE", "PREPARED", "DISPATCHING"}
      BY <3>3
    <3>8. /\ sync' \in {"idle", "scan", "listing", "observed", "settled"}
          /\ seen' \in BOOLEAN /\ published' \in BOOLEAN
      BY <3>3
    <3>9. outcome' \in [Key -> {"unsent", "inflight", "applied", "rejected"}]
      BY <3>3
    <3>10. provider' \in SUBSET Status
      BY <3>3
    <3> QED BY <3>2, <3>4, <3>5, <3>6, <3>7, <3>8, <3>9, <3>10
  <2>8. CASE Republish
    BY <2>8 DEF Republish
  <2>9. CASE SyncEnds
    BY <2>9 DEF SyncEnds
  <2> QED BY <1>4, <2>1, <2>2, <2>3, <2>4, <2>5, <2>6, <2>7, <2>8, <2>9 DEF SyncNext
<1>5. CASE UNCHANGED vars
  BY <1>5 DEF vars, ledgerVars, offerVars, requestVars, recoveryVars, syncVars, ebayVars
<1> QED BY <1>1, <1>2, <1>3, <1>4, <1>5 DEF Next

\* Every variable keeps its type, for any keys, requests and bound: in
\* particular recovery and reconciliation only write states the ledger knows.
THEOREM ActionTypes == Spec => []TypeOK
  BY TypeInit, TypeStep, PTL DEF Spec

-----------------------------------------------------------------------------
(* Who holds the account lock *)

\* Two requests that hold the lock are one.
LEMMA OneHolder ==
  ASSUME LockInv, NEW a \in Attempt, NEW b \in Attempt,
         pc[a] \in Holding, pc[b] \in Holding
  PROVE  a = b
  BY DEF LockInv

\* While a sync or recovery runs under the lock, no request does.
LEMMA NoHolder ==
  ASSUME LockInv, sync # "idle" \/ recovery = "locked" \/ lock = "free"
  PROVE  \A a \in Attempt : pc[a] \notin Holding
  BY LockAssumption DEF LockInv

\* The lock is handed over and given back with the place of its holder.
LEMMA LockStep ==
  ASSUME TypeOK, LockInv, [Next]_vars
  PROVE  LockInv'
<1> USE DEF ledgerVars, offerVars, requestVars, recoveryVars, syncVars, ebayVars
<1>1. CASE OutsideNext
  BY <1>1 DEF OutsideNext, Compose, ProviderDecides, MarkDone, BuyerEnds, LockInv, Holding, TypeOK
<1>2. ASSUME NEW a \in Attempt, RequestNext(a) PROVE LockInv'
  <2>0. KeyOf[a] \in Key
    BY KeyAssumption
  <2>1. CASE Lookup(a)
    BY LockAssumption, <2>0, <2>1 DEF Lookup, LockInv, Holding, TypeOK
  <2>2. CASE Acquire(a)
    BY LockAssumption, <2>0, <2>2 DEF Acquire, LockInv, Holding, TypeOK
  <2>3. CASE Decide(a)
    BY LockAssumption, <2>0, <2>3 DEF Decide, LockInv, Holding, TypeOK
  <2>4. CASE Dispatch(a)
    BY LockAssumption, <2>0, <2>4 DEF Dispatch, LockInv, Holding, TypeOK
  <2>5. CASE DispatchFails(a)
    BY LockAssumption, <2>0, <2>5 DEF DispatchFails, LockInv, Holding, TypeOK
  <2>6. CASE Send(a)
    BY LockAssumption, <2>0, <2>6 DEF Send, LockInv, Holding, TypeOK
  <2>7. CASE RecordOutcome(a)
    BY LockAssumption, <2>0, <2>7 DEF RecordOutcome, LockInv, Holding, TypeOK
  <2>8. CASE AttemptDies(a)
    BY LockAssumption, <2>0, <2>8 DEF AttemptDies, LockInv, Holding, TypeOK
  <2> QED BY <1>2, <2>1, <2>2, <2>3, <2>4, <2>5, <2>6, <2>7, <2>8 DEF RequestNext
<1>3. CASE RecoveryNext
  <2>1. ASSUME NEW k \in Key, RecoverRead(k) PROVE LockInv'
    BY LockAssumption, <2>1 DEF RecoverRead, LockInv, Holding, TypeOK
  <2>2. CASE RecoverTry
    BY LockAssumption, <2>2 DEF RecoverTry, LockInv, Holding, TypeOK
  <2>3. CASE RecoverCommit
    BY LockAssumption, <2>3 DEF RecoverCommit, LockInv, Holding, TypeOK
  <2> QED BY <1>3, <2>1, <2>2, <2>3 DEF RecoveryNext
<1>4. CASE SyncNext
  <2>1. CASE SyncBegin
    BY LockAssumption, <2>1 DEF SyncBegin, LockInv, Holding, TypeOK
  <2>2. CASE ScanSees
    BY LockAssumption, <2>2 DEF ScanSees, Upsert, LockInv, Holding, TypeOK
  <2>3. CASE ScanComplete
    BY LockAssumption, <2>3 DEF ScanComplete, LockInv, Holding, TypeOK
  <2>4. CASE ScanPartial
    BY LockAssumption, <2>4 DEF ScanPartial, LockInv, Holding, TypeOK
  <2>5. CASE ListingSees
    BY LockAssumption, <2>5 DEF ListingSees, Upsert, LockInv, Holding, TypeOK
  <2>6. CASE ListingSettles
    BY LockAssumption, <2>6 DEF ListingSettles, LockInv, Holding, TypeOK
  <2>7. CASE ListingEmpty
    BY LockAssumption, <2>7 DEF ListingEmpty, LockInv, Holding, TypeOK
  <2>8. CASE Republish
    BY LockAssumption, <2>8 DEF Republish, LockInv, Holding, TypeOK
  <2>9. CASE SyncEnds
    BY LockAssumption, <2>9 DEF SyncEnds, LockInv, Holding, TypeOK
  <2> QED BY <1>4, <2>1, <2>2, <2>3, <2>4, <2>5, <2>6, <2>7, <2>8, <2>9 DEF SyncNext
<1>5. CASE UNCHANGED vars
  BY <1>5 DEF vars, LockInv, Holding, TypeOK
<1> QED BY <1>1, <1>2, <1>3, <1>4, <1>5 DEF Next

\* Only the holder of the lock moves its row or the version of the offer.
LEMMA RowStep ==
  ASSUME TypeOK, LockInv, RowInv, [Next]_vars
  PROVE  RowInv'
<1> USE DEF ledgerVars, offerVars, requestVars, recoveryVars, syncVars, ebayVars
<1>1. CASE OutsideNext
  <2>1. ASSUME NEW k \in Key, Compose(k) PROVE RowInv'
    BY <2>1 DEF Compose, RowInv, TypeOK, Holding
  <2>2. CASE (\E k \in Key : ProviderDecides(k)) \/ MarkDone \/ BuyerEnds
    BY <2>2 DEF ProviderDecides, MarkDone, BuyerEnds, RowInv, TypeOK, Holding
  <2> QED BY <1>1, <2>1, <2>2 DEF OutsideNext
<1>2. ASSUME NEW a \in Attempt, RequestNext(a) PROVE RowInv'
  <2>0. KeyOf[a] \in Key
    BY KeyAssumption
  <2>1. CASE Lookup(a)
    BY <2>0, <2>1 DEF Lookup, RowInv, TypeOK, Holding
  <2>2. CASE Acquire(a)
    BY OneHolder, <2>0, <2>2 DEF Acquire, RowInv, TypeOK, Holding
  <2>3. CASE Decide(a)
    <3>1. \A b \in Attempt \ {a} : pc[b] \notin Holding /\ pc'[b] = pc[b]
      BY OneHolder, <2>3 DEF Decide, Holding, TypeOK
    <3>2. CASE pc' = [pc EXCEPT ![a] = "prepared"]
      <4>1. /\ action' = [action EXCEPT ![KeyOf[a]] = "PREPARED"]
            /\ version = expected[KeyOf[a]]
        BY <3>2, <2>3 DEF Decide, TypeOK, Acceptable
      <4> QED BY <2>0, <3>1, <3>2, <4>1, <2>3 DEF Decide, RowInv, TypeOK, Holding
    <3>3. CASE pc' = [pc EXCEPT ![a] = "replayed"] \/ pc' = [pc EXCEPT ![a] = "conflict"]
      BY <3>1, <3>3 DEF RowInv, TypeOK, Holding
    <3> QED BY <3>2, <3>3, <2>3 DEF Decide
  <2>4. CASE Dispatch(a)
    BY OneHolder, <2>0, <2>4 DEF Dispatch, RowInv, TypeOK, Holding
  <2>5. CASE DispatchFails(a)
    BY OneHolder, <2>0, <2>5 DEF DispatchFails, RowInv, TypeOK, Holding
  <2>6. CASE Send(a)
    BY OneHolder, <2>0, <2>6 DEF Send, RowInv, TypeOK, Holding
  <2>7. CASE RecordOutcome(a)
    BY OneHolder, <2>0, <2>7 DEF RecordOutcome, RowInv, TypeOK, Holding
  <2>8. CASE AttemptDies(a)
    BY OneHolder, <2>0, <2>8 DEF AttemptDies, RowInv, TypeOK, Holding
  <2> QED BY <1>2, <2>1, <2>2, <2>3, <2>4, <2>5, <2>6, <2>7, <2>8 DEF RequestNext
<1>3. CASE RecoveryNext
  <2>1. CASE RecoverCommit
    BY NoHolder, <2>1 DEF RecoverCommit, RowInv, TypeOK, Holding
  <2>2. CASE (\E k \in Key : RecoverRead(k)) \/ RecoverTry
    BY <2>2 DEF RecoverRead, RecoverTry, RowInv, TypeOK, Holding
  <2> QED BY <1>3, <2>1, <2>2 DEF RecoveryNext
<1>4. CASE SyncNext
  <2>1. CASE ScanSees
    BY NoHolder, <2>1 DEF ScanSees, Upsert, RowInv, TypeOK, Holding
  <2>2. CASE ListingSees
    BY NoHolder, <2>2 DEF ListingSees, Upsert, RowInv, TypeOK, Holding
  <2>3. CASE ListingSettles
    BY NoHolder, <2>3 DEF ListingSettles, RowInv, TypeOK, Holding
  <2>4. CASE SyncBegin \/ ScanComplete \/ ScanPartial \/ ListingEmpty \/ Republish \/ SyncEnds
    BY <2>4 DEF SyncBegin, ScanComplete, ScanPartial, ListingEmpty, Republish, SyncEnds, RowInv, TypeOK, Holding
  <2> QED BY <1>4, <2>1, <2>2, <2>3, <2>4 DEF SyncNext
<1>5. CASE UNCHANGED vars
  BY <1>5 DEF vars, RowInv, TypeOK, Holding
<1> QED BY <1>1, <1>2, <1>3, <1>4, <1>5 DEF Next

-----------------------------------------------------------------------------
(* What recovery has read *)

\* A request that could make recovery's reading wrong cannot exist while it holds it.
LEMMA StaleStep ==
  ASSUME PromptDispatch = TRUE, TypeOK, RowInv, StaleInv, [Next]_vars
  PROVE  StaleInv'
<1> USE DEF ledgerVars, offerVars, requestVars, recoveryVars, syncVars, ebayVars
<1>1. CASE OutsideNext
  BY <1>1 DEF OutsideNext, Compose, ProviderDecides, MarkDone, BuyerEnds, StaleInv, LiveIn, TypeOK
<1>2. ASSUME NEW a \in Attempt, RequestNext(a) PROVE StaleInv'
  <2>0. KeyOf[a] \in Key
    BY KeyAssumption
  <2>1. CASE Lookup(a)
    BY <2>0, <2>1 DEF Lookup, StaleInv, LiveIn, TypeOK
  <2>2. CASE Acquire(a)
    BY <2>0, <2>2 DEF Acquire, StaleInv, LiveIn, TypeOK
  <2>3. CASE Decide(a)
    <3>1. CASE /\ action[KeyOf[a]] = "NONE"
               /\ action' = [action EXCEPT ![KeyOf[a]] = "PREPARED"]
      <4>1. recovery # "idle" => staleKey # KeyOf[a]
        BY <3>1 DEF StaleInv, TypeOK
      <4> QED BY <2>0, <3>1, <4>1, <2>3 DEF Decide, StaleInv, LiveIn, TypeOK
    <3>2. CASE UNCHANGED action /\ pc'[a] # "prepared"
      BY <2>0, <3>2, <2>3 DEF Decide, StaleInv, LiveIn, TypeOK
    <3> QED BY <3>1, <3>2, <2>3 DEF Decide, Replayed, TypeOK
  <2>4. CASE Dispatch(a)
    BY <2>0, <2>4 DEF Dispatch, RowInv, StaleInv, LiveIn, TypeOK
  <2>5. CASE DispatchFails(a)
    BY <2>0, <2>5 DEF DispatchFails, RowInv, StaleInv, LiveIn, TypeOK
  <2>6. CASE Send(a)
    BY <2>0, <2>6 DEF Send, StaleInv, LiveIn, TypeOK
  <2>7. CASE RecordOutcome(a)
    <3>1. Verdicts(KeyOf[a]) \subseteq {"SUCCEEDED", "FAILED", "RECONCILIATION_REQUIRED"}
      BY DEF Verdicts
    <3>2. action[KeyOf[a]] = "DISPATCHING"
      BY <2>7 DEF RecordOutcome, RowInv
    <3>3. \A j \in Key \ {KeyOf[a]} : action'[j] = action[j]
      BY <2>7 DEF RecordOutcome, TypeOK
    <3>4. action'[KeyOf[a]] \notin {"NONE", "PREPARED"}
      BY <2>0, <3>1, <2>7 DEF RecordOutcome, TypeOK
    <3> QED BY <2>0, <3>2, <3>3, <3>4, <2>7 DEF RecordOutcome, StaleInv, LiveIn, TypeOK
  <2>8. CASE AttemptDies(a)
    BY <2>0, <2>8 DEF AttemptDies, StaleInv, LiveIn, TypeOK
  <2> QED BY <1>2, <2>1, <2>2, <2>3, <2>4, <2>5, <2>6, <2>7, <2>8 DEF RequestNext
<1>3. CASE RecoveryNext
  <2>1. ASSUME NEW k \in Key, RecoverRead(k) PROVE StaleInv'
    BY <2>1 DEF RecoverRead, StaleInv, LiveIn, TypeOK
  <2>2. CASE RecoverTry
    BY <2>2 DEF RecoverTry, StaleInv, LiveIn, TypeOK
  <2>3. CASE RecoverCommit
    BY <2>3 DEF RecoverCommit, StaleInv, LiveIn, TypeOK
  <2> QED BY <1>3, <2>1, <2>2, <2>3 DEF RecoveryNext
<1>4. CASE SyncNext
  <2>1. CASE ListingSettles
    <3>1. \A k \in Key : /\ action[k] = "PREPARED" => action'[k] = "PREPARED"
                         /\ action[k] \notin {"NONE", "PREPARED"} => action'[k] \notin {"NONE", "PREPARED"}
      BY <2>1 DEF ListingSettles, Awaited, TypeOK
    <3> QED BY <3>1, <2>1 DEF ListingSettles, StaleInv, LiveIn, TypeOK
  <2>2. CASE SyncBegin \/ ScanSees \/ ScanComplete \/ ScanPartial \/ ListingSees \/ ListingEmpty \/ Republish \/ SyncEnds
    BY <2>2 DEF SyncBegin, ScanSees, ScanComplete, ScanPartial, ListingSees, ListingEmpty, Republish, SyncEnds, StaleInv, LiveIn, TypeOK
  <2> QED BY <1>4, <2>1, <2>2 DEF SyncNext
<1>5. CASE UNCHANGED vars
  BY <1>5 DEF vars, StaleInv, LiveIn, TypeOK
<1> QED BY <1>1, <1>2, <1>3, <1>4, <1>5 DEF Next

-----------------------------------------------------------------------------
(* The ledger *)

\* Only a dispatched row sends.
LEMMA UnsentStep ==
  ASSUME TypeOK, StaleInv, RowInv, UnsentInv, [Next]_vars
  PROVE  UnsentInv'
<1> USE DEF ledgerVars, offerVars, requestVars, recoveryVars, syncVars, ebayVars
<1>1. CASE OutsideNext
  <2>1. ASSUME NEW k \in Key, ProviderDecides(k) PROVE UnsentInv'
    BY <2>1 DEF ProviderDecides, UnsentInv, TypeOK
  <2>2. CASE (\E k \in Key : Compose(k)) \/ MarkDone \/ BuyerEnds
    BY <2>2 DEF Compose, MarkDone, BuyerEnds, UnsentInv, TypeOK
  <2> QED BY <1>1, <2>1, <2>2 DEF OutsideNext
<1>2. ASSUME NEW a \in Attempt, RequestNext(a) PROVE UnsentInv'
  <2>0. KeyOf[a] \in Key
    BY KeyAssumption
  <2>1. CASE Decide(a)
    BY <2>0, <2>1 DEF Decide, Replayed, UnsentInv, TypeOK
  <2>2. CASE Dispatch(a)
    BY <2>0, <2>2 DEF Dispatch, RowInv, UnsentInv, TypeOK
  <2>3. CASE DispatchFails(a)
    BY <2>0, <2>3 DEF DispatchFails, RowInv, UnsentInv, TypeOK
  <2>4. CASE Send(a)
    BY <2>0, <2>4 DEF Send, RowInv, UnsentInv, TypeOK
  <2>5. CASE RecordOutcome(a)
    <3>1. PICK v \in Verdicts(KeyOf[a]) : action' = [action EXCEPT ![KeyOf[a]] = v]
                                       /\ needs' = (needs /\ v # "FAILED")
      BY <2>5 DEF RecordOutcome
    <3>2. /\ v \in {"SUCCEEDED", "FAILED", "RECONCILIATION_REQUIRED"}
          /\ v = "FAILED" => outcome[KeyOf[a]] = "rejected"
      BY DEF Verdicts
    <3>3. action[KeyOf[a]] = "DISPATCHING" /\ pc[a] = "sent"
      BY <2>5 DEF RecordOutcome, RowInv
    <3> QED BY <2>0, <3>1, <3>2, <3>3, <2>5 DEF RecordOutcome, UnsentInv, TypeOK
  <2>6. CASE Lookup(a) \/ Acquire(a) \/ AttemptDies(a)
    BY <2>6 DEF Lookup, Acquire, AttemptDies, UnsentInv, TypeOK
  <2> QED BY <1>2, <2>1, <2>2, <2>3, <2>4, <2>5, <2>6 DEF RequestNext
<1>3. CASE RecoveryNext
  <2>1. CASE RecoverCommit
    BY <2>1 DEF RecoverCommit, RecoveredState, StaleInv, UnsentInv, TypeOK
  <2>2. CASE (\E k \in Key : RecoverRead(k)) \/ RecoverTry
    BY <2>2 DEF RecoverRead, RecoverTry, UnsentInv, TypeOK
  <2> QED BY <1>3, <2>1, <2>2 DEF RecoveryNext
<1>4. CASE SyncNext
  <2>1. CASE ListingSettles
    BY <2>1 DEF ListingSettles, UnsentInv, TypeOK
  <2>2. CASE SyncBegin \/ ScanSees \/ ScanComplete \/ ScanPartial \/ ListingSees \/ ListingEmpty \/ Republish \/ SyncEnds
    BY <2>2 DEF SyncBegin, ScanSees, ScanComplete, ScanPartial, ListingSees, ListingEmpty, Republish, SyncEnds, UnsentInv, TypeOK
  <2> QED BY <1>4, <2>1, <2>2 DEF SyncNext
<1>5. CASE UNCHANGED vars
  BY <1>5 DEF vars, UnsentInv, TypeOK
<1> QED BY <1>1, <1>2, <1>3, <1>4, <1>5 DEF Next

\* The index refuses a second unresolved row, and actionable one after a success.
LEMMA BlockStep ==
  ASSUME TypeOK, StaleInv, RowInv, BlockInv, [Next]_vars
  PROVE  BlockInv'
<1> USE DEF ledgerVars, offerVars, requestVars, recoveryVars, syncVars, ebayVars
<1>1. CASE OutsideNext
  BY <1>1 DEF OutsideNext, Compose, ProviderDecides, MarkDone, BuyerEnds, BlockInv, TypeOK, Unresolved
<1>2. ASSUME NEW a \in Attempt, RequestNext(a) PROVE BlockInv'
  <2>0. KeyOf[a] \in Key
    BY KeyAssumption
  <2>1. CASE Decide(a)
    <3>1. CASE UNCHANGED ledgerVars
      BY <3>1 DEF BlockInv
    <3>2. CASE /\ Acceptable(KeyOf[a]) /\ IndexAllows(KeyOf[a])
               /\ action' = [action EXCEPT ![KeyOf[a]] = "PREPARED"]
               /\ last' = KeyOf[a]
      <4>1. \A j \in Key \ {KeyOf[a]} : /\ action'[j] = action[j]
                                        /\ action[j] \notin Unresolved
        BY <3>2 DEF IndexAllows, TypeOK
      <4>2. \A j \in Key : action[j] \notin {"PREPARED", "DISPATCHING", "SUCCEEDED"}
        BY <3>2, KeyAssumption DEF Acceptable, actionable, BlockInv
      <4> QED BY <2>0, <3>2, <4>1, <4>2 DEF BlockInv
    <3> QED BY <3>1, <3>2, <2>1 DEF Decide
  <2>2. CASE Dispatch(a)
    BY KeyAssumption, <2>0, <2>2 DEF Dispatch, RowInv, BlockInv, TypeOK, Unresolved
  <2>3. CASE DispatchFails(a)
    BY KeyAssumption, <2>0, <2>3 DEF DispatchFails, RowInv, BlockInv, TypeOK, Unresolved
  <2>4. CASE RecordOutcome(a)
    <3>1. PICK v \in Verdicts(KeyOf[a]) : action' = [action EXCEPT ![KeyOf[a]] = v]
                                       /\ needs' = (needs /\ v # "FAILED")
      BY <2>4 DEF RecordOutcome
    <3>2. /\ v \in {"SUCCEEDED", "FAILED", "RECONCILIATION_REQUIRED"}
          /\ v = "FAILED" => outcome[KeyOf[a]] = "rejected"
      BY DEF Verdicts
    <3>3. action[KeyOf[a]] = "DISPATCHING" /\ pc[a] = "sent"
      BY <2>4 DEF RecordOutcome, RowInv
    <3> QED BY <2>0, <3>1, <3>2, <3>3, <2>4 DEF RecordOutcome, BlockInv, TypeOK, Unresolved
  <2>5. CASE Lookup(a) \/ Acquire(a) \/ Send(a) \/ AttemptDies(a)
    BY <2>5 DEF Lookup, Acquire, Send, AttemptDies, BlockInv, TypeOK, Unresolved
  <2> QED BY <1>2, <2>1, <2>2, <2>3, <2>4, <2>5 DEF RequestNext
<1>3. CASE RecoveryNext
  <2>1. CASE RecoverCommit
    BY KeyAssumption, <2>1 DEF RecoverCommit, RecoveredState, StaleInv, IndexAllows, BlockInv, TypeOK, Unresolved
  <2>2. CASE (\E k \in Key : RecoverRead(k)) \/ RecoverTry
    BY <2>2 DEF RecoverRead, RecoverTry, BlockInv, TypeOK, Unresolved
  <2> QED BY <1>3, <2>1, <2>2 DEF RecoveryNext
<1>4. CASE SyncNext
  <2>1. CASE ListingSettles
    BY KeyAssumption, <2>1 DEF ListingSettles, BlockInv, TypeOK, Unresolved
  <2>2. CASE SyncBegin \/ ScanSees \/ ScanComplete \/ ScanPartial \/ ListingSees \/ ListingEmpty \/ Republish \/ SyncEnds
    BY <2>2 DEF SyncBegin, ScanSees, ScanComplete, ScanPartial, ListingSees, ListingEmpty, Republish, SyncEnds, BlockInv, TypeOK, Unresolved
  <2> QED BY <1>4, <2>1, <2>2 DEF SyncNext
<1>5. CASE UNCHANGED vars
  BY <1>5 DEF vars, BlockInv, TypeOK, Unresolved
<1> QED BY <1>1, <1>2, <1>3, <1>4, <1>5 DEF Next

-----------------------------------------------------------------------------
(* The safety properties *)

\* The stored status always is one the offer had, so a stored transition is a real one.
LEMMA EvidenceStep ==
  ASSUME TypeOK, StaleInv, RowInv, EvidenceInv, [Next]_vars
  PROVE  EvidenceInv'
<1> USE DEF ledgerVars, offerVars, requestVars, recoveryVars, syncVars, ebayVars
<1>1. CASE OutsideNext
  <2>1. ASSUME NEW k \in Key, ProviderDecides(k) PROVE EvidenceInv'
    BY <2>1 DEF ProviderDecides, EvidenceInv, ReconciledOnEvidence, TypeOK
  <2>2. CASE BuyerEnds
    BY <2>2 DEF BuyerEnds, EvidenceInv, ReconciledOnEvidence, TypeOK
  <2>3. CASE (\E k \in Key : Compose(k)) \/ MarkDone
    BY <2>3 DEF Compose, MarkDone, EvidenceInv, ReconciledOnEvidence, TypeOK
  <2> QED BY <1>1, <2>1, <2>2, <2>3 DEF OutsideNext
<1>2. ASSUME NEW a \in Attempt, RequestNext(a) PROVE EvidenceInv'
  <2>0. KeyOf[a] \in Key
    BY KeyAssumption
  <2>1. CASE Decide(a)
    BY <2>0, <2>1 DEF Decide, EvidenceInv, ReconciledOnEvidence, TypeOK
  <2>2. CASE Dispatch(a)
    BY <2>0, <2>2 DEF Dispatch, RowInv, EvidenceInv, ReconciledOnEvidence, TypeOK
  <2>3. CASE DispatchFails(a)
    BY <2>0, <2>3 DEF DispatchFails, RowInv, EvidenceInv, ReconciledOnEvidence, TypeOK
  <2>4. CASE RecordOutcome(a)
    <3>1. PICK v \in Verdicts(KeyOf[a]) : action' = [action EXCEPT ![KeyOf[a]] = v]
                                       /\ needs' = (needs /\ v # "FAILED")
      BY <2>4 DEF RecordOutcome
    <3>2. /\ v \in {"SUCCEEDED", "FAILED", "RECONCILIATION_REQUIRED"}
          /\ v = "FAILED" => outcome[KeyOf[a]] = "rejected"
      BY DEF Verdicts
    <3>3. action[KeyOf[a]] = "DISPATCHING" /\ pc[a] = "sent"
      BY <2>4 DEF RecordOutcome, RowInv
    <3> QED BY <2>0, <3>1, <3>2, <3>3, <2>4 DEF RecordOutcome, EvidenceInv, ReconciledOnEvidence, TypeOK
  <2>5. CASE Lookup(a) \/ Acquire(a) \/ Send(a) \/ AttemptDies(a)
    BY <2>5 DEF Lookup, Acquire, Send, AttemptDies, EvidenceInv, ReconciledOnEvidence, TypeOK
  <2> QED BY <1>2, <2>1, <2>2, <2>3, <2>4, <2>5 DEF RequestNext
<1>3. CASE RecoveryNext
  <2>1. CASE RecoverCommit
    BY <2>1 DEF RecoverCommit, RecoveredState, StaleInv, EvidenceInv, ReconciledOnEvidence, TypeOK
  <2>2. CASE (\E k \in Key : RecoverRead(k)) \/ RecoverTry
    BY <2>2 DEF RecoverRead, RecoverTry, EvidenceInv, ReconciledOnEvidence, TypeOK
  <2> QED BY <1>3, <2>1, <2>2 DEF RecoveryNext
<1>4. CASE SyncNext
  <2>1. CASE ScanSees
    BY <2>1 DEF ScanSees, Upsert, EvidenceInv, ReconciledOnEvidence, TypeOK
  <2>2. CASE ListingSees
    BY <2>2 DEF ListingSees, Upsert, EvidenceInv, ReconciledOnEvidence, TypeOK
  <2>3. CASE ListingSettles
    BY <2>3 DEF ListingSettles, Transitioned, Awaited, EvidenceInv, ReconciledOnEvidence, TypeOK
  <2>4. CASE SyncBegin \/ ScanComplete \/ ScanPartial \/ ListingEmpty \/ Republish \/ SyncEnds
    BY <2>4 DEF SyncBegin, ScanComplete, ScanPartial, ListingEmpty, Republish, SyncEnds, EvidenceInv, ReconciledOnEvidence, TypeOK
  <2> QED BY <1>4, <2>1, <2>2, <2>3, <2>4 DEF SyncNext
<1>5. CASE UNCHANGED vars
  BY <1>5 DEF vars, EvidenceInv, ReconciledOnEvidence, TypeOK
<1> QED BY <1>1, <1>2, <1>3, <1>4, <1>5 DEF Next

\* The flag rises with the dispatch and falls only with certainty.
LEMMA FlagStep ==
  ASSUME TypeOK, StaleInv, RowInv, BlockInv, UncertainOfferFlagged, [Next]_vars
  PROVE  UncertainOfferFlagged'
<1> USE DEF ledgerVars, offerVars, requestVars, recoveryVars, syncVars, ebayVars
<1>1. CASE OutsideNext
  BY <1>1 DEF OutsideNext, Compose, ProviderDecides, MarkDone, BuyerEnds, UncertainOfferFlagged, TypeOK
<1>2. ASSUME NEW a \in Attempt, RequestNext(a) PROVE UncertainOfferFlagged'
  <2>0. KeyOf[a] \in Key
    BY KeyAssumption
  <2>1. CASE Decide(a)
    BY <2>0, <2>1 DEF Decide, UncertainOfferFlagged, TypeOK
  <2>2. CASE Dispatch(a)
    BY <2>0, <2>2 DEF Dispatch, RowInv, UncertainOfferFlagged, TypeOK
  <2>3. CASE DispatchFails(a)
    BY <2>0, <2>3 DEF DispatchFails, RowInv, UncertainOfferFlagged, TypeOK
  <2>4. CASE RecordOutcome(a)
    <3>1. PICK v \in Verdicts(KeyOf[a]) : action' = [action EXCEPT ![KeyOf[a]] = v]
                                       /\ needs' = (needs /\ v # "FAILED")
      BY <2>4 DEF RecordOutcome
    <3>2. /\ v \in {"SUCCEEDED", "FAILED", "RECONCILIATION_REQUIRED"}
          /\ v = "FAILED" => outcome[KeyOf[a]] = "rejected"
      BY DEF Verdicts
    <3>3. action[KeyOf[a]] = "DISPATCHING" /\ pc[a] = "sent"
      BY <2>4 DEF RecordOutcome, RowInv
    <3> QED BY <2>0, <3>1, <3>2, <3>3, <2>4 DEF RecordOutcome, UncertainOfferFlagged, BlockInv, Unresolved, TypeOK
  <2>5. CASE Lookup(a) \/ Acquire(a) \/ Send(a) \/ AttemptDies(a)
    BY <2>5 DEF Lookup, Acquire, Send, AttemptDies, UncertainOfferFlagged, TypeOK
  <2> QED BY <1>2, <2>1, <2>2, <2>3, <2>4, <2>5 DEF RequestNext
<1>3. CASE RecoveryNext
  <2>1. CASE RecoverCommit
    BY <2>1 DEF RecoverCommit, RecoveredState, StaleInv, UncertainOfferFlagged, TypeOK
  <2>2. CASE (\E k \in Key : RecoverRead(k)) \/ RecoverTry
    BY <2>2 DEF RecoverRead, RecoverTry, UncertainOfferFlagged, TypeOK
  <2> QED BY <1>3, <2>1, <2>2 DEF RecoveryNext
<1>4. CASE SyncNext
  <2>1. CASE ScanComplete
    BY <2>1 DEF ScanComplete, UncertainOfferFlagged, TypeOK
  <2>2. CASE ListingSettles
    BY <2>2 DEF ListingSettles, Transitioned, Awaited, UncertainOfferFlagged, TypeOK
  <2>3. CASE ListingEmpty
    BY <2>3 DEF ListingEmpty, Outstanding, Unresolved, UncertainOfferFlagged, TypeOK
  <2>4. CASE SyncBegin \/ ScanSees \/ ScanPartial \/ ListingSees \/ Republish \/ SyncEnds
    BY <2>4 DEF SyncBegin, ScanSees, ScanPartial, ListingSees, Republish, SyncEnds, UncertainOfferFlagged, TypeOK
  <2> QED BY <1>4, <2>1, <2>2, <2>3, <2>4 DEF SyncNext
<1>5. CASE UNCHANGED vars
  BY <1>5 DEF vars, UncertainOfferFlagged, TypeOK
<1> QED BY <1>1, <1>2, <1>3, <1>4, <1>5 DEF Next

\* FAILED is written for an undispatched row or a definite refusal only.
LEMMA TruthStep ==
  ASSUME TypeOK, StaleInv, RowInv, UnsentInv, FailedMeansNotApplied, [Next]_vars
  PROVE  FailedMeansNotApplied'
<1> USE DEF ledgerVars, offerVars, requestVars, recoveryVars, syncVars, ebayVars
<1>1. CASE OutsideNext
  <2>1. ASSUME NEW k \in Key, ProviderDecides(k) PROVE FailedMeansNotApplied'
    BY <2>1 DEF ProviderDecides, FailedMeansNotApplied, TypeOK
  <2>2. CASE (\E k \in Key : Compose(k)) \/ MarkDone \/ BuyerEnds
    BY <2>2 DEF Compose, MarkDone, BuyerEnds, FailedMeansNotApplied, TypeOK
  <2> QED BY <1>1, <2>1, <2>2 DEF OutsideNext
<1>2. ASSUME NEW a \in Attempt, RequestNext(a) PROVE FailedMeansNotApplied'
  <2>0. KeyOf[a] \in Key
    BY KeyAssumption
  <2>1. CASE Decide(a)
    BY <2>0, <2>1 DEF Decide, FailedMeansNotApplied, TypeOK
  <2>2. CASE Dispatch(a)
    BY <2>0, <2>2 DEF Dispatch, RowInv, FailedMeansNotApplied, TypeOK
  <2>3. CASE DispatchFails(a)
    BY <2>0, <2>3 DEF DispatchFails, RowInv, UnsentInv, FailedMeansNotApplied, TypeOK
  <2>4. CASE Send(a)
    BY <2>0, <2>4 DEF Send, RowInv, FailedMeansNotApplied, TypeOK
  <2>5. CASE RecordOutcome(a)
    <3>1. PICK v \in Verdicts(KeyOf[a]) : action' = [action EXCEPT ![KeyOf[a]] = v]
                                       /\ needs' = (needs /\ v # "FAILED")
      BY <2>5 DEF RecordOutcome
    <3>2. /\ v \in {"SUCCEEDED", "FAILED", "RECONCILIATION_REQUIRED"}
          /\ v = "FAILED" => outcome[KeyOf[a]] = "rejected"
      BY DEF Verdicts
    <3>3. action[KeyOf[a]] = "DISPATCHING" /\ pc[a] = "sent"
      BY <2>5 DEF RecordOutcome, RowInv
    <3> QED BY <2>0, <3>1, <3>2, <3>3, <2>5 DEF RecordOutcome, FailedMeansNotApplied, TypeOK
  <2>6. CASE Lookup(a) \/ Acquire(a) \/ AttemptDies(a)
    BY <2>6 DEF Lookup, Acquire, AttemptDies, FailedMeansNotApplied, TypeOK
  <2> QED BY <1>2, <2>1, <2>2, <2>3, <2>4, <2>5, <2>6 DEF RequestNext
<1>3. CASE RecoveryNext
  <2>1. CASE RecoverCommit
    BY <2>1 DEF RecoverCommit, RecoveredState, StaleInv, UnsentInv, FailedMeansNotApplied, TypeOK
  <2>2. CASE (\E k \in Key : RecoverRead(k)) \/ RecoverTry
    BY <2>2 DEF RecoverRead, RecoverTry, FailedMeansNotApplied, TypeOK
  <2> QED BY <1>3, <2>1, <2>2 DEF RecoveryNext
<1>4. CASE SyncNext
  <2>1. CASE ListingSettles
    BY <2>1 DEF ListingSettles, Awaited, FailedMeansNotApplied, TypeOK
  <2>2. CASE SyncBegin \/ ScanSees \/ ScanComplete \/ ScanPartial \/ ListingSees \/ ListingEmpty \/ Republish \/ SyncEnds
    BY <2>2 DEF SyncBegin, ScanSees, ScanComplete, ScanPartial, ListingSees, ListingEmpty, Republish, SyncEnds, FailedMeansNotApplied, TypeOK
  <2> QED BY <1>4, <2>1, <2>2 DEF SyncNext
<1>5. CASE UNCHANGED vars
  BY <1>5 DEF vars, FailedMeansNotApplied, TypeOK
<1> QED BY <1>1, <1>2, <1>3, <1>4, <1>5 DEF Next

\* actionable lets a new answer through only when every earlier one is settled.
LEMMA SettledStep ==
  ASSUME TypeOK, LockInv, StaleInv, RowInv, UnsentInv, BlockInv,
         UncertainOfferFlagged, FailedMeansNotApplied, SettledInv, [Next]_vars
  PROVE  SettledInv'
<1> USE DEF ledgerVars, offerVars, requestVars, recoveryVars, syncVars, ebayVars
<1>1. CASE OutsideNext
  <2>1. ASSUME NEW k \in Key, ProviderDecides(k) PROVE SettledInv'
    BY <2>1 DEF ProviderDecides, SettledInv, Settled, TypeOK
  <2>2. CASE (\E k \in Key : Compose(k)) \/ MarkDone \/ BuyerEnds
    BY <2>2 DEF Compose, MarkDone, BuyerEnds, SettledInv, Settled, TypeOK
  <2> QED BY <1>1, <2>1, <2>2 DEF OutsideNext
<1>2. ASSUME NEW a \in Attempt, RequestNext(a) PROVE SettledInv'
  <2>0. KeyOf[a] \in Key
    BY KeyAssumption
  <2>1. CASE Lookup(a)
    BY <2>0, <2>1 DEF Lookup, Holding, SettledInv, Settled, TypeOK
  <2>2. CASE Acquire(a)
    BY <2>0, <2>2 DEF Acquire, Holding, SettledInv, Settled, TypeOK
  <2>3. CASE Decide(a)
    <3>1. \A b \in Attempt \ {a} : pc[b] \notin Holding /\ pc'[b] = pc[b]
      BY OneHolder, <2>3 DEF Decide, Holding, TypeOK
    <3>2. CASE /\ pc' = [pc EXCEPT ![a] = "prepared"] /\ Acceptable(KeyOf[a])
               /\ ~Replayed(a) /\ action' = [action EXCEPT ![KeyOf[a]] = "PREPARED"]
      <4>1. \A j \in Key : action[j] \in {"NONE", "FAILED", "RECONCILED"}
        BY <3>2, KeyAssumption
           DEF Acceptable, actionable, BlockInv, UncertainOfferFlagged, TypeOK, ActionState
      <4>2. \A j \in Key : outcome[j] = "unsent" \/ Settled(j)
        BY <4>1 DEF UnsentInv, FailedMeansNotApplied, Settled
      <4>3. outcome[KeyOf[a]] = "unsent"
        BY <2>0, <3>2 DEF Replayed, UnsentInv
      <4>4. \A j \in Key : outcome'[j] = "unsent" \/ Settled(j)'
        BY <2>0, <3>2, <4>2, <4>3, <2>3 DEF Decide, Settled, TypeOK
      <4> QED BY <4>4 DEF SettledInv
    <3>3. CASE pc' = [pc EXCEPT ![a] = "replayed"] \/ pc' = [pc EXCEPT ![a] = "conflict"]
      BY <3>1, <3>3 DEF SettledInv, Holding, TypeOK
    <3> QED BY <3>2, <3>3, <2>3 DEF Decide
  <2>4. CASE Dispatch(a)
    BY OneHolder, <2>0, <2>4 DEF Dispatch, Holding, RowInv, SettledInv, Settled, TypeOK
  <2>5. CASE DispatchFails(a)
    BY OneHolder, <2>0, <2>5 DEF DispatchFails, Holding, SettledInv, Settled, TypeOK
  <2>6. CASE Send(a)
    BY OneHolder, <2>0, <2>6 DEF Send, Holding, SettledInv, Settled, TypeOK
  <2>7. CASE RecordOutcome(a)
    <3>1. \A b \in Attempt : pc'[b] \notin {"prepared", "dispatching"}
      BY OneHolder, <2>7 DEF RecordOutcome, Holding, TypeOK
    <3> QED BY <3>1 DEF SettledInv
  <2>8. CASE AttemptDies(a)
    BY OneHolder, <2>0, <2>8 DEF AttemptDies, Holding, SettledInv, Settled, TypeOK
  <2> QED BY <1>2, <2>1, <2>2, <2>3, <2>4, <2>5, <2>6, <2>7, <2>8 DEF RequestNext
<1>3. CASE RecoveryNext
  <2>1. CASE RecoverCommit
    BY NoHolder, <2>1 DEF RecoverCommit, Holding, SettledInv, Settled, TypeOK
  <2>2. CASE (\E k \in Key : RecoverRead(k)) \/ RecoverTry
    BY <2>2 DEF RecoverRead, RecoverTry, SettledInv, Settled, TypeOK
  <2> QED BY <1>3, <2>1, <2>2 DEF RecoveryNext
<1>4. CASE SyncNext
  <2>1. CASE ListingSettles
    BY NoHolder, <2>1 DEF ListingSettles, Holding, SettledInv, Settled, TypeOK
  <2>2. CASE SyncBegin \/ ScanSees \/ ScanComplete \/ ScanPartial \/ ListingSees \/ ListingEmpty \/ Republish \/ SyncEnds
    BY <2>2 DEF SyncBegin, ScanSees, ScanComplete, ScanPartial, ListingSees, ListingEmpty, Republish, SyncEnds, SettledInv, Settled, TypeOK
  <2> QED BY <1>4, <2>1, <2>2 DEF SyncNext
<1>5. CASE UNCHANGED vars
  BY <1>5 DEF vars, SettledInv, Settled, TypeOK
<1> QED BY <1>1, <1>2, <1>3, <1>4, <1>5 DEF Next

-----------------------------------------------------------------------------
(* The theorems *)

LEMMA InvInit == Init => IInv
<1> SUFFICES ASSUME Init PROVE IInv
  OBVIOUS
<1>1. TypeOK
  BY TypeInit
<1>2. LockInv
  BY LockAssumption DEF Init, LockInv, Holding
<1>3. StaleInv /\ RowInv /\ UnsentInv /\ SettledInv
  BY DEF Init, StaleInv, RowInv, UnsentInv, SettledInv
<1>4. BlockInv /\ EvidenceInv
  BY DEF Init, BlockInv, EvidenceInv, ReconciledOnEvidence, Unresolved
<1>5. UncertainOfferFlagged /\ FailedMeansNotApplied
  BY DEF Init, UncertainOfferFlagged, FailedMeansNotApplied
<1> QED BY <1>1, <1>2, <1>3, <1>4, <1>5 DEF IInv

LEMMA InvStep == ASSUME PromptDispatch = TRUE, IInv, [Next]_vars PROVE IInv'
  BY TypeStep, LockStep, StaleStep, RowStep, UnsentStep, BlockStep, EvidenceStep,
     FlagStep, TruthStep, SettledStep DEF IInv

LEMMA Invariance == ASSUME PromptDispatch = TRUE PROVE Spec => []IInv
  BY InvInit, InvStep, PTL DEF Spec

\* A FAILED row is always the truth: its request never left, or eBay refused it.
THEOREM FailedIsTrue == ASSUME PromptDispatch = TRUE PROVE Spec => []FailedMeansNotApplied
<1>1. IInv => FailedMeansNotApplied
  BY DEF IInv
<1> QED BY Invariance, <1>1, PTL

\* An offer whose answer may have reached eBay stays flagged until that is known.
THEOREM UncertainIsFlagged == ASSUME PromptDispatch = TRUE PROVE Spec => []UncertainOfferFlagged
<1>1. IInv => UncertainOfferFlagged
  BY DEF IInv
<1> QED BY Invariance, <1>1, PTL

\* A row is RECONCILED only after eBay really moved the offer out of the open state.
THEOREM ReconciledIsTrue == ASSUME PromptDispatch = TRUE PROVE Spec => []ReconciledOnEvidence
<1>1. IInv => ReconciledOnEvidence
  BY DEF IInv, EvidenceInv
<1> QED BY Invariance, <1>1, PTL

\* From the version check to the reply nothing but the dispatch changed the offer.
THEOREM DispatchIsInformed == ASSUME PromptDispatch = TRUE PROVE Spec => []DispatchSeesExpectedOffer
<1>1. IInv => DispatchSeesExpectedOffer
  BY DEF IInv, RowInv, DispatchSeesExpectedOffer
<1> QED BY Invariance, <1>1, PTL

\* The unique index has nothing to refuse: the checks before the insert imply it.
THEOREM IndexIsImplied == ASSUME PromptDispatch = TRUE PROVE Spec => []IndexNeverRefuses
<1>1. ASSUME IInv PROVE IndexNeverRefuses
  <2> SUFFICES ASSUME NEW a \in Attempt, Acceptable(KeyOf[a]) PROVE IndexAllows(KeyOf[a])
    BY DEF IndexNeverRefuses
  <2>1. \A j \in Key : action[j] \notin {"PREPARED", "DISPATCHING"}
    BY <1>1, KeyAssumption DEF IInv, BlockInv, Acceptable, actionable
  <2>2. \A j \in Key : action[j] # "RECONCILIATION_REQUIRED"
    BY <1>1 DEF IInv, UncertainOfferFlagged, Acceptable, actionable
  <2> QED BY <2>1, <2>2 DEF IndexAllows, Unresolved
<1> QED BY Invariance, <1>1, PTL

\* What a request decided under the lock holds until it has its answer.
THEOREM DispatchStaysSound == ASSUME PromptDispatch = TRUE PROVE Spec => []DispatchIsSound
<1>1. DispatchSeesExpectedOffer /\ IndexNeverRefuses <=> DispatchIsSound
  BY DEF DispatchIsSound
<1> QED BY <1>1, DispatchIsInformed, IndexIsImplied, PTL

\* No answer is put on the wire while an earlier one for the offer is unsettled,
\* and none is put there twice: the promise of the response ledger.
THEOREM NeverResentBlindly == ASSUME PromptDispatch = TRUE PROVE Spec => NoBlindResend
<1> DEFINE Quiet == \A k \in Key : outcome[k] # outcome'[k] /\ outcome'[k] = "inflight" =>
                      \A j \in Key : outcome[j] # "unsent" => Settled(j)
<1>1. ASSUME IInv, Next PROVE Quiet
  <2> USE DEF ledgerVars, offerVars, requestVars, recoveryVars, syncVars, ebayVars
  <2>1. CASE \E a \in Attempt : Send(a)
    BY <1>1, <2>1 DEF Send, IInv, SettledInv
  <2>2. CASE \E k \in Key : ProviderDecides(k)
    BY <1>1, <2>2 DEF ProviderDecides, IInv, TypeOK
  <2>3. CASE UNCHANGED outcome
    BY <2>3
  <2>4. ASSUME NEW a \in Attempt, RequestNext(a), ~Send(a) PROVE UNCHANGED outcome
    BY <2>4 DEF RequestNext, Lookup, Acquire, Decide, Dispatch, DispatchFails,
                RecordOutcome, AttemptDies
  <2>5. ASSUME OutsideNext, ~ \E k \in Key : ProviderDecides(k) PROVE UNCHANGED outcome
    BY <2>5 DEF OutsideNext, Compose, MarkDone, BuyerEnds
  <2>6. ASSUME RecoveryNext PROVE UNCHANGED outcome
    BY <2>6 DEF RecoveryNext, RecoverRead, RecoverTry, RecoverCommit
  <2>7. ASSUME SyncNext PROVE UNCHANGED outcome
    BY <2>7 DEF SyncNext, SyncBegin, ScanSees, ScanComplete, ScanPartial, ListingSees,
                ListingSettles, ListingEmpty, Republish, SyncEnds
  <2> QED BY <1>1, <2>1, <2>2, <2>3, <2>4, <2>5, <2>6, <2>7 DEF Next
<1>2. IInv /\ [Next]_vars => [Quiet]_vars
  BY <1>1
<1> QED BY Invariance, <1>2, PTL DEF Spec, NoBlindResend

\* A request that repeats another is refused only if the second look found no row:
\* one that was there when it looked is replayed, however the two raced.
THEOREM RetryIsAnswered == Spec => RetryFindsItsRecord
<1> DEFINE Found == \A a \in Attempt : pc[a] # pc'[a] /\ pc'[a] = "conflict" => action[KeyOf[a]] = "NONE"
<1>1. Init => TypeOK
  BY TypeInit
<1>2. TypeOK /\ [Next]_vars => TypeOK'
  BY TypeStep
<1>3. ASSUME TypeOK, Next PROVE Found
  <2>1. ASSUME NEW a \in Attempt, RequestNext(a) PROVE Found
    <3>1. CASE Decide(a)
      BY <1>3, <3>1 DEF Decide, Replayed, TypeOK
    <3>2. ASSUME ~Decide(a) PROVE \A b \in Attempt : pc'[b] # pc[b] => pc'[b] # "conflict"
      BY <1>3, <2>1, <3>2 DEF RequestNext, Lookup, Acquire, Dispatch, DispatchFails, Send,
                              RecordOutcome, AttemptDies, TypeOK
    <3> QED
      BY <3>1, <3>2
  <2>2. ASSUME OutsideNext \/ RecoveryNext \/ SyncNext PROVE pc' = pc
    BY <2>2 DEF OutsideNext, Compose, ProviderDecides, MarkDone, BuyerEnds,
                RecoveryNext, RecoverRead, RecoverTry, RecoverCommit,
                SyncNext, SyncBegin, ScanSees, ScanComplete, ScanPartial, ListingSees,
                ListingSettles, ListingEmpty, Republish, SyncEnds, requestVars
  <2> QED
    BY <1>3, <2>1, <2>2 DEF Next
<1>4. TypeOK /\ [Next]_vars => [Found]_vars
  BY <1>3
<1> QED
  BY <1>1, <1>2, <1>4, PTL DEF Spec, RetryFindsItsRecord
=============================================================================
