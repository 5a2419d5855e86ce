-------------------------- MODULE MCBestOfferJobs --------------------------
(* Small instances of BestOfferJobs: model values for accounts, batches    *)
(* and callers. Accounts are alike, and so are batches.                    *)
EXTENDS BestOfferJobs, TLC

Symmetry == Permutations(Account) \cup Permutations(Batch)

(* States that differ only in what nobody reads again are the same: the    *)
(* metadata and age of a batch that is over, the stop event of a worker    *)
(* that has none to stop.                                                  *)
View ==
  <<batch, job, [b \in Batch |-> IF batch[b] \in Active
                                 THEN <<trigger[b], cancelled[b], b \in aged>> ELSE <<>>],
    enabled, api, crashes, caller, seen, mine, children, execLock, worker, todo, current,
    saved, failed, {b \in stopped : worker[b] \in Owning},
    {b \in orphans : worker[b] \in Alive}>>
=============================================================================
