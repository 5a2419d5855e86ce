---------------------------- MODULE MCEbaySync ----------------------------
(* Conversations with members (c1, c2) and with eBay itself (c3). *)
EXTENDS EbaySync, TLC

CONSTANTS r1, r2, r3, c1, c2, c3

MCRequest == {r1, r2}
MCOneConv == {c1}
MCMembers == {c1, c2}
MCTypes == <<"FROM_MEMBERS", "FROM_EBAY">>
MCOneType == <<"FROM_MEMBERS">>
MCTypeOf == [c \in Conv |-> IF c = c3 THEN "FROM_EBAY" ELSE "FROM_MEMBERS"]

MCRank == [c \in Conv |-> CASE c = c1 -> 1 [] c = c2 -> 2 [] c = c3 -> 3]

\* What a worker that ended, and a request that spawned, remember is never read.
Ended(p) == stage[p] \in {"none", "metadata", "failing", "failStatus", "done", "dead"}
Memory(p) ==
    IF Ended(p) THEN <<>>
    ELSE <<cap[p], since[p], checkpoint[p], scan[p], failed[p], processed[p]>>
View ==
    <<ebayVars, imported, cursor, status, log, rowLock, step, job, stage, staged,
      deaths, [p \in Request |-> Memory(p)],
      [r \in Request |-> IF step[r] = "done" THEN "none" ELSE kind[r]]>>

Symmetry == Permutations(Request)
=============================================================================
