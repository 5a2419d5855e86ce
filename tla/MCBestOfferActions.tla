------------------------- MODULE MCBestOfferActions -------------------------
(* Two decisions on one offer; the first is retried by a second request. *)
EXTENDS BestOfferActions, TLC

CONSTANTS k1, k2, a1, a2, a3

MCKey == {k1, k2}
MCAttempt == {a1, a2, a3}
MCKeyOf == (a1 :> k1) @@ (a2 :> k1) @@ (a3 :> k2)

Symmetry == Permutations({a1, a2})
=============================================================================
