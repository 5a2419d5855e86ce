---------------------------- MODULE SingleFlight ----------------------------
(***************************************************************************)
(* What the Best Offer jobs promise, without locks, processes or rows:     *)
(* items are started once each and one at a time, at most one of them is   *)
(* being executed, and an item that is being executed is ended by whoever  *)
(* executes it or not at all. An executor may vanish; only then can        *)
(* somebody else end its item, or end it and start the next one at once.   *)
(***************************************************************************)
CONSTANTS Item, Nobody

VARIABLES phase,     \* of each item: "new", "open" or "closed"
          executing  \* the item in execution, or Nobody

vars == <<phase, executing>>

Init == /\ phase = [i \in Item |-> "new"]
        /\ executing = Nobody

(* Starting i closes an item that was left open.                           *)
Start(i) ==
  /\ phase[i] = "new" /\ executing = Nobody
  /\ phase' = [j \in Item |-> IF j = i THEN "open"
                              ELSE IF phase[j] = "open" THEN "closed" ELSE phase[j]]
  /\ UNCHANGED executing

Execute(i) ==
  /\ phase[i] = "open" /\ executing = Nobody
  /\ executing' = i
  /\ UNCHANGED phase

Vanish == executing' = Nobody /\ UNCHANGED phase

Close(i) ==
  /\ phase[i] = "open" /\ executing \in {i, Nobody}
  /\ phase' = [phase EXCEPT ![i] = "closed"]
  /\ executing' = Nobody

Next == Vanish \/ \E i \in Item : Start(i) \/ Execute(i) \/ Close(i)

Spec == Init /\ [][Next]_vars
=============================================================================
