------------------------------ MODULE MCInbox ------------------------------
(***************************************************************************)
(* Instances of Inbox for TLC.                                             *)
(***************************************************************************)
EXTENDS Inbox, TLC

CONSTANTS r1, r2, ann, bob

Agents == [r \in Reply |-> IF r = r1 THEN ann ELSE bob]
\* Two replies of the same text: the import must tell which it found.
Bodies == [r \in Reply |-> "hello"]

\* Long threads without replies; one reply against imports and status changes;
\* two replies of the same text; replies and assignments.
Many == {[thread |-> 4, clock |-> 4, assigns |-> 0, replies |-> {}, statuses |-> {}, repairs |-> TRUE],
         [thread |-> 3, clock |-> 4, assigns |-> 0, replies |-> {r1}, statuses |-> {}, repairs |-> TRUE],
         [thread |-> 2, clock |-> 3, assigns |-> 0, replies |-> {r1}, statuses |-> Statuses, repairs |-> FALSE],
         [thread |-> 2, clock |-> 4, assigns |-> 0, replies |-> {r1, r2}, statuses |-> {}, repairs |-> FALSE],
         [thread |-> 1, clock |-> 2, assigns |-> 3, replies |-> {r1}, statuses |-> {}, repairs |-> FALSE]}
=============================================================================
