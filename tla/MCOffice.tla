------------------------------ MODULE MCOffice ------------------------------
(***************************************************************************)
(* Instances of the office modules for TLC.  A behaviour is about one part *)
(* of the office, chosen at the start: their state spaces add up.          *)
(***************************************************************************)
EXTENDS AgentDay, InboxViews, Performance, SlaTime, TaskAssignments, TLC

CONSTANTS ann, bob, r1, r2, r3, kid1, kid2, row1, row2

MaxRequests == 5    \* requests about the task tree and its assignments
\* Interchangeable: no definition tells one from another.
Symmetric == Permutations({kid1, kid2}) \cup Permutations({row1, row2})

VARIABLES
    part,       \* the part this behaviour is about
    requests    \* made about tasks

pms == <<leaveVars, pmsVars>>
tree == <<taskVars, requests>>

\* Two days around a Sunday, a half day, and a short leave on one of the days.
Request(type, first, last, half) ==
    [user |-> ann, type |-> type, first |-> first, last |-> last, half |-> half]
Forms == [r \in {r1, r2, r3} |->
            IF r = r1 THEN Request("PAID", 1, 3, FALSE)
            ELSE IF r = r2 THEN Request("PAID", 4, 4, TRUE)
            ELSE Request("SHORT", 3, 3, FALSE)]
Policy == [allowance |-> 3, shorts |-> 1, instances |-> 0]
LeavePolicies == {Policy, [Policy EXCEPT !.allowance = 4, !.shorts = 0]}
LeaveWeight == [m \in {"attendance"} |-> 4]
AdminTotals(p, u, a) == [paid |-> p, unpaid |-> u, adh |-> a]

\* Leave is as the configuration gives it; other parts differ in what is configured and typed.
Summary == INSTANCE Performance WITH
    Carries <- {0, 1}, Policies <- {Policy}, Totals <- {AdminTotals(1, 1, 2), AdminTotals(2, 0, 0)},
    Metric <- {"attendance", "punctuality"},
    Weight <- [m \in {"attendance", "punctuality"} |-> 4], Weights <- {}, Scores <- {}, Shares <- {-1, 2}
Month == INSTANCE Performance WITH
    Metric <- {"productivity"},
    Weight <- [m \in {"productivity"} |-> 2], Weights <- {}, Scores <- {1, 2}, Shares <- {-1, 1, 2}
Settings == INSTANCE Performance WITH
    Metric <- {"competency", "quality"},
    Weight <- [m \in {"competency", "quality"} |-> 2], Weights <- {4}, Scores <- {}, Shares <- {-1, 2}

----------------------------------------------------------------------------
TaskHome == [s \in {"posting other", "chat other"} |-> IF s = "chat other" THEN "chat" ELSE "posting"]
KidParent == [k \in {kid1, kid2} |-> "posting other"]
TaskOther == [c \in {"posting", "chat"} |-> IF c = "chat" THEN "chat other" ELSE "posting other"]

\* Work that is counted from rows of one kind, or from the offer sheet, and other work.
TaskKinds == [t \in {"booking", "offers", "other"} |-> IF t = "booking" THEN "counted" ELSE t]
\* Two days, with a save of each; two saves at once; offers entered for another date.
Untouched(t) == t \notin DOMAIN catalog /\ done[t] = 0 /\ since[t] = 0 /\ \A s \in saves : s.since[t] = 0
Followed ==
    /\ ~resaved
    /\ part = "days" =>
         /\ Untouched("offers") /\ \A s \in saves : s.tasks["other"] = 0
         /\ \A s, q \in saves : s.day = q.day => s = q
    /\ part = "reviews" => today = 1 /\ Untouched("offers")
    /\ part = "sheet" => today = 1 /\ Untouched("booking") /\ Cardinality(saves) <= 1

\* What comes from eBay; an agent who marks while imports run; two agents whose work is reported.
FromBuyer == <<"CUSTOMER", "unread", 1>>
FromBuyerUnmarked == <<"CUSTOMER", "unknown", 1>>
FromProvider == <<"PROVIDER", "unread", 1>>
FromSeller == <<"AGENT", "read", 0>>
Incoming == {FromBuyer, FromBuyerUnmarked, FromProvider, FromSeller}
\* The other parts have no conversation.
NoConversation ==
    /\ time = 0 /\ ebay = [messages |-> {}, unread |-> 0] /\ conversation = <<>> /\ stored = {}
    /\ import = NotImporting /\ marks = <<>> /\ said = Unsaid /\ markedRead = {}

----------------------------------------------------------------------------
Init ==
    /\ part \in {"leave", "totals", "scores", "config", "tasks", "days", "reviews", "sheet", "breaks", "sla", "badge",
             "dashboard"}
    /\ LeaveInit /\ (part # "leave" => policy = Policy)
    /\ CASE part = "totals" -> Summary!PmsInit
         [] part = "config" -> Settings!PmsInit
         [] part = "leave" -> PmsInit
         [] OTHER -> Month!PmsInit
    /\ TaskInit /\ requests = 0
    /\ DayInit
    /\ SlaInit
    /\ IF part \in {"badge", "dashboard"} THEN ViewsInit ELSE NoConversation

Next ==
    /\ UNCHANGED part
    /\ \/ /\ \/ part = "leave" /\ (LeaveSteps(Req) \/ PolicySteps \/ LeaveApplied(Req, Agents))
             \/ part = "totals" /\ (Summary!LeaveSteps({r1}) \/ Summary!LeaveApplied({r1}, {ann})
                                    \/ Summary!ScoreSteps({ann}))
             \/ part = "scores" /\ Month!ScoreSteps(Agents)
             \/ part = "config" /\ (Settings!ConfigSteps \/ Settings!ScoreSteps({ann}))
          /\ UNCHANGED <<tree, workVars, breakVars, slaVars, viewsVars>>
       \/ /\ part = "tasks" /\ requests < MaxRequests /\ requests' = requests + 1
          /\ TreeSteps \/ AssignmentSteps
          /\ UNCHANGED <<pms, workVars, breakVars, slaVars, viewsVars>>
       \/ /\ part \in {"days", "reviews", "sheet"} /\ WorkSteps
          /\ UNCHANGED <<pms, tree, breakVars, slaVars, viewsVars>>
       \/ /\ part = "breaks" /\ BreakSteps
          /\ UNCHANGED <<pms, tree, workVars, slaVars, viewsVars>>
       \/ /\ part = "sla" /\ SlaNext
          /\ UNCHANGED <<pms, tree, workVars, breakVars, viewsVars>>
       \/ /\ \/ part = "badge" /\ MarkSteps({ann}, {FromBuyer, FromBuyerUnmarked})
                /\ \A m \in ebay'.messages : m.id <= 2
             \/ part = "dashboard" /\ ReportSteps({FromBuyer, FromProvider, FromSeller})
          /\ UNCHANGED <<pms, tree, workVars, breakVars, slaVars>>

ASSUME OfficeAssumption ==
    /\ Summary!MetricAssumption /\ Month!MetricAssumption /\ Settings!MetricAssumption
    /\ Summary!FormAssumption

Spec == Init /\ [][Next]_<<part, pms, tree, workVars, breakVars, slaVars, viewsVars>>

\* Types, part by part.
TypeOK == /\ part \in {"leave", "totals", "scores", "config"} => LeaveTypeOK /\ PmsTypeOK
          /\ part = "tasks" => TaskTypeOK
          /\ part = "sla" => SlaTypeOK
          /\ part \in {"badge", "dashboard"} => ViewsTypeOK
          /\ part \in {"days", "reviews", "sheet"} => WorkTypeOK
          /\ part = "breaks" => BreakTypeOK
=============================================================================
