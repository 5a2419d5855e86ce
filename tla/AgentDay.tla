------------------------------ MODULE AgentDay ------------------------------
(***************************************************************************)
(* An agent's day as the office reports it: the work done and the breaks   *)
(* taken.  The two are kept in tables of their own.                        *)
(***************************************************************************)
EXTENDS DailyWork, Breaks

DayInit == WorkInit /\ BreakInit
DayNext ==
    \/ WorkSteps /\ UNCHANGED breakVars
    \/ BreakSteps /\ UNCHANGED workVars
DaySpec == DayInit /\ [][DayNext]_<<workVars, breakVars>>

\* No work and no break is counted twice, and what an entry said of a day that has ended
\* stays what the day's report says.
ReportsTrue == NoWorkCountedTwice /\ FinishedDayStands /\ BreaksAddUp
=============================================================================
