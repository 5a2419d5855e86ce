------------------------------- MODULE Breaks -------------------------------
(***************************************************************************)
(* Break sessions of the agents.  A start looks for an active break and    *)
(* then inserts one, in two steps without a lock or a constraint between   *)
(* them.  Time is in half minutes; a day is DayLength of them, in UTC.     *)
(***************************************************************************)
EXTENDS Integers, FiniteSets, FiniteSetsExt

CONSTANTS
    Staff,          \* the agents
    Session,        \* ids of break sessions
    DayLength,      \* half minutes in a day
    Horizon,        \* bound on the clock
    Never           \* end_time is NULL

ASSUME BreakAssumption == DayLength \in Nat \ {0} /\ Horizon \in Nat /\ Never \notin Nat

VARIABLES
    clock,
    sessions,       \* BreakSession: user, start_time, end_time, duration_minutes
    starting,       \* agents whose start has found no active break
    doubled         \* history: agents two of whose starts overlapped

breakVars == <<clock, sessions, starting, doubled>>

BreakInit == clock = 0 /\ sessions = <<>> /\ starting = [u \in Staff |-> 0] /\ doubled = {}

OpenOf(u) == {s \in DOMAIN sessions : sessions[s].user = u /\ sessions[s].end = Never}
\* get_active_break(): the latest one.
ActiveBreak(u) == {s \in OpenOf(u) : \A q \in OpenOf(u) : sessions[q].start <= sessions[s].start}

MinutesWithin(s, first, last) ==
    LET finish == IF sessions[s].end = Never THEN clock ELSE sessions[s].end
    IN Max({0, (Min({finish, last}) - Max({sessions[s].start, first})) \div 2})

\* The day's sessions and total in the overview.
OfDay(u, day) ==
    {s \in DOMAIN sessions :
        /\ sessions[s].user = u /\ sessions[s].start < (day + 1) * DayLength
        /\ \/ sessions[s].end = Never
           \/ sessions[s].start >= day * DayLength
           \/ sessions[s].end > day * DayLength}
MinutesOn(day) == [s \in DOMAIN sessions |-> MinutesWithin(s, day * DayLength, (day + 1) * DayLength)]
MinutesOver(f, S) == FoldSet(LAMBDA x, n : n + f[x], 0, S)
DayTotal(u, day) == MinutesOver(MinutesOn(day), OfDay(u, day))

----------------------------------------------------------------------------
StartCheck(u) ==
    /\ OpenOf(u) = {} /\ starting[u] < 2
    /\ starting' = [starting EXCEPT ![u] = @ + 1]
    /\ doubled' = IF starting[u] > 0 THEN doubled \cup {u} ELSE doubled
    /\ UNCHANGED <<clock, sessions>>

StartInsert(u, s) ==
    /\ starting[u] > 0 /\ s \notin DOMAIN sessions
    /\ sessions' = [q \in DOMAIN sessions \cup {s} |-> IF q \in DOMAIN sessions THEN sessions[q]
                      ELSE [user |-> u, start |-> clock, end |-> Never, minutes |-> 0]]
    /\ starting' = [starting EXCEPT ![u] = @ - 1]
    /\ UNCHANGED <<clock, doubled>>

End(u, s) ==
    /\ s \in ActiveBreak(u)
    /\ sessions' = [sessions EXCEPT ![s].end = clock, ![s].minutes = (clock - sessions[s].start) \div 2]
    /\ UNCHANGED <<clock, starting, doubled>>

Tick == clock < Horizon /\ clock' = clock + 1 /\ UNCHANGED <<sessions, starting, doubled>>

BreakSteps ==
    \/ Tick
    \/ \E u \in Staff : StartCheck(u)
    \/ \E u \in Staff, s \in Session : StartInsert(u, s) \/ End(u, s)
BreakSpec == BreakInit /\ [][BreakSteps]_breakVars

BreakTypeOK ==
    \A s \in DOMAIN sessions : /\ sessions[s].start <= clock
                               /\ sessions[s].end = Never \/ sessions[s].end >= sessions[s].start

\* Unless two of an agent's starts overlapped, the agent has one active break at
\* most, no day's total exceeds the day, and the days of a break that is over add
\* up to its duration but for a minute lost to rounding at each midnight.
BreaksAddUp ==
    \A u \in {sessions[s].user : s \in DOMAIN sessions} \ doubled :
        /\ Cardinality(OpenOf(u)) <= 1
        /\ \A day \in 0 .. Horizon \div DayLength : 2 * DayTotal(u, day) <= DayLength
        /\ \A s \in DOMAIN sessions : sessions[s].user = u /\ sessions[s].end # Never =>
            LET days == {d \in 0 .. Horizon \div DayLength : s \in OfDay(u, d)}
                sum == MinutesOver([d \in days |-> MinutesOn(d)[s]], days)
            IN sum <= sessions[s].minutes /\ sessions[s].minutes < sum + Max({1, Cardinality(days)})
=============================================================================
