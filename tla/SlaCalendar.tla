------------------------------ MODULE SlaCalendar -----------------------------
(* The due date of a ticket in business hours (sla.helper): each turn of its *)
(* two loops is a step. A unit of time stands for the minute, a day has      *)
(* DayLength of them and a week WeekLength days, both numbered from 0.       *)
EXTENDS Integers, FiniteSets

CONSTANTS DayLength, WeekLength, LongestTarget

ASSUME CalendarAssumption == {DayLength, WeekLength, LongestTarget} \subseteq Nat \ {0}

VARIABLES
    opens, closes, openDays,   \* businessHours and businessDays
    from, asked,               \* startDate and minutesToAdd
    current, remaining,
    turn                       \* the loop: "adjust" or "consume", or "due"

calendarVars == <<opens, closes, openDays, from, asked, current, remaining, turn>>

Hour(u) == u % DayLength
DayOf(u) == u \div DayLength
OpenDay(u) == DayOf(u) % WeekLength \in openDays
NextOpening(u) == (DayOf(u) + 1) * DayLength + opens

CalendarTypeOK ==
    /\ openDays \in (SUBSET (0 .. WeekLength - 1)) \ {{}}
    /\ opens \in 0 .. DayLength - 1 /\ closes \in opens + 1 .. DayLength
    /\ from \in 0 .. DayLength * WeekLength - 1 /\ asked \in 0 .. LongestTarget
    /\ turn \in {"adjust", "consume", "due"} /\ remaining \in 0 .. asked
    /\ current \in from .. from + DayLength * WeekLength * (asked + 1)
    /\ turn = "consume" => OpenDay(current) /\ Hour(current) \in opens .. closes - 1

CalendarInit ==
    /\ openDays \in (SUBSET (0 .. WeekLength - 1)) \ {{}}
    /\ opens \in 0 .. DayLength - 1 /\ closes \in opens + 1 .. DayLength
    /\ from \in 0 .. DayLength * WeekLength - 1 /\ asked \in 0 .. LongestTarget
    /\ current = from /\ remaining = asked /\ turn = "adjust"

inputVars == <<opens, closes, openDays, from, asked>>

MutAfterHours(u) == Hour(u) > closes
AfterHours(u) == Hour(u) >= closes

(* adjustToBusinessHours, to the first open moment from current on.          *)
Adjust ==
    /\ turn = "adjust"
    /\ IF ~OpenDay(current) \/ AfterHours(current)
       THEN current' = NextOpening(current) /\ UNCHANGED turn
       ELSE /\ current' = IF Hour(current) < opens THEN DayOf(current) * DayLength + opens ELSE current
            /\ turn' = "consume"
    /\ UNCHANGED <<remaining, inputVars>>

Available == closes - Hour(current)

(* What remains does not fit in the day: go on at the next opening.          *)
NextDay ==
    /\ turn = "consume" /\ remaining > Available
    /\ remaining' = remaining - Available /\ current' = NextOpening(current) /\ turn' = "adjust"
    /\ UNCHANGED inputVars

MutSameDay ==
    /\ turn = "consume" /\ remaining <= Available
    /\ current' = current + remaining /\ turn' = "due"
    /\ UNCHANGED <<remaining, inputVars>>

SameDay ==
    /\ turn = "consume" /\ remaining <= Available
    /\ current' = current + remaining /\ remaining' = 0 /\ turn' = "due"
    /\ UNCHANGED inputVars

CalendarNext == Adjust \/ NextDay \/ SameDay

CalendarSpec == CalendarInit /\ [][CalendarNext]_calendarVars

-----------------------------------------------------------------------------

OpenUnits(u, v) == {x \in u .. v - 1 : OpenDay(x) /\ Hour(x) \in opens .. closes - 1}

(* At each turn the open time passed since the start and what remains make   *)
(* the target, so the due date leaves the team exactly the minutes promised, *)
(* wherever the ticket falls in the week and however short the days are.     *)
WorkIsConserved == Cardinality(OpenUnits(from, current)) + remaining = asked

(* A deadline falls in open hours, or at the close of the last open day.     *)
DueInOpenHours == turn = "due" /\ asked > 0 => current - 1 \in OpenUnits(from, current)
=============================================================================
