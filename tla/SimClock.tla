------------------------------ MODULE SimClock ------------------------------
(***************************************************************************)
(* The calendar of a world (time_system.py): every date is a function of   *)
(* the day number, and a tick announces the boundaries it crosses.  Here a *)
(* step of the clock is a day: all the boundaries fall on one.             *)
(***************************************************************************)
EXTENDS Integers, Sequences

CONSTANTS
  DaysPerMonth,   \* Config.days_per_month
  MonthToSeason,  \* Config.month_to_season: the season of each month
  Seasons         \* the number of Config.seasons_per_year

ClockAssumption ==
  /\ DaysPerMonth \in Seq(Nat \ {0}) /\ DaysPerMonth # <<>>
  /\ DOMAIN MonthToSeason = DOMAIN DaysPerMonth /\ Seasons \in Nat
  /\ \A m \in DOMAIN MonthToSeason : MonthToSeason[m] \in 0..(Seasons - 1)

Months == Len(DaysPerMonth)

\* A season is one run of months, which may go over the turn of the year.
SeasonBegins(m) ==
  MonthToSeason[m] # MonthToSeason[IF m = 1 THEN Months ELSE m - 1]

SeasonsBeginOnce ==
  \A m, n \in DOMAIN MonthToSeason :
    SeasonBegins(m) /\ SeasonBegins(n) /\ MonthToSeason[m] = MonthToSeason[n] => m = n

\* The days of a year that have passed when its month m (from 0) begins.
DaysBefore[m \in 0..Months] ==
  IF m = 0 THEN 0 ELSE DaysBefore[m - 1] + DaysPerMonth[m]

DaysPerYear == DaysBefore[Months]

year(day) == day \div DaysPerYear
dayOfYear(day) == day % DaysPerYear

\* The month (from 0) that holds a day of the year.
MonthOf == [d \in 0..(DaysPerYear - 1) |->
  CHOOSE m \in 0..(Months - 1) : DaysBefore[m] <= d /\ d < DaysBefore[m + 1]]

monthIndex(day) == MonthOf[dayOfYear(day)]
dayOfMonth(day) == dayOfYear(day) - DaysBefore[monthIndex(day)]
seasonIndex(day) == MonthToSeason[monthIndex(day) + 1]

\* Ordinals tell the same month or season of two years apart.
monthOrdinal(day) == year(day) * Months + monthIndex(day)
seasonOrdinal(day) == year(day) * Seasons + seasonIndex(day)

\* The boundaries that the tick into this day crosses, beside the day itself.
Crossed(day) ==
  LET turned == year(day) # year(day - 1)
      month == monthIndex(day)  last == monthIndex(day - 1)
  IN (IF turned \/ month # last THEN {"month_end"} ELSE {})
     \cup (IF MonthToSeason[month + 1] # MonthToSeason[last + 1] THEN {"season_end"} ELSE {})
     \cup (IF turned THEN {"year_end"} ELSE {})
=============================================================================
