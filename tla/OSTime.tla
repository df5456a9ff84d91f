------------------------------- MODULE OSTime -------------------------------
(***************************************************************************)
(* Time and calendar (OSTime.c).  The application calls OSUpdateCalendar   *)
(* once a second.  It runs with interrupts on and writes one field at a    *)
(* time, while GetCalendar and SetCalendar copy the whole calendar in a    *)
(* critical section: readers and writers of higher priority come between   *)
(* any two of its steps.                                                   *)
(*                                                                         *)
(* Hora and Data hold either a clock and a date of thirty-day months or    *)
(* the uptime, depending on the functions the application calls.           *)
(***************************************************************************)
EXTENDS Integers, Sequences

CONSTANTS
  Dates,        \* the calendars the application sets
  Starts,       \* the clocks, dates and uptimes observation starts with
  MaxUpdates    \* bound: updates of the calendar, and of Hora and Data

\* The fields in the order of the carry.
Fields == <<"Sec", "Min", "Hour", "Day", "Month", "Year">>

UINT8 == 256
UINT16 == 65536

Calendars == [Year : 1..(UINT16 - 1), Month : 1..13, Day : 1..32,
              Hour : 0..24, Min : 0..60, Sec : 0..60]

MonthLength == <<31, 28, 31, 30, 31, 30, 31, 31, 30, 31, 30, 31>>

LeapEveryFour(rtc) == IF rtc.Month = 2 /\ rtc.Year % 4 = 0 THEN 1 ELSE 0

\* Year & 3 is Year % 4.
LeapMonth(rtc) ==
  IF /\ rtc.Month = 2
     /\ rtc.Year % 4 = 0
     /\ rtc.Year % 100 = 0 => rtc.Year % 400 = 0
    THEN 1 ELSE 0

\* The dates of the Gregorian calendar.
IsLeap(y) == y % 4 = 0 /\ (y % 100 # 0 \/ y % 400 = 0)

ValidDate(rtc) ==
  /\ rtc.Month <= 12
  /\ rtc.Day <= IF rtc.Month = 2 /\ IsLeap(rtc.Year) THEN 29 ELSE MonthLength[rtc.Month]
  /\ rtc.Hour <= 23 /\ rtc.Min <= 59 /\ rtc.Sec <= 59

Clocks == [RTC_Second : 0..59, RTC_Minute : 0..59, RTC_Hour : 0..23]

Uptimes == [RTC_Day : 0..(UINT8 - 1), RTC_Month : {0}, RTC_Year : {0}]

\* The year after which Data begins again.
LastYear == 9998

\* The seconds of a day, and the days Data counts.
DaySeconds == 24 * 60 * 60
DateDays == 12 * 30 * (LastYear + 1)

\* Months of thirty days, counted from 0 like the days.
ShortDates == [RTC_Day : 0..29, RTC_Month : 0..11, RTC_Year : 0..LastYear]

ASSUME OSTimeAssumption ==
  /\ Dates \subseteq Calendars
  /\ \A rtc \in Dates : ValidDate(rtc)
  /\ MaxUpdates \in Nat
  /\ Starts \subseteq [usage : {"uptime"}, Hora : Clocks, Data : Uptimes]
                   \cup [usage : {"clock"}, Hora : Clocks, Data : ShortDates]

VARIABLES
  OSRtc,      \* the calendar
  phase,      \* "idle", or what OSUpdateCalendar does next
  field,      \* the field it does it to, an index of Fields
  register,   \* the CPU register an increment goes through
  before,     \* history: the calendar last set, or when the update began
  disturbed,  \* history: SetCalendar came during an update
  updates,    \* updates of the calendar
  Hora,       \* RTC_Second, RTC_Minute, RTC_Hour
  Data,       \* RTC_Day, RTC_Month, RTC_Year
  usage,      \* what the application keeps in Hora and Data
  seconds,    \* history: the time kept there, in seconds
  days,       \* history: the date kept there, in days
  counted     \* updates of Hora and Data

calendarVars == <<OSRtc, phase, field, register, before, disturbed, updates>>
clockVars == <<Hora, Data, usage, seconds, days, counted>>
vars == <<calendarVars, clockVars>>

-----------------------------------------------------------------------------
(***************************************************************************)
(* The calendar.                                                           *)
(***************************************************************************)
Init_Calendar ==
  [Year |-> 2011, Month |-> 3, Day |-> 28, Hour |-> 9, Min |-> 0, Sec |-> 30]

\* The test after an increment.
Passed(rtc, f) ==
  CASE f = "Sec" -> rtc.Sec = 60
    [] f = "Min" -> rtc.Min > 59
    [] f = "Hour" -> rtc.Hour > 23
    [] f = "Day" -> rtc.Day > MonthLength[rtc.Month] + LeapMonth(rtc)
    [] f = "Month" -> rtc.Month > 12

First(f) == IF f \in {"Day", "Month"} THEN 1 ELSE 0

Width(f) == IF f = "Year" THEN UINT16 ELSE UINT8

OSUpdateCalendar ==
  /\ phase = "idle"
  /\ updates < MaxUpdates
  /\ phase' = "load" /\ field' = 1
  /\ before' = OSRtc
  /\ updates' = updates + 1
  /\ UNCHANGED <<OSRtc, register, disturbed, clockVars>>

\* An increment reads the field and writes it back.
Load ==
  /\ phase = "load"
  /\ register' = OSRtc[Fields[field]]
  /\ phase' = "store"
  /\ UNCHANGED <<OSRtc, field, before, disturbed, updates, clockVars>>

Store ==
  LET f == Fields[field]
  IN  /\ phase = "store"
      /\ OSRtc' = [OSRtc EXCEPT ![f] = (register + 1) % Width(f)]
      /\ register' = 0
      /\ phase' = IF f = "Year" THEN "idle" ELSE "test"
      /\ UNCHANGED <<field, before, disturbed, updates, clockVars>>

Test ==
  /\ phase = "test"
  /\ phase' = IF Passed(OSRtc, Fields[field]) THEN "carry" ELSE "idle"
  /\ UNCHANGED <<OSRtc, register, field, before, disturbed, updates, clockVars>>

CarryKeepsField ==
  /\ phase = "carry"
  /\ phase' = "load" /\ field' = field + 1
  /\ UNCHANGED <<OSRtc, register, before, disturbed, updates, clockVars>>

Carry ==
  /\ phase = "carry"
  /\ OSRtc' = [OSRtc EXCEPT ![Fields[field]] = First(Fields[field])]
  /\ phase' = "load" /\ field' = field + 1
  /\ UNCHANGED <<register, before, disturbed, updates, clockVars>>

SetCalendar(rtc) ==
  /\ OSRtc' = rtc
  /\ disturbed' = (phase # "idle")
  /\ before' = rtc
  /\ UNCHANGED <<register, phase, field, updates, clockVars>>

CalendarStep ==
  \/ OSUpdateCalendar \/ Load \/ Store \/ Test \/ Carry
  \/ \E rtc \in Dates : SetCalendar(rtc)

-----------------------------------------------------------------------------
(***************************************************************************)
(* Clock, date and uptime, each updated in one critical section.           *)
(***************************************************************************)
Counted == counted < MaxUpdates /\ counted' = counted + 1

\* One second more; what the hours carry is lost to Hora.
NextSecond(h) ==
  CASE h.RTC_Second # 59 -> [h EXCEPT !.RTC_Second = @ + 1]
    [] h.RTC_Second = 59 /\ h.RTC_Minute # 59 ->
         [h EXCEPT !.RTC_Second = 0, !.RTC_Minute = @ + 1]
    [] h.RTC_Second = 59 /\ h.RTC_Minute = 59 ->
         [RTC_Second |-> 0, RTC_Minute |-> 0,
          RTC_Hour |-> IF h.RTC_Hour = 23 THEN 0 ELSE h.RTC_Hour + 1]

OSUpdateTime ==
  /\ usage = "clock" /\ Counted
  /\ Hora' = NextSecond(Hora)
  /\ seconds' = seconds + 1
  /\ UNCHANGED <<Data, usage, days, calendarVars>>

OSUpdateUptime ==
  /\ usage = "uptime" /\ Counted
  /\ Hora' = NextSecond(Hora)
  /\ Data' = [Data EXCEPT !.RTC_Day =
                IF Hora'.RTC_Hour < Hora.RTC_Hour THEN (@ + 1) % UINT8 ELSE @]
  /\ seconds' = seconds + 1
  /\ UNCHANGED <<usage, days, calendarVars>>

NextDayOneBased(d) ==
  CASE d.RTC_Day # 30 -> [d EXCEPT !.RTC_Day = @ + 1]
    [] d.RTC_Day = 30 /\ d.RTC_Month # 12 ->
         [d EXCEPT !.RTC_Day = 1, !.RTC_Month = @ + 1]
    [] d.RTC_Day = 30 /\ d.RTC_Month = 12 ->
         [RTC_Day |-> 1, RTC_Month |-> 1, RTC_Year |-> d.RTC_Year + 1]

NextDay(d) ==
  CASE d.RTC_Day # 29 -> [d EXCEPT !.RTC_Day = @ + 1]
    [] d.RTC_Day = 29 /\ d.RTC_Month # 11 ->
         [d EXCEPT !.RTC_Day = 0, !.RTC_Month = @ + 1]
    [] d.RTC_Day = 29 /\ d.RTC_Month = 11 ->
         [RTC_Day |-> 0, RTC_Month |-> 0,
          RTC_Year |-> IF d.RTC_Year = LastYear THEN 0 ELSE d.RTC_Year + 1]

OSUpdateDate ==
  /\ usage = "clock" /\ Counted
  /\ Data' = NextDay(Data)
  /\ days' = days + 1
  /\ UNCHANGED <<Hora, usage, seconds, calendarVars>>

OSResetTime ==
  /\ Hora' = [RTC_Second |-> 0, RTC_Minute |-> 0, RTC_Hour |-> 0]
  /\ seconds' = seconds - (seconds % DaySeconds)
  /\ UNCHANGED <<Data, usage, days, counted, calendarVars>>

OSResetDate ==
  /\ Data' = [RTC_Day |-> 0, RTC_Month |-> 0, RTC_Year |-> 0]
  /\ seconds' = seconds % DaySeconds
  /\ days' = 0
  /\ UNCHANGED <<Hora, usage, counted, calendarVars>>

ClockStep ==
  OSUpdateTime \/ OSUpdateUptime \/ OSUpdateDate \/ OSResetTime \/ OSResetDate

-----------------------------------------------------------------------------
SecondOfDay(h) == (h.RTC_Hour * 60 + h.RTC_Minute) * 60 + h.RTC_Second

DayOf(d) == (d.RTC_Year * 12 + d.RTC_Month) * 30 + d.RTC_Day

Init ==
  /\ OSRtc = Init_Calendar /\ before = Init_Calendar
  /\ phase = "idle" /\ field = 1 /\ register = 0 /\ disturbed = FALSE /\ updates = 0
  /\ \E s \in Starts :
       /\ Hora = s.Hora /\ Data = s.Data /\ usage = s.usage
       /\ days = IF s.usage = "clock" THEN DayOf(s.Data) ELSE 0
       /\ seconds = SecondOfDay(s.Hora)
                     + (IF s.usage = "uptime" THEN DaySeconds * s.Data.RTC_Day ELSE 0)
  /\ counted = 0

Next == CalendarStep \/ ClockStep

Spec == Init /\ [][Next]_vars

-----------------------------------------------------------------------------
(***************************************************************************)
(* A reference for the calendar: the number of a day in the Gregorian      *)
(* calendar, by a closed formula.  It also takes the day and the month     *)
(* that follow the last one.                                               *)
(***************************************************************************)
DayNumber(y, m, d) ==
  LET past == y - 1
  IN  365 * past + past \div 4 - past \div 100 + past \div 400
        + (367 * m - 362) \div 12
        + (IF m <= 2 THEN 0 ELSE IF IsLeap(y) THEN -1 ELSE -2) + d

\* The seconds from calendar a to calendar b.
Elapsed(a, b) ==
  DaySeconds * (DayNumber(b.Year, b.Month, b.Day) - DayNumber(a.Year, a.Month, a.Day))
    + 3600 * (b.Hour - a.Hour) + 60 * (b.Min - a.Min) + (b.Sec - a.Sec)

(***************************************************************************)
(* OSUpdateCalendar advances the calendar by exactly one second and leaves *)
(* a date that exists, across the ends of months, of leap and other        *)
(* Februaries and of years, unless SetCalendar came in between: then the   *)
(* carry goes on in the new date, and may leave 31 February.  After the    *)
(* last year sixteen bits can hold it begins again in year 0.              *)
(***************************************************************************)
CalendarCounts ==
  phase = "idle" /\ ~disturbed =>
    /\ ValidDate(OSRtc)
    /\ \/ OSRtc = before
       \/ before.Year = UINT16 - 1 /\ OSRtc.Year = 0
       \/ Elapsed(before, OSRtc) = 1

(***************************************************************************)
(* What GetCalendar copies in the middle of an update is never ahead of    *)
(* the time the update leads to: a field is reset before the next one      *)
(* advances, so that the torn value lies in the past.                      *)
(***************************************************************************)
ReadsNeverAhead ==
  phase # "idle" /\ ~disturbed => Elapsed(before, OSRtc) <= 1

(***************************************************************************)
(* Hora is the time of day and Data the days of uptime modulo 256, or the  *)
(* date in months of thirty days: no carry is lost or counted twice.       *)
(***************************************************************************)
ClockCounts ==
  /\ SecondOfDay(Hora) = seconds % DaySeconds
  /\ usage = "uptime" => Data.RTC_Day = (seconds \div DaySeconds) % UINT8
  /\ usage = "clock" => DayOf(Data) = days % DateDays
=============================================================================
